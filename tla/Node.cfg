SPECIFICATION NodeSpec
CONSTANTS
    Chains = {a1, a2}
    Syncs = {1, 2}
    Remote = 5
    Stored = 1
    Batch = 2
    MaxMined = 2
    Urls = {a1, a2}
    NoUrl = nourl
    NoScore = noscore
    FullScore = 2
    MaxPeers = 1
    Bucket <- MCBucket
    BucketSize = 1
    TriedAfter = 2
    ForgetAfter = 2
    LowestScore = 0
    Threads = {b1, b2}
    Invs = {a1, a2}
    Timeout = 1
    MaxTime = 2
    MaxAsked = 3
    Ips = {a1, a2}
    Limit = 2
    Window = 2
    MaxClock = 3
    MaxOpen = 2
    Payments = {b1, b2}
    MaxSignals = 2
    Byte = 2
    Wide = 2
    Short = 2
    MaxHeight = 3
    Items <- MCItems
    Digests <- MCDigests
    Base = 2
    Width = 2
    Room = 4
    Contracts <- MCContracts
    Addresses = {3, 5}
    Depth = 4
    MaxCalls = 2
    Fetchers = {b1, b2}
    Branches <- MCBranches
    PeerCount = 2
    MaxSyncs = 3
    Transfers = {21, 22, 23}
    Reward = 20
    ShortId <- MCShortId
    MaxHeld = 2
    Objects = {b1, b2}
    Spends = {p}
    MaxDepth = 1
    Peak = 2
    MaxMade = 3
    MaxSynced = 1
SYMMETRY Symmetry
INVARIANTS
    NodeTypeOK
    
    
    
    AskedTwiceOverlaps
    ServerKeepsCount
    
    SuccessIsAnEquality
    HeadersFollowOneBranch
    CompleteNeedsACollision
    ReportsAreAccounted
PROPERTIES
    
    MachineKeepsState
CHECK_DEADLOCK FALSE
