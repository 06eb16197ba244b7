SPECIFICATION ServicesSpec
CONSTANTS
    Workers = {w1, w2}
    Clerks = {w1, w2}
    Validators = {v1, v2}
    Heights = {h1, h2}
    None = none
    MaxHour = 1
    MaxEvents = 3
    a1 = a1
    a2 = a2
    Accounts = {a1, a2}
    Proposals = {p1}
    Nothing = nothing
    Wealth <- MCWealth
    Amounts = {1, 2}
    MinimumBond = 1
    ProposerMinimum = 2
    VoteMinimum = 1
    TierFees = {0, 2}
    MaxCalls = 4
    MaxTransfers = 1
    t1 = t1
    t2 = t2
    t3 = t3
    Txs = {t1, t2, t3}
    Rate <- MCRate
    MaxSize = 1
    Procs = {w1, w2}
    Outpoints = {v1, v2}
    Versions = {h1, h2}
    MaxMemory = 1
    Offers <- MCOffers
    Tiers <- MCTiers
    MaxFees = 5
    MaxBlocks = 2
    MaxHistory = 1
    MaxBlock = 4
    MaxProofs = 2
    Miners = {w1, w2}
    FirstReward = 5
    FirstYear = 2
    Stakes = {0, 3}
    LastHeight = 0
    Top = 2
SYMMETRY Symmetry
INVARIANTS
    ServicesTypeOK
    JailMatchesEvents
    DuplicateIsARace
    ServesAnHour
    SecondEntryOverlaps
    PowerIsAccounted
    StaleNeedsAnother
    WaitingIsNotDearer
    ReloadIsAnotherBlock
    
PROPERTIES
    PoolKeepsItsPromise
CHECK_DEADLOCK FALSE
