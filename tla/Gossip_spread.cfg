SPECIFICATION FairSpec
CHECK_DEADLOCK FALSE
CONSTANTS
    b = b
    c = c
    x = x
    y = y
    Nodes = {b, c}
    Seeds = {b}
    Items = {x, y}
    Client = client
    Submissions <- Submits
    Announcements <- Announces
    MaxThreads = 2
    MaxLosses = 1
    MaxCrashes = 1
INVARIANTS
    DuplicatesAreBounded
PROPERTIES
    SpreadsDespiteALoss
    NoStorm
