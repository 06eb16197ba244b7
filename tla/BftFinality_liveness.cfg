SPECIFICATION FairSpec
CONSTANTS
    Workers = {w1, w2}
    Heights = {1}
    Hashes = {ha, hb}
    Validators = {v1, v2, v3, v4}
    TotalValidators = 4
    EmptyHash = empty
    None = none
    MayCrash = FALSE
PROPERTY QuorumIsFinalized
