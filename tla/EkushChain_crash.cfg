SPECIFICATION Spec
CONSTANTS
    Nodes = {m}
    Hashes = {h1, h2, h3}
    NoHash = noHash
    None = none
    Txs <- MCTxs
    ApiTxs <- OneTx
    Addresses <- MCAddresses
    InitialBalance <- MCBalance
    MaxHeight = 2
    MaxRewards = 2
    MaxMempool = 4
    MaxBlockWeight = 4
    MaxCrashes = 2
    MayFail = FALSE
SYMMETRY Symmetry
INVARIANTS
    MemoryMatchesStore
    
    
PROPERTIES
    ImplementsLedger
