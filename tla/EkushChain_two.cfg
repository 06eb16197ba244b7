SPECIFICATION Spec
CONSTANTS
    Nodes = {m, api}
    Hashes = {h1, h2, h3, h4, h5}
    NoHash = noHash
    None = none
    Txs <- OneTx
    ApiTxs <- OneTx
    Addresses <- MCAddresses
    InitialBalance <- MCBalance
    MaxHeight = 2
    MaxRewards = 2
    MaxMempool = 1
    MaxBlockWeight = 1
    MaxCrashes = 1
    MayFail = FALSE
SYMMETRY Symmetry
INVARIANTS
    Inv

    
