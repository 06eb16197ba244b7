SPECIFICATION Spec
CONSTANTS
    Payments <- MCPayments
    Coins <- MCCoins
    CoinOwner <- MCOwner
    CoinAmount <- MCAmount
    None = none
    MaxInFlight = 2
    Targets <- MCTargets
INVARIANTS
    SupplyAddsUp
    SharedInputIsARace
