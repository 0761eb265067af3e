CONSTANTS
    U256Max = 1000000
    Wad = 100
    Curve <- MCCurve
    Plans <- MCPlans
    BuySizes = {2, 20}
    SellSizes = {1}
    Tokens = {"USDC", "EURC", "BTC"}
    ListedTokens = {"USDC"}
    MaxMoves = 2
    MaxFailures = 1
SPECIFICATION Spec
CHECK_DEADLOCK FALSE
INVARIANTS
    ReachableIsTrue
