CONSTANTS
    U256Max = 1000000
    Wad = 100
    Curves <- MCCurves
    BuySizes <- MCBuySizes
    SellSizes <- MCSellSizes
    Asked <- MCAsked
    OddSupplies <- MCOddSupplies
    OddTargets <- MCOddTargets
    OddFees <- MCOddFees
    OddSizes <- MCOddSizes
    LaunchFees <- MCLaunchFees
SPECIFICATION Spec
CHECK_DEADLOCK FALSE
INVARIANTS
    ExitCovered
    CollectsTarget
    NeverStuck
    QuotesNeverRevert
    RoundTripLoses
    SplittingNeverHelps
    InversesLeast
    CrateAgrees
