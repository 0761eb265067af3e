CONSTANTS
    U256Max = 1000000000
    Wad = 100
    Accounts = {"a", "b"}
    Templates <- MCTemplates
    LaunchFees = {1, 2}
    Funds = 16
    LaunchGas = 4700000
    PushGas = 111587
    InstantLaunchGas = 6250147
    Plans <- MCPlans
    MaxCalls = 3
    MaxFailures = 1
SPECIFICATION Spec
CHECK_DEADLOCK FALSE
INVARIANTS
    NeverOvercharged
    LaunchesToldTrue
    GraduationForeseen
    LaunchPushesHaveGas
PROPERTIES
    ForeseenGraduationMigrates
