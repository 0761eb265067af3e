CONSTANTS
    U256Max = 1000000000
    Wad = 100
    Accounts = {"a", "b"}
    Curve <- MCCurve
    Funds = 12
    TradeGas = 300000
    PushGas = 111587
    InstantMigrationGas = 6100000
    Plans <- MCPlans
    MaxCalls = 3
    MaxFailures = 1
SPECIFICATION FairSpec
CHECK_DEADLOCK FALSE
INVARIANTS
    ReportsTrue
    MigrationsTold
    ThrowsMeanNoTrade
    ExposureBounded
    FeePushesHaveGas
    CallsTold
PROPERTIES
    ChosenGasMigrates
    KeepsPromise
    NeverStranded
    CallsEnd
    WritesEnd
