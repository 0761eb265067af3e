CONSTANTS
    Accounts = {"a", "b"}
    PoolManager = PoolManager
    ThisPool = ThisPool
    OtherPool = OtherPool
    ZeroPool = ZeroPool
    Unknown = Unknown
    Funds = 500
    SwapGas = 300000
    PushGas = 334761
    HalfBits = 12
    Plans <- MCPlans
    MaxCalls = 3
    MaxFailures = 1
SPECIFICATION FairSpec
INVARIANTS
    FillsTold
    QuotesTold
    ThrowsMeanNoTrade
    PoolPushesHaveGas
    OptionsHonoured
PROPERTIES
    RetriesTrade
CHECK_DEADLOCK FALSE
