CONSTANTS
    DeclaredErrors = {"SlippageExceeded", "WrappedError"}
    Plans <- ChainPlans
    MaxCalls = 3
    MaxFailures = 1
SPECIFICATION Spec
CHECK_DEADLOCK FALSE
INVARIANTS
    ChainIsAsked
