CONSTANTS
    DeclaredErrors = {"SlippageExceeded", "WrappedError"}
    Plans <- MCPlans
    MaxCalls = 3
    MaxFailures = 1
SPECIFICATION Spec
CHECK_DEADLOCK FALSE
INVARIANTS
    FailuresAreFresh
    BlameIsTrue
    ScaledRight
PROPERTIES
    NothingForgotten
