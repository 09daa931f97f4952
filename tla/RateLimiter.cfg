SPECIFICATION RateSpec
CONSTANTS
    N = 3
    Window = 7
    Slack = 1
    MaxAge = 15
INVARIANTS
    RateBound
PROPERTY
    AcquireReturns
