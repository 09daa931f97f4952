SPECIFICATION Spec
CONSTANTS
    MaxAge = 1
    MaxTokens = 4
    Interval = 2
    Sizes = {1, 3, 5}
    OutCap = 1
    MaxOwed = 1
INVARIANTS
    WindowBudget
    SummarizedOnce
PROPERTIES
    DueAttempted
    LoopEnds
