SPECIFICATION Spec
CONSTANTS
    MaxAge = 0
    MaxTokens = 1
    Interval = 0
    Sizes = {1}
    OutCap = 1
    MaxOwed = 1
    Handles <- MCHandles
    Timeout = 1
INVARIANT
    FinalSummaryPosted
