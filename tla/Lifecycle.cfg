SPECIFICATION Spec
CONSTANTS
    ConfirmPolls = 3
    MaxRestarts = 2
INVARIANTS
    NoticesAlternate
PROPERTIES
    ConfirmedChange
    StatusPublished
    LoopEnds
