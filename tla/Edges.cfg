SPECIFICATION Spec
CONSTANTS
    DescLimit = 3
    FieldLimit = 3
    MaxEmbeds = 2
    MaxText = 6
    MaxLines = 5
    MaxFile = 2
CHECK_DEADLOCK FALSE
INVARIANTS
    ChunksFaithful
    AudioPreferred
    AnswersUsed
    ConfigFaithful
