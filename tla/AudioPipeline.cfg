SPECIFICATION AudioSpec
INVARIANTS
    NoOrphans
    NoLostWakeup
PROPERTIES
    CaptureStops
    Recaptures
