SPECIFICATION Spec
CONSTANTS
    aggregate = aggregate
    stt = stt
    Workers <- MCWorkers
    Ceiling = 3
    SubMicro = 2
    Bills <- MCBills
    MaxBill = 2
    MaxDay = 2
INVARIANT
    TripMeansCeiling
