SPECIFICATION Spec
CONSTANTS
    aggregate = aggregate
    stt = stt
    Workers <- MCWorkers
    Ceiling = 4
    SubMicro = 2
    Bills <- MCBills
    MaxBill = 2
    MaxDay = 2
INVARIANTS
    DailySpendBounded
    KillSwitchExact
    OneReportPerDay
PROPERTIES
    RefusalJustified
    CallReturns
