\* An update, then a clear.
CONSTANTS
    Workers = {t1}
    MaxClock = 1
    MaxUpdates = 1
    AllocFails = FALSE
SPECIFICATION TimerSpec
INVARIANTS
    MeterIsCleared
