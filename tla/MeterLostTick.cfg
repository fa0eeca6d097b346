\* Two tick loops of one EWMA overlap.
CONSTANTS
    Threads = {t1, t2}
    NumRates = 1
    TICK_INTERVAL = 2
    StartTime = 1
    MaxTime = 7
    Wrap = 16
    Amounts = {1, 2}
    MaxCount = 2
    AlphaNum = 2
    AlphaDen = 3
    Scale = 27
SPECIFICATION Spec
INVARIANTS
    EveryTickIsFolded
