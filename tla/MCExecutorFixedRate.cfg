\* A fixed-rate task, begun in time, takes longer than its period while a thread
\* is idle.
CONSTANTS
    Pool = {p1, p2}
    MaxCommands = 3
    MaxTimers = 1
    Period = 1
    MaxLag = 0
    Interruptible = TRUE
SPECIFICATION AnySpec
INVARIANTS
    LongRunsOverlap
