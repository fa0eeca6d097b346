\* Two pool threads, three commands or two tasks, and a shutdown of either kind
\* at any moment.
CONSTANTS
    Pool = {p1, p2}
    MaxCommands = 3
    MaxTimers = 2
    Period = 1
    MaxLag = 1
    Interruptible = TRUE
SPECIFICATION AnySpec
INVARIANTS
    TypeOK
    TimersArePending
    NoEarlyStart
    QuietAfterShutdown
    AcceptedCommandsRun
PROPERTIES
    ShutdownReturns
    CommandsStart
    TasksKeepRunning
