\* Timer: two threads time, update and clear while a report is made.
\* Meter: two threads share one of two EWMAs while three intervals pass, and one
\* of them may stop for ever; each may have begun a mark(1) when the bound on
\* count_ is met.
\* Snapshot: up to 50 values, so that the 95th percentile lies inside from 20 on
\* and the 98th in those of 50; larger ones overflow the integers of TLC.
CONSTANTS
    Workers = {t1, t2}
    MaxClock = 2
    MaxUpdates = 2
    AllocFails = TRUE
    Threads = {t1, t2}
    NumRates = 2
    TICK_INTERVAL = 2
    StartTime = 1
    MaxTime = 7
    Wrap = 16
    Amounts = {1}
    MaxCount = 1
    AlphaNum = 2
    AlphaDen = 3
    Scale = 27
    Values <- MCValues
    MaxSize = 50
SPECIFICATION MCSpec
INVARIANTS
    TimesDoNotOverlap
    CountCoversSample
    ReportCountsItsValues
    TypeOK
    AgeNeverWraps
    TicksMatchIntervals
    AverageIsExact
    RateWithinObserved
    EveryTickIsTaken
    EventsAreConserved
    PercentilesAreQuantiles
    SpreadIsPairwise
PROPERTIES
    CallsReturn
