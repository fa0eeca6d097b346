-------------------------------- MODULE Timer --------------------------------
(***************************************************************************)
(* cppmetrics::core::Timer, the contexts that measure for it, and a report *)
(* that reads it.  A timer is a histogram over an ExpDecaySample and a     *)
(* Meter, which it updates one after the other without a lock of its own.  *)
(*                                                                         *)
(* Of the parts, which have modules of their own, it is kept what a report *)
(* compares: how many values the sample holds (it changes under its mutex, *)
(* in one step) and how many events the meter has counted.  Each thread    *)
(* has at most one TimerContext, which is not shared (timer.h:96).         *)
(***************************************************************************)
EXTENDS Integers, FiniteSets

CONSTANTS
    Workers,      \* threads that time things
    MaxClock,     \* bound: the clock stops here
    MaxUpdates,   \* bound: how many durations are counted
    AllocFails    \* may the sample fail to store a value

ASSUME TimerAssumption ==
    /\ IsFiniteSet(Workers)
    /\ MaxClock \in Nat /\ MaxUpdates \in Nat
    /\ AllocFails \in BOOLEAN

VARIABLES
    clock,             \* Clock::now(), which is steady
    histogram_count_,  \* count_ of histogram_
    sample_,           \* how many values the histogram's sample holds
    events,            \* count_ of meter_
    stage,             \* per thread: the next step of its call
    op,                \* per thread: the call that updates the timer, its
    duration,          \*   argument, and
    overtaken,         \*   history: has a clear() reset the count since
    context,           \* per thread: does it have a TimerContext
    active_,           \* its active_
    start_time_,       \* and its start_time_
    report,            \* the report being made
    begun,             \* bound: durations counted
    timed,             \* history, per thread: total of its contexts' durations
    taken,             \* history: values sampled since the last clear()
    uncounted          \* history: values in the sample a clear() did not count

timer == <<histogram_count_, sample_, events>>
contexts == <<context, active_, start_time_>>
history == <<begun, timed, taken, uncounted>>
timerVars ==
    <<clock, timer, stage, op, duration, overtaken, contexts, report, history>>

-----------------------------------------------------------------------------
GotoStage(t, step) == stage' = [stage EXCEPT ![t] = step]

\* The order printHistogram reads a histogram in.
AfterCountFirst(step) == CASE step = "count"    -> "snapshot"
                           [] step = "snapshot" -> "publish"
                           [] step = "publish"  -> "count"

After(step) == CASE step = "snapshot" -> "count"
                 [] step = "count"    -> "publish"
                 [] step = "publish"  -> "snapshot"

NoReport == [step |-> After("publish"), values |-> 0, count |-> 0,
             cleared |-> FALSE]
ReportDisturbed ==
    report' = [report EXCEPT !.cleared = report # NoReport]

TimerInit ==
    /\ clock = 0
    /\ histogram_count_ = 0 /\ sample_ = 0 /\ events = 0
    /\ stage = [t \in Workers |-> "idle"]
    /\ op = [t \in Workers |-> "none"]
    /\ duration = [t \in Workers |-> 0]
    /\ overtaken = [t \in Workers |-> FALSE]
    /\ context = [t \in Workers |-> FALSE]
    /\ active_ = [t \in Workers |-> FALSE]
    /\ start_time_ = [t \in Workers |-> 0]
    /\ report = NoReport
    /\ begun = 0 /\ taken = 0 /\ uncounted = 0
    /\ timed = [t \in Workers |-> 0]

-----------------------------------------------------------------------------
(* Timer::update, called by the application or by a context *)

\* Histogram::update counts first.  A negative duration is nothing.
Count(t, by, d) ==
    /\ begun < MaxUpdates
    /\ d >= 0
    /\ begun' = begun + 1
    /\ histogram_count_' = histogram_count_ + 1
    /\ GotoStage(t, "sample")
    /\ op' = [op EXCEPT ![t] = by]
    /\ duration' = [duration EXCEPT ![t] = d]
    /\ UNCHANGED <<clock, sample_, events, overtaken, report, timed, taken,
                   uncounted>>

Update(t) ==
    /\ stage[t] = "idle"
    /\ \E d \in {-1, 1} : Count(t, "update", d)
    /\ UNCHANGED contexts

EndCall(t) ==
    /\ GotoStage(t, "idle")
    /\ op' = [op EXCEPT ![t] = "none"]
    /\ duration' = [duration EXCEPT ![t] = 0]
    /\ overtaken' = [overtaken EXCEPT ![t] = FALSE]

\* The sample takes the value ...
Sample(t) ==
    /\ stage[t] = "sample"
    /\ sample_' = sample_ + 1
    /\ taken' = taken + 1
    /\ uncounted' = IF overtaken[t] THEN uncounted + 1 ELSE uncounted
    /\ timed' = IF op[t] = "update" THEN timed
                ELSE [timed EXCEPT ![t] = @ + duration[t]]
    /\ GotoStage(t, "mark")
    /\ UNCHANGED <<clock, histogram_count_, events, op, duration, overtaken,
                   contexts, report, begun>>

\* ... or has no memory for it, and the exception leaves the call: a context
\* whose stop() ends so stays active.  (Out of its destructor the exception
\* would end the process.)
SampleThrows(t) ==
    /\ AllocFails
    /\ stage[t] = "sample" /\ op[t] # "destroy"
    /\ EndCall(t)
    /\ UNCHANGED <<clock, timer, contexts, report, history>>

\* A stop that leaves the context active.
MarkOnly(t) ==
    /\ stage[t] = "mark"
    /\ events' = events + 1
    /\ context' = [context EXCEPT ![t] = @ /\ op[t] # "destroy"]
    /\ EndCall(t)
    /\ UNCHANGED <<clock, histogram_count_, sample_, active_, start_time_,
                   report, history>>

\* meter_.mark(); then stop() has its context inactive, or the destructor ends.
Mark(t) ==
    /\ stage[t] = "mark"
    /\ events' = events + 1
    /\ context' = [context EXCEPT ![t] = @ /\ op[t] # "destroy"]
    /\ active_' = [active_ EXCEPT ![t] = @ /\ op[t] = "update"]
    /\ EndCall(t)
    /\ UNCHANGED <<clock, histogram_count_, sample_, start_time_, report,
                   history>>

-----------------------------------------------------------------------------
(* TimerContext *)

Reset(t) ==
    /\ stage[t] = "idle"
    /\ active_' = [active_ EXCEPT ![t] = TRUE]
    /\ start_time_' = [start_time_ EXCEPT ![t] = clock]
    /\ UNCHANGED <<clock, timer, stage, op, duration, overtaken, report,
                   history>>

\* timerContextPtr, or the context in Timer::time.
Construct(t) ==
    /\ ~context[t]
    /\ context' = [context EXCEPT ![t] = TRUE]
    /\ Reset(t)

ResetContext(t) == context[t] /\ Reset(t) /\ UNCHANGED context

Elapsed(t) == clock - start_time_[t]

\* An inactive context's stop() is nothing.
Stop(t) ==
    /\ stage[t] = "idle" /\ context[t] /\ active_[t]
    /\ Count(t, "stop", Elapsed(t))
    /\ UNCHANGED contexts

\* The destructor stops; also the one that ends Timer::time.
Destroy(t) ==
    /\ stage[t] = "idle" /\ context[t]
    /\ \/ /\ active_[t]
          /\ Count(t, "destroy", Elapsed(t))
          /\ UNCHANGED contexts
       \/ /\ ~active_[t]
          /\ context' = [context EXCEPT ![t] = FALSE]
          /\ UNCHANGED <<clock, timer, stage, op, duration, overtaken, active_,
                         start_time_, report, history>>

-----------------------------------------------------------------------------
(* Timer::clear: the histogram's count, then its sample; not the meter *)

BeginClear(t) ==
    /\ stage[t] = "idle"
    /\ histogram_count_' = 0
    /\ overtaken' = [u \in Workers |-> overtaken[u] \/ stage[u] = "sample"]
    /\ ReportDisturbed
    /\ GotoStage(t, "clear")
    /\ UNCHANGED <<clock, sample_, events, op, duration, contexts, history>>

\* A Histogram::clear that forgets the sample.
ClearCountOnly(t) ==
    /\ stage[t] = "clear"
    /\ GotoStage(t, "idle")
    /\ ReportDisturbed
    /\ UNCHANGED <<clock, timer, op, duration, overtaken, contexts, history>>

ClearSample(t) ==
    /\ stage[t] = "clear"
    /\ sample_' = 0
    /\ taken' = Cardinality({u \in Workers : stage[u] = "mark"})
    /\ uncounted' = 0
    /\ GotoStage(t, "idle")
    /\ ReportDisturbed
    /\ UNCHANGED <<clock, histogram_count_, events, op, duration, overtaken,
                   contexts, begun, timed>>

-----------------------------------------------------------------------------
(* reportTimer and printTimer: the snapshot, then the count *)

ClearUnderWay == \E t \in Workers : stage[t] = "clear"

ReportStep ==
    LET next == [report EXCEPT !.step = After(@)]
    IN /\ \/ /\ report.step = "snapshot"
             /\ report' = [next EXCEPT !.values = sample_,
                                       !.cleared = ClearUnderWay]
          \/ /\ report.step = "count"
             /\ report' = [next EXCEPT !.count = histogram_count_]
          \/ /\ report.step = "publish"
             /\ report' = NoReport
       /\ UNCHANGED <<clock, timer, stage, op, duration, overtaken, contexts,
                      history>>

-----------------------------------------------------------------------------
ClockRuns ==
    /\ clock < MaxClock
    /\ clock' = clock + 1
    /\ UNCHANGED <<timer, stage, op, duration, overtaken, contexts, report,
                   history>>

TimerNext ==
    \/ ClockRuns
    \/ ReportStep
    \/ \E t \in Workers :
          \/ Update(t) \/ Sample(t) \/ SampleThrows(t) \/ Mark(t)
          \/ Construct(t) \/ ResetContext(t) \/ Stop(t) \/ Destroy(t)
          \/ BeginClear(t) \/ ClearSample(t)

TimerSpec == TimerInit /\ [][TimerNext]_timerVars

-----------------------------------------------------------------------------
\* No time is measured twice: what the contexts of a thread have recorded and
\* what the active one has measured so far fit into the time gone by, also
\* when a stop() fails half way and the destructor stops again.
Running(t) ==
    IF context[t] /\ active_[t] /\ stage[t] # "mark" THEN Elapsed(t) ELSE 0
TimesDoNotOverlap ==
    \A t \in Workers : timed[t] + Running(t) <= clock

\* The histogram's count covers the values of its sample, as long as no clear
\* is under way: only an update that a whole clear() overtakes between its two
\* steps leaves a value that is not counted.
CountCoversSample == ~ClearUnderWay => sample_ <= histogram_count_ + uncounted

\* A report that no clear() disturbs never shows statistics of more values
\* than the count beside them, because it takes the snapshot first.
ReportCountsItsValues ==
    report.step = "publish" /\ ~report.cleared =>
        report.values <= report.count + uncounted

\* clear() "Clears the underlying metrics" (timer.h:82): at rest the meter has
\* counted the durations sampled since the last clear(), not those before it.
MeterIsCleared ==
    (\A t \in Workers : stage[t] = "idle") => events = taken
=============================================================================
