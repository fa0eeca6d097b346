# Verification of cppmetrics

TLA+ models of the cppmetrics library (metric registry, meters, timers,
samples and their statistics, reporters and the executors they run on), the TLC runs that check them, and
TLAPS proofs of the safety properties of all of them. File names below are relative to
`src/src/cppmetrics/`. `PROJECT.json` lists components, runs, mutants, the map
from definitions to source lines, findings, hazards and theorems.

## 1. Inventory

| Component | State | Operations | Correct when |
|---|---|---|---|
| `core/metric_registry` | `metric_names_` (set of names), `metric_set_` (per type a map name -> metric), `metrics_mutex_` (shared mutex) | typed getters (get or create), `addGauge`, `removeMetric`, `count`, five typed copies | a name has one type and one object; a handle not removed is the registered one; copies are of one moment |
| `core/scheduled_reporter` | `running_`, an executor of one thread, two factors | `start`, `stop`, `report`, destructor, conversions | every stable metric is in a report; started means polling; stopped means quiet; rates are per the unit asked for |
| `graphite/graphite_reporter`, `graphite/graphite_sender_tcp` | `connected_`, `socket_`, `io_service_` | `report`; `connect`, `send`, `close` | a failed report leaves no connection behind and does not end the polling |
| `core/console_reporter` | none | `report` | a report lists what was collected, while the owner waits for it like for the other |
| `core/meter`, `core/ewma` | `count_`, `last_tick_`; per average `uncounted_`, `initialized_`, `ewma_`; all atomics, no lock | `mark`, the rates | every interval is ticked once, every event is in exactly one tick, averages are of what was counted |
| `core/uniform_sample` | `values_`, `count_`, a mutex (not used by all) | `update`, `clear`, `getSnapshot`, `size` | no value overwritten while there is room; snapshots of recorded values |
| `core/exp_decay_sample` | `values_` by priority, `count_`, `start_time_`, `next_scale_time_`, a mutex | the same, and rescaling every hour | holds the heaviest values, priorities stay finite |
| `core/histogram` | `count_` and a sample | `update`, `clear`, `getSnapshot` | the two counts agree but for calls under way |
| `core/timer`, `core/timer_context` | a histogram and a meter; a start time and `active_` | `update`, `time`, `stop`, `reset`, `clear` | no time is measured twice; the parts agree but for calls and clears under way |
| `core/snapshot` | a sorted vector | quantiles, mean, deviation | a percentile has at least its share of the values below or at it; the deviation is unbiased |
| `core/counter`, `core/gauge` | one atomic integer; none | `increment` ... | single atomic accesses |
| `concurrent/simple_scheduled_thread_pool_executor` | `running_`, `work_ptr_`, `timer_tasks_`, threads in `io_service::run` | schedule at fixed rate or delay, `shutdown`, `shutdownNow` | each task has a pending call, a fixed-delay task only one; never early; shutdown returns and leaves silence |
| `concurrent/simple_thread_pool_executor` | the same without timers | `execute`, shutdowns | as above |

How they interact: application threads call registry, meters, histograms
and timers directly and concurrently; a reporter's executor thread calls
`ScheduledReporter::report`, which copies five maps out of the live registry and
passes them to the concrete reporter, which reads the live metrics (shared
pointers) and sends lines. Nothing is persisted, so there is no recovery after a crash.

What is hard: the lock-free tick of a meter, where any caller may have to do the
work of several intervals; counts taken before or without the lock in
`UniformSample`; two containers in the registry that change one after the
other and may fail in between; timers that are re-armed while a shutdown is
under way; a reporter's life cycle over an executor that cannot be restarted;
failures in the middle of a report. Each of these is a hazard in
`PROJECT.json`, with the properties that cover it.

## 2. Modules

    NameTable            what the registry promises: one table of names
      ^ refined by
    MetricRegistry       the two containers under the shared mutex
      ^ extended by
    MetricRegistryProofs
    Meter                Meter::Impl and EWMA, access by access
    UniformSample  <-  Histogram      the sample, and a histogram over it
    ExpDecaySample       the decaying sample, with its rescaling
    Timer                a histogram and a meter, contexts, and a report of it
    Snapshot             percentiles, mean and deviation of a sample
    ThreadPoolExecutor   the plain pool over asio
      ^ extended by
    ScheduledExecutor    the pool with timers
      ^ extended by
    Executors            an executor of either kind
    Reporting            life cycle, both reports, sender, and the registry
                         (INSTANCE NameTable) they read
    ReporterUnits        the unit of published rates

    MetricRegistryProofs, MeterProofs, HistogramProofs, ExpDecayProofs,
    TimerProofs, ExecutorsProofs, ReportingProofs
                         each EXTENDS the module it is named after with the
                         theorems about it; TimerProofs, whose reports also
                         read a Snapshot, has those about Snapshot, too
    FoldLemmas           what is proved of the folds of the community modules,
                         instantiated by MeterProofs, ExpDecayProofs and
                         TimerProofs

The `MC` modules give TLC its small instances. Two of them hold more than one
module: a behaviour of `MCTimer` is one of `Timer`, of `Meter` or of `Snapshot`, and
a behaviour of `MCHistogram` one of `Histogram` or of `ExpDecaySample`; a variable set
at the beginning says which, and what the others own stays as it was. That is why
`Timer` and `ExpDecaySample` have names of their own (`clock`, `stage`, `decay_values_`)
for what is `now`, `pc` and `values_` elsewhere. Where a violation
concerns one module only its run takes that module itself. Definitions preceded
by a comment such as "a clear() that leaves the count" and used nowhere are
faulty variants: put in the place of the definition after them, they break the
property `PROJECT.json` names, which shows that the property can fail.

### NameTable and MetricRegistry

`MetricRegistry` breaks each call at every access to the shared containers and at each
allocation that may throw: `Find` (the look-up of the name and the type's map), `BuildMetric`, `AddName` and `InsertMetric` (the two insertions of
`addMetric`), `EraseEntry` and `EraseName` (`removeMetric`), `CopyEntry`
(`getMetrics`). `pc`, `call`, `todo`, `ret` are a thread's locals; `writer` and
`readers` are `metrics_mutex_`; `AllocFails` says which allocations may fail.
`held` and `current` record the pointer a caller keeps and whether it is still valid.
An object has a class, `ClassOf`: that of the type whose `case` in `buildMetric`
made it. `Find`, `InsertMetric` and the rest move objects whatever their class, so that
`CastsAreSafe` says something of the code: each object in the map of a type, each
pointer a typed getter returns and each entry of a copy is of the class to which
the `static_pointer_cast` after it casts; the mutant is a `buildMetric` that makes an
object of another class. `orphaned` records the names that `addMetric` has put into
`metric_names_` without an entry in a map, because the insertion of the entry threw:
no type has them and they are taken until they are removed. `NamesMatchSets`
says that this is the only way in which the containers disagree, and `registry_entry`
what it does to `count()`.

`NameTable` has one table from names to (type, object) and lets a thread ask,
be served in one step, and leave; a creation that runs out of memory changes nothing
or, if the insertion of the map entry threw, leaves its name `Taken` by no type
(`Abandon`). `Promise == INSTANCE NameTable WITH ...` in
`MetricRegistry` serves a call when it has its effect, and `ImplementsNameTable` is its
`Spec`.

Bounds: two threads, two names, three types (one of them the gauges), three
objects of each of the other two classes and one gauge; every allocation may fail. Two threads are enough for each pair of calls to meet at each pair of
steps; the second name lets a call on one meet a copy that holds both; with
one type fewer no name could move between two getOrAdd types. A getOrAdd finds at
most two objects of a class in use, one in the map and one held by the other
thread, so it always has a third to build.

### Meter

One action per access to an atomic: `ReadLastTick`, `ReadClock`,
`GrantTicks` (the age and the compare-exchange of `last_tick_`), then for each tick and
each EWMA `TakeUncounted`, `TestInitialized`, `LoadEwma`, `ExchangeEwma` or
`StoreEwma`, `SetInitialized`; then `mark` adds to `count_` and to each EWMA.
`age` is computed modulo `Wrap` as in 64 bits. Averages are integers over
`Scale`, which the run takes large enough that no smoothing step rounds, so
equality is meant exactly.
`log` records what each tick took, `folds` how many ticks have written the average,
`overlap` whether two tick loops ever met. `folds` counts each store and each exchange that
succeeds, so a tick is missing in it only when its exchange failed
(`ExchangeEwma`): that is what `EveryTickIsFolded` is about. A store of a first tick
over that of another first tick (`ewma.cpp:70`) counts as written; no property
denies it, and `RateWithinObserved` bounds what it can do.

Bounds: the clock stops after three intervals (an overlap takes two, a third
shows what becomes of it); a thread may begin a `mark(1)` while `count_` is
below one, so both threads may have one under way at once; two EWMAs show what
happens between one and the next, and the source's third adds no new neighbour.
`meter_lost_tick` needs one EWMA only, with marks of one or two events. In its
trace both threads are late, the first is granted a tick and stops before it
stores the average; the second is granted the next two, finds the average not
initialized, stores it in the first of them, says so, and loads it in the second; now the first
thread stores, and the exchange of the second fails.

### UniformSample and Histogram

An update counts itself (`TakePlace`), then stores under the mutex (`Store`);
`ClearPlace` and `ClearCount` write without the mutex; a snapshot locks, takes
the size and copies (`LockAndSize`, `CopyValue`, `EndSnapshot`). The random
place of a value that finds the reservoir full is any place. A clear that meets
an update or another clear is a data race whose leftovers are nobody's promise:
`tainted` is set then and the invariants resume with the next clear that is
alone. Values recorded are never 0, so that a 0 shows a place nobody filled.
`Histogram` adds its own count, changed in the step that enters the sample.

Bounds: three threads (two updates and a clear or a snapshot), two places, up to
four updates, so the reservoir overflows by two.

### ExpDecaySample

The mutex is held throughout `update` and `clear`, so each is one action; an
update's timestamp is any time up to now, which covers both the clock read
before the lock and the overload that takes a timestamp. Keys are logarithms of
priorities in seconds, so scaling is subtraction; the conversions to whole
seconds truncate as `duration_cast` does; what is below `MinKey` has
underflowed and is the key `Zero`. Equal draws can occur and overwrite each
other as in the map; `merged` and `exact` keep track of what that costs.

Bounds: a reservoir of two, half seconds, a threshold of one second in a
run of four (two rescales in a row), three draws of which one outweighs all
ages, four updates.

### Timer

Of its two parts, which have modules of their own, `Timer` keeps what can
disagree: the histogram's count, the number of values in the sample, the events
of the meter. `Update`, `Stop` and `Destroy` begin a call (`Count`); `Sample` or
`SampleThrows`, then `Mark`, end it. A context that is stopped is inactive only
after the whole update, so an exception leaves it active: `timed` adds up what a
thread's contexts have recorded. `BeginClear` and `ClearSample` are the two steps
of `clear`, which leaves the meter alone: `taken`, the number of values sampled since the
last `clear`, is what the meter would have counted otherwise, and `timer_clear` shows
that it has not. A report takes the snapshot
and then the count (`After`), as `reportTimer` and `printTimer` do.
`uncounted` and `overtaken` name the one exception to "the count covers the
sample": an update that a whole clear overtook.

Bounds: two threads, of which either may clear while the other is in the middle
of an update and a report is half read; two durations, one on each side of what
disturbs it: a value sampled and one that a clear overtakes, a stop that
failed and the one after it; a clock to two, so a
context can be reset and measure again. One thread and one duration are enough for `timer_clear`.

### Snapshot

The statistics as operators, over exact fractions. The state is the sorted
vector of a sample that gets one more value at a time, placed where `std::sort`
has it (`Place`: behind those that are not above it), so each snapshot of up to
50 of three values is checked. The specification is `SnapshotSpec`, of
`SnapshotInit` and `SnapshotNext`, so that `TimerProofs` can extend it next to `Timer`. `PercentilesAreQuantiles` counts values instead
of positions: it is what "75% <=" in a report says. The 95th percentile lies
inside the sample from 20 values on, the 98th from 50; the 99th and 99.9th
stay at its end, through the same code.

### ThreadPoolExecutor, ScheduledExecutor, Executors

`Dispatch` and `RunReturns` are what the executors use of `io_service::run`.
The plain pool executes commands (`Execute`, `StartCommand`, `EndCommand`),
which may be posted before and after a shutdown. An interruption request makes
a command's next interruption point, if it has one, throw through `run()`
(`ThreadInterrupted`): the thread is lost. The owner's shutdowns go through
`ResetWork` or `Stop`, `InterruptAll`, `JoinAll`; the destructor is a further
`shutdownNow` (`ShutdownAgain`).

The scheduled pool is an executor of its own in the source with the same service,
threads and shutdown; here it extends the plain one by the timer queue (`Poll`
moves waits that are due to the handlers), the handler (`CheckRunning`,
`StartTask`, `EndTask`, `Rearm`, `Await`), scheduling (`Schedule`, `Arm`) and
`CancelTimers`. The timer of a fixed-rate task is armed after the run like any other, so
`TimersArePending` lets such a task have any number of pending calls, as the
documentation does, and asks for at least one; only a fixed-delay task has at most
one. `executor_fixed_rate` shows that the overlap which the documentation announces
for long fixed-rate runs never comes. Time is relative: `left[i]` is the timer's expiry less now, kept
within `MaxLag`, so the state space is finite without a last moment and liveness
can be checked. `Executors` is either of the two, fixed by `kind`, so that what
both promise is checked of both.

Bounds: two threads; three commands, so that one is queued while both threads
are busy; two tasks of either kind, period 1, lateness to 1. One task and no lateness in
`executor_fixed_rate`.

### Reporting

The reporter's `Start`, `Stop`, `Join`, `OwnerReports`, `Destroy`; the poller,
which reports when a wait comes round or drops it after the shutdown; and the
report itself on either thread. `Begin` and `Collect` are the typed getMetrics
in the source's order, each a slice of the table of `NameTable` at one moment
(`MetricRegistry` refines that table, so its calls may be taken as single
steps). A graphite reporter goes on with `Connect` (no such host, refused, or
connected), `Send` metric by metric with failure at any of them, and `Close`
from both ways out; a console reporter with `PrintEntry`. Meanwhile the application
registers and removes metrics. The sender's members are three Booleans.

Bounds: two names and three types (gauges, which come last, and two others), an
object of each class and a gauge, so that a name can be removed and come back as another type
within a report; one start (two in `reporter_restart`).

### ReporterUnits

The factor that the constructor makes of `rate_unit`, and a rate published
with it, for units of half a second, a second and a minute.

## 3. Runs

| Run | Checks | Shows |
|---|---|---|
| `metric_registry` | `TypeOK`, `CastsAreSafe`, `LockDiscipline`, `NamesMatchSets`, `CurrentHandleIsRegistered`, `CopyIsASnapshot`, refinement `ImplementsNameTable` | every cast is to the class of its object; the registry behaves as one table, whatever allocation fails |
| `registry_entry` (violation) | `CountIsOfMetrics` | a failed insertion of a map entry leaves a name that `count()` counts as a metric |
| `histogram` | uniform: `EveryValueIsKept`, `FreePlacesAreClaimed`, `CountsAgree`; decaying: `SizeIsWhatIsHeld`, `PrioritiesStayFinite`, `KeysAreOfTheirValues`, `HoldsTheHeaviest` | no lost value before the reservoir is full; the decaying one holds the heaviest values over any rescales, each of which lets old values gain up to a second |
| `histogram_phantom` (violation) | `SnapshotIsOfRecordedValues` | a snapshot can show a 0 nobody recorded |
| `timer` | timer: `TimesDoNotOverlap`, `CountCoversSample`, `ReportCountsItsValues`; meter: `TypeOK`, `AgeNeverWraps`, `TicksMatchIntervals`, `AverageIsExact`, `RateWithinObserved`, `EveryTickIsTaken`, `EventsAreConserved`, `CallsReturn`; snapshot: `PercentilesAreQuantiles`, `SpreadIsPairwise` | no time is recorded twice, a report's count is not below the values it shows; the tick grid is kept, each EWMA is given every tick and each event once, averages are exact unless tick loops overlap, no call depends on another thread going on; percentiles keep the promise of their labels, the deviation is the unbiased one |
| `meter_lost_tick` (violation) | `EveryTickIsFolded` | overlapping loops drop a tick: the failed exchange is not retried |
| `timer_clear` (violation) | `MeterIsCleared` | a cleared timer keeps the count and the rates of its meter |
| `executors` | `TypeOK`, `TimersArePending`, `NoEarlyStart`, `QuietAfterShutdown`, `AcceptedCommandsRun`, `ShutdownReturns`, `CommandsStart`, `TasksKeepRunning` | no task is forgotten, no fixed-delay task has two calls, none is early; an orderly shutdown runs what was accepted, shutdowns return and leave silence; commands and tasks get their turn |
| `executor_fixed_rate` (violation) | `LongRunsOverlap` | a fixed-rate task never runs twice at a time, however long its runs |
| `reporting` | `ConnectionEndsWithReport`, `OneReportAtATime`, `ReportCoversStable`, `StopReturns`, `StartedReports` | reports never meet and hold every metric that stayed; failures cost one report, never the polling or a connection |
| `reporter_restart` (violation) | `StartedReports` | a reporter started again after a stop never reports |
| `rate_unit` (violation) | `RatesArePerUnit` | published rates are per second divided by the unit: 0 for a minute, double for half a second |

Each of the seven violations is a finding in `PROJECT.json`, with the comment of the
source it contradicts. The longest run, `timer`, takes two to three minutes with two workers.

What some properties do not say. `EventsAreConserved` and `EveryTickIsTaken` follow
events and ticks until an EWMA has taken them; what then becomes of the average is
`EveryTickIsFolded`, which fails, and `RateWithinObserved`. `CountsAgree` is about the two counts at
rest; the order in which a report reads them is `ReportCountsItsValues`, for timers.
`StartedReports` is checked with one start in `reporting`; the second start is the
violation.

Fairness. `timer` assumes only that one thread of the meter, `Runner`, goes on
(as in `SoloSpec`): `CallsReturn` then says that the tick is lock-free in the strong
sense that no stopped thread can hold a call up. `executors` assumes that time
passes, pool threads are scheduled, tasks and commands end and the owner goes on with
a call it began; tasks that never end would hold up `join_all`. `reporting` assumes
that waits expire, that network calls return with success or failure, and that
a join whose thread has ended returns; nothing is assumed of the server or of
the owner.

## 4. Proofs

All theorems hold for any values of the constants that satisfy the named
assumption of the module (`RegistryAssumption`, `MeterAssumption`,
`SampleAssumption`, `ExpDecayAssumption`, `TimerAssumption`, `SnapshotAssumption`,
`PoolAssumption` and `ExecutorAssumption`, `ReportingAssumption`), which TLC evaluates
on each run. They ask little: sets that are counted (threads, a pool, names, draws,
the 64-bit values of a snapshot) are finite,
sizes and intervals are natural and not 0 where the code divides by them or
indexes with them, `None` is not a thread or an object. So the bounds of the
runs (`MaxTime`, `MaxUpdates`, `MaxCount`, `MaxCommands`, `MaxTimers`,
`MaxStarts`, `MaxSize`) may be any number, and there may be any number of threads.

For each component one theorem `Spec => []Inv` is proved by the three facts
`Init => Inv`, `Inv /\ [Next]_vars => Inv'` and, for each property of the runs,
`Inv => Property`. The middle one has a lemma per action, or per conjunct of
the invariant. TLC has checked each `Inv` on the instances of the runs before.

| Module | Theorem | States |
|---|---|---|
| `MetricRegistryProofs` | `InductiveInvariant` | `RegistryInv` |
| | `TypeCorrect`, `CastsCorrect`, `LockCorrect` | `TypeOK`, `CastsAreSafe`, `LockDiscipline` |
| | `NamesCorrect`, `HandlesCorrect`, `CopiesCorrect` | `NamesMatchSets`, `CurrentHandleIsRegistered`, `CopyIsASnapshot` |
| | `RegistryImplementsTable` | the refinement `ImplementsNameTable` |
| `MeterProofs` | `MeterInvariant` | `MeterInv` |
| | `MeterTypes`, `AgeIsExact`, `TickGridIsKept`, `AveragesAreObserved` | `TypeOK`, `AgeNeverWraps`, `TicksMatchIntervals`, `RateWithinObserved` |
| | `TicksAreTaken`, `EventsAreCounted`, `AveragesAreExact` | `EveryTickIsTaken`, `EventsAreConserved`, `AverageIsExact` |
| `HistogramProofs` | `HistogramInvariant` | `HistogramInv` |
| | `NothingIsLost`, `FreePlacesAreTaken`, `HistogramCountsTheSample` | `EveryValueIsKept`, `FreePlacesAreClaimed`, `CountsAgree` |
| `ExpDecayProofs` | `ExpDecayInvariant` | `ExpDecayInv` |
| | `SizeIsHeld`, `PrioritiesAreFinite`, `KeysAreAccurate`, `HeaviestAreHeld` | `SizeIsWhatIsHeld`, `PrioritiesStayFinite`, `KeysAreOfTheirValues`, `HoldsTheHeaviest` |
| `TimerProofs` | `TimerInvariant` | `TimerInv` |
| | `TimesFit`, `SampleIsCovered`, `ReportIsCoherent` | `TimesDoNotOverlap`, `CountCoversSample`, `ReportCountsItsValues` |
| | `SnapshotsAreAscending` | `SnapshotInv` |
| | `PercentilesHold`, `SpreadHolds` | `PercentilesAreQuantiles`, `SpreadIsPairwise` |
| `ExecutorsProofs` | `ExecutorInvariant` | `ExecutorInv` |
| | `ExecutorTypes`, `ShutdownLeavesNobody`, `ShutdownRunsTheAccepted` | `TypeOK`, `QuietAfterShutdown`, `AcceptedCommandsRun` |
| | `NoTaskIsEarly`, `TasksArePending` | `NoEarlyStart`, `TimersArePending` |
| `ReportingProofs` | `ReportingInvariant` | `ReportingInv` |
| | `SenderIsClosed`, `ReportsDoNotMeet`, `ReportsAreComplete` | `ConnectionEndsWithReport`, `OneReportAtATime`, `ReportCoversStable` |

The theorems about executors are of `AnySpec`, the safety part of the
specification of the run, without its fairness.

**Registry.** `RegistryInv == TypeInv /\ LockDiscipline /\ TableInv /\ NamesInv /\ CastInv /\ HandleInv /\ CopyIsASnapshot`:
`TypeInv` adds to the types what each step's arguments are; `TableInv` says that
entries are named, that no name has two types, and that a name whose writer is half done
has no entry; `NamesInv` that a name without an entry belongs to a writer that is half
done or is in `orphaned`; `CastInv` adds to `CastsAreSafe` the class of what a thread
has in hand, the object it has built, its answer, its copy and its handle; `HandleInv`
ties each caller's pointer to the table. The argument for each
step is the same: a step that writes belongs to the one exclusive owner (lemma
`Exclusion`), so no reader is copying and no other writer is half done; a step
that does not write leaves the containers as they are. No theorem assumes
anything of `AllocFails`: a map entry whose insertion throws makes its name one of
`orphaned`, and `NamesCorrect` states that nothing else is out of step.

`RegistryImplementsTable` is a step simulation under the
invariant `RegistryInv /\ SearchInv`. `SearchInv` is what a
call in progress knows: `getOrAdd` builds a metric only when the map of its
type has none under the name, what it built is in no map yet, and a copy
has a map and nothing else. A call has its effect where its answer is settled:
at `InsertMetric` or the failure at or before it for the two that add, at `Find` for
a metric that exists, at `EraseEntry` (or, for an orphaned name, `EraseName`) for
`removeMetric`, at the end of a copy
and the reading of the size. Every other step stutters (lemmas `...Simulated`).

**Meter.** Three things are hard here. Grants and intervals
(`TicksMatchIntervals`) follow from `ClockInv`: a time loaded from `last_tick_`
or read from the clock is not in the future, in that order, so the unsigned age
does not wrap. Conservation (`EveryTickIsTaken`, `EventsAreConserved`) is a sum
over threads of what each still owes (`LoopInv`: exactly those in the loop owe
something), and a step moves an amount from one place of the sum to another.
Averages: `TickerInv` and `AverageInv` keep every average between the
smallest and the largest count taken however loops overlap; `AloneInv` and
`ExactInv` say what an average is at each step of the only loop, as long as no
two have met. `AverageIsExact` compares with a fold over the whole
log, and `FoldLemmas` gives the one step of it that the proof needs.

**FoldLemmas.** A fold over a finite set is well defined and, for an operation
that does not care for order, does not depend on what is chosen. Induction over finite
sets would need an operator as a parameter of the induction theorem; instead a
smallest set at which the claim fails is taken (subsets of a finite set are
well-founded) and led to a contradiction. Operation and choice are the
CONSTANTs of the module, so that sums (over threads, over values), a meter's
averages and the extremes of a decaying sample are instances of it.

**Histogram and UniformSample.** `AloneInv` describes a clear that meets nobody;
`SettledInv` what holds from its end until a clear meets somebody: places taken
are distinct and counted, a free place is claimed by a store under way, and, while there
is room, what is claimed is free. `EveryValueIsKept` is a count of places, and
each store changes it by one.

**ExpDecaySample.** The parts of the invariant speak of a sample rather than of the
variables, so each is carried over the two halves of `update` in turn: a rescale
if one is due (`Rescaled...`) and the storing of the value (`Stored...`).
`HoldsTheHeaviest` is not inductive, nor would it be with an error term of
its own: a value lost is compared with the one that stays, and each rescale
cuts off of the latter. `Heaviest` therefore compares the exact weight of each value lost
with the *key* of each value held, which loses less than a second in all, since
a rescale moves keys and the start time together by whole seconds and the remainder is always in the key's
favour; `Accurate` bounds how far a key is from its value.

**Timer.** `ContextInv`: what a thread's contexts have recorded lies before the
start of the one that is active, and a call that will record has no
more than the time since. `CountInv` counts the threads between the histogram's count and its
sample that the count still includes (`Counted`); `ReportInv` carries it through
the two halves of a report.

**Snapshot.** `SnapshotInv`: recorded numbers, in ascending order; what a step
inserts keeps it. The positions whose values are not above a number, or are below
it, are then the first so many (`FirstPositions`). Every quantile is
`num / (num + 1)`, so with `n` values the interpolated one lies (`Lies`) at or after a position
`k`, and before the next, with `num * n <= den * k` and `k` no higher than the
quantile's position. The shares of the values, the range and the order of two
quantiles follow from `k`; the order needs a case of its own where both lie
between the same two values. `SpreadIsPairwise` has a sum over positions on one side and
a sum over pairs of values on the other. Both are totals (`Total`, the instance
of `FoldLemmas`); a total of a combination is the combination of the totals
(`TotalIsLinear`) and a total over positions can be taken value by value
(`TotalByValue`), each by a smallest set at which it fails. What is left is the same
expression in the number of values, their sum and the sum of their squares
(`SpreadsAgree`).

**Executors.** `KindInv` is what each of the two classes leaves unused;
`ShutdownInv` how far a shutdown has come (a thread that has ended proves that the
service was stopped; an owner that has come back, that all have ended);
`CommandsInv` that a command posted has begun or is queued, so that a service
that ran out of work has begun those accepted; `TimersInv` that a timer is
never at two places (armed, queued, with a thread, being armed), before a
shutdown always at one (more than `TimersArePending` asks of a fixed-rate task, and the reason
why `LongRunsOverlap` fails), and that its expiry is not before its task is due.

**Reporting.** `PollerIsAtRest` ties the owner's step to the poller's: the
executor is shut before anyone waits for the poller, and only a reporter that does not run lets
its owner report. `ConsoleConnectsNothing` separates the two kinds;
`StableIsCollected` follows a metric that stays through the sections of a
report, whose order covers every type.

Only model-checked:

- liveness (`CallsReturn`, `ShutdownReturns`, `CommandsStart`,
  `TasksKeepRunning`, `StopReturns`, `StartedReports`): fairness and `ENABLED` are out of
  the prover's reach;
- the violations: they are counterexamples.

## 5. Not modelled

- `std::bad_alloc` while `getMetrics` copies: it discards the copy.
- Exceptions of tasks other than interruption: they end the process.
- A task that shuts its own pool down, two threads that shut down at once, a
  report by the owner while the poller reports, destroying a reporter that is
  still started (the derived part and its sender go first, then the base class
  calls `stop()`): undefined behaviour in the code, so the models' owners do
  not do it. They are listed as hazards. The last one is not far-fetched: both tests in
  `test/cppmetrics/core/test_console_reporter.cpp` end with a reporter that was started
  and never stopped, and the example of `Readme.md` (line 94) starts one and has no
  `stop()` either. `OneReportAtATime` says nothing about them.
- Failing allocations in `Reporting`, whose application registers metrics in single
  steps that succeed or find the name taken.
- What becomes of the rate of a first tick over which another first tick stores (`core/ewma.cpp:70`).
- A gauge with an interruption point, interrupted by `stop()`: the exception is
  not a `std::exception`, the sender is not closed and the next `connect`
  destroys the `io_service` under the old socket.
- A draw of exactly 0 in `ExpDecaySample`: an infinite priority. The race on
  `values_.size()` in its `getSnapshot`, which only sizes a buffer.
- A gauge that throws in a console report, or a duration that cannot be stored
  when a context is destroyed: the exception ends the process.
- `getMeanRate`, whose `count * 10^9` overflows 64 bits after some 10^10 events;
  the rounding of doubles, in `Snapshot` also of `getMin` and `getMax` above
  2^53; the bound of the `int` distribution in `UniformSample` from 2^31 updates
  on; the 64-bit sum in `Snapshot::getMean` (`core/snapshot.cpp:107`), which is
  signed and may overflow when values are near the ends of their type: the numbers
  of the models stay far below.
- The check of `Snapshot::getValue` that its argument is in 0 to 1 (`core/snapshot.cpp:46`): every
  quantile the class asks for is.
- `Counter`, one atomic access per operation; `Gauge` and the other interfaces,
  which have no state; formatting, timestamps and prefixes.

Comments in the source that the models contradict without a run of their own:
`core/metric_registry.h:64`, `addGauge` returns "false if the gauge is already
present" (it throws);
`concurrent/simple_scheduled_thread_pool_executor.h:69`, `shutdownNow` "will
return immediately" (it joins threads that may be in a task). `printHistogram` reads the count before
the snapshot, unlike all other reports: the order `AfterCountFirst`, with which
TLC finds `ReportCountsItsValues` violated. A name removed and created as another type while a report is
collected may be in it under two types or under none.

## 6. Plan

Done, in this order: the registry with its promise and first proofs, the meter,
the executors, samples and histogram, reporting over the registry, timer,
snapshot; then proofs of the executors, reporting, timer, histogram, meter,
decaying sample and snapshot, and that the registry implements its table.

Every safety invariant the passing runs check, and the refinement, has a
theorem now. What stays with TLC is what section 4 lists as only model-checked.
