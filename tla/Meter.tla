------------------------------- MODULE Meter -------------------------------
(***************************************************************************)
(* cppmetrics::core::Meter and the EWMAs it feeds: a lock-free event       *)
(* counter whose averages are advanced, every TICK_INTERVAL, by whichever  *)
(* thread happens to call mark() or get*Rate() next.                       *)
(*                                                                         *)
(* Every access to a boost::atomic is one action (they are sequentially    *)
(* consistent), so threads interleave between any two of them.  The clock  *)
(* is steady.  A rate is a multiple of 1/Scale events per interval; with   *)
(* alpha = AlphaNum/AlphaDen nothing is rounded within k ticks if          *)
(* Scale = AlphaDen ^ k.                                                   *)
(***************************************************************************)
EXTENDS Integers, Sequences, FiniteSets, SequencesExt

CONSTANTS
    Threads,             \* threads that share the meter
    NumRates,            \* EWMAs of the meter (3 in the source)
    TICK_INTERVAL,       \* clock units between two ticks
    StartTime,           \* the clock when the meter is built
    MaxTime,             \* bound: the clock stops here
    Wrap,                \* 2^64: age is computed in uint64_t
    Amounts,             \* bound: the values of n in mark(n)
    MaxCount,            \* bound: no mark() takes count_ beyond it
    AlphaNum, AlphaDen,  \* the smoothing constant
    Scale                \* the resolution of a rate

ASSUME MeterAssumption ==
    /\ IsFiniteSet(Threads)
    /\ NumRates \in Nat \ {0}
    /\ TICK_INTERVAL \in Nat \ {0}
    /\ StartTime \in Nat /\ MaxTime \in Nat /\ Wrap \in Nat
    /\ StartTime <= MaxTime /\ MaxTime < Wrap
    /\ Amounts \subseteq Nat /\ MaxCount \in Nat
    /\ AlphaNum \in Nat \ {0} /\ AlphaDen \in Nat /\ AlphaNum <= AlphaDen
    /\ Scale \in Nat

VARIABLES
    now,           \* Clock::now(), in nanoseconds since its epoch
    last_tick_,    \* the start of the interval being counted
    count_,        \* events marked since the meter was built
    uncounted_,    \* per EWMA: events since its last tick
    initialized_,  \* per EWMA: has it ticked
    ewma_,         \* per EWMA: the average, times Scale
    pc,            \* per thread: the next step of its call
    local,         \* per thread: arguments and locals of its call
    granted,       \* history: ticks granted by a successful exchange
    log,           \* history, per EWMA: the counts its ticks have taken
    folds,         \* history, per EWMA: how many of them reached the average
    overlap        \* history: a tick loop began before another ended

shared == <<now, last_tick_, count_, uncounted_, initialized_, ewma_>>
hist == <<granted, log, folds, overlap>>
vars == <<shared, pc, local, hist>>

-----------------------------------------------------------------------------
Rates == 1 .. NumRates

\* Arguments and locals: n of mark (or none), the rate asked for, old_tick
\* and cur_tick, required_ticks less the ones done, the EWMA at work, and
\* count and cur_ewma of EWMA::tick.
NoLocals == [op |-> "none", n |-> 0, rate |-> 1, old |-> 0, cur |-> 0,
             left |-> 0, ewma |-> 1, count |-> 0, cur_ewma |-> 0]

Init ==
    /\ now = StartTime
    /\ last_tick_ = StartTime
    /\ count_ = 0
    /\ uncounted_ = [r \in Rates |-> 0]
    /\ initialized_ = [r \in Rates |-> FALSE]
    /\ ewma_ = [r \in Rates |-> 0]
    /\ pc = [t \in Threads |-> "idle"]
    /\ local = [t \in Threads |-> NoLocals]
    /\ granted = 0
    /\ log = [r \in Rates |-> <<>>]
    /\ folds = [r \in Rates |-> 0]
    /\ overlap = FALSE

Goto(t, step) == pc' = [pc EXCEPT ![t] = step]

\* tickIfNecessary() returns; its caller goes on.
AfterTicks(op) == IF op = "mark" THEN "count" ELSE "getRate"

\* The order of the loads when the clock is read first.
AfterStepClockFirst(step) ==
    CASE step = "begin"     -> "readClock"
      [] step = "readClock" -> "readTick"
      [] step = "readTick"  -> "compare"

\* tickIfNecessary() loads last_tick_, then the clock, then compares.
AfterStep(step) ==
    CASE step = "begin"     -> "readTick"
      [] step = "readTick"  -> "readClock"
      [] step = "readClock" -> "compare"

Begin(t, op, n, rate) ==
    /\ pc[t] = "idle"
    /\ Goto(t, AfterStep("begin"))
    /\ local' = [local EXCEPT ![t] =
                     [NoLocals EXCEPT !.op = op, !.n = n, !.rate = rate]]
    /\ UNCHANGED <<shared, hist>>

CallMark(t) == \E n \in Amounts : count_ < MaxCount /\ Begin(t, "mark", n, 1)

CallGetRate(t) == \E r \in Rates : Begin(t, "getRate", 0, r)

-----------------------------------------------------------------------------
(* Meter::tickIfNecessary *)

ReadLastTick(t) ==
    /\ pc[t] = "readTick"
    /\ local' = [local EXCEPT ![t].old = last_tick_]
    /\ Goto(t, AfterStep("readTick"))
    /\ UNCHANGED <<shared, hist>>

ReadClock(t) ==
    /\ pc[t] = "readClock"
    /\ local' = [local EXCEPT ![t].cur = now]
    /\ Goto(t, AfterStep("readClock"))
    /\ UNCHANGED <<shared, hist>>

\* cur_tick - old_tick is unsigned.
Age(t) == (local[t].cur - local[t].old) % Wrap

NewTick(t) == local[t].cur - (Age(t) % TICK_INTERVAL)

InTickLoop(t) == local[t].left > 0

\* The exchange without the comparison: a plain store.
StoreTick(t) ==
    /\ pc[t] = "compare"
    /\ IF Age(t) > TICK_INTERVAL
       THEN /\ last_tick_' = NewTick(t)
            /\ local' = [local EXCEPT ![t].left = Age(t) \div TICK_INTERVAL,
                                      ![t].ewma = 1]
            /\ granted' = granted + Age(t) \div TICK_INTERVAL
            /\ overlap' = (overlap \/ \E u \in Threads : InTickLoop(u))
            /\ Goto(t, "exchange")
       ELSE /\ Goto(t, AfterTicks(local[t].op))
            /\ UNCHANGED <<last_tick_, local, granted, overlap>>
    /\ UNCHANGED <<now, count_, uncounted_, initialized_, ewma_, log, folds>>

\* One thread per interval wins the exchange and owes the ticks of the
\* intervals gone by; a thread that is early, or loses, owes none.
GrantTicks(t) ==
    /\ pc[t] = "compare"
    /\ IF Age(t) > TICK_INTERVAL /\ last_tick_ = local[t].old
       THEN /\ last_tick_' = NewTick(t)
            /\ local' = [local EXCEPT ![t].left = Age(t) \div TICK_INTERVAL,
                                      ![t].ewma = 1]
            /\ granted' = granted + Age(t) \div TICK_INTERVAL
            /\ overlap' = (overlap \/ \E u \in Threads : InTickLoop(u))
            /\ Goto(t, "exchange")
       ELSE /\ Goto(t, AfterTicks(local[t].op))
            /\ UNCHANGED <<last_tick_, local, granted, overlap>>
    /\ UNCHANGED <<now, count_, uncounted_, initialized_, ewma_, log, folds>>

-----------------------------------------------------------------------------
(* EWMA::tick, for the thread's current EWMA *)

\* A load in the place of the exchange: the counted events stay.
TakeWithoutReset(t) ==
    LET r == local[t].ewma
    IN /\ pc[t] = "exchange"
       /\ local' = [local EXCEPT ![t].count = uncounted_[r]]
       /\ log' = [log EXCEPT ![r] = Append(@, uncounted_[r])]
       /\ Goto(t, "isInit")
       /\ UNCHANGED <<shared, granted, folds, overlap>>

TakeUncounted(t) ==
    LET r == local[t].ewma
    IN /\ pc[t] = "exchange"
       /\ local' = [local EXCEPT ![t].count = uncounted_[r]]
       /\ uncounted_' = [uncounted_ EXCEPT ![r] = 0]
       /\ log' = [log EXCEPT ![r] = Append(@, uncounted_[r])]
       /\ Goto(t, "isInit")
       /\ UNCHANGED <<now, last_tick_, count_, initialized_, ewma_,
                      granted, folds, overlap>>

TestInitialized(t) ==
    /\ pc[t] = "isInit"
    /\ Goto(t, IF initialized_[local[t].ewma] THEN "loadEwma" ELSE "storeEwma")
    /\ UNCHANGED <<shared, local, hist>>

LoadEwma(t) ==
    /\ pc[t] = "loadEwma"
    /\ local' = [local EXCEPT ![t].cur_ewma = ewma_[local[t].ewma]]
    /\ Goto(t, "casEwma")
    /\ UNCHANGED <<shared, hist>>

InstantRate(count) == count * Scale

\* An average that does not decay.
FoldWithoutDecay(cur, rate) == cur + (AlphaNum * rate) \div AlphaDen

\* cur_ewma + alpha * (instant_rate - cur_ewma)
Fold(cur, rate) == cur + (AlphaNum * (rate - cur)) \div AlphaDen

\* A tick loop with <= for <: one round more than the intervals gone by.
EndEwmaTickOnceMore(t) ==
    LET r == local[t].ewma
        left == IF r < NumRates THEN local[t].left ELSE local[t].left - 1
    IN /\ local' = [local EXCEPT ![t].left = left,
                                 ![t].ewma = IF r < NumRates THEN r + 1 ELSE 1,
                                 ![t].count = 0, ![t].cur_ewma = 0]
       /\ Goto(t, IF left >= 0 THEN "exchange" ELSE AfterTicks(local[t].op))

\* The end of EWMA::tick for one EWMA: the next one, or the next round of
\* the loop, or the end of tickIfNecessary().
EndEwmaTick(t) ==
    LET r == local[t].ewma
        left == IF r < NumRates THEN local[t].left ELSE local[t].left - 1
    IN /\ local' = [local EXCEPT ![t].left = left,
                                 ![t].ewma = IF r < NumRates THEN r + 1 ELSE 1,
                                 ![t].count = 0, ![t].cur_ewma = 0]
       /\ Goto(t, IF left > 0 THEN "exchange" ELSE AfterTicks(local[t].op))

\* The fetch-and-add the comment of ewma.cpp:64 announces.
FetchAndAddEwma(t) ==
    LET r == local[t].ewma
        cur == local[t].cur_ewma
    IN /\ pc[t] = "casEwma"
       /\ ewma_' = [ewma_ EXCEPT ![r] =
              @ + Fold(cur, InstantRate(local[t].count)) - cur]
       /\ folds' = [folds EXCEPT ![r] = @ + 1]
       /\ EndEwmaTick(t)
       /\ UNCHANGED <<now, last_tick_, count_, uncounted_, initialized_,
                      granted, log, overlap>>

\* An exchange tried again until it succeeds, with the value first loaded.
RetryExchangeEwma(t) ==
    LET r == local[t].ewma
        cur == local[t].cur_ewma
    IN /\ pc[t] = "casEwma"
       /\ IF ewma_[r] = cur
          THEN /\ ewma_' = [ewma_ EXCEPT ![r] =
                      Fold(cur, InstantRate(local[t].count))]
               /\ folds' = [folds EXCEPT ![r] = @ + 1]
               /\ EndEwmaTick(t)
          ELSE UNCHANGED <<ewma_, folds, pc, local>>
       /\ UNCHANGED <<now, last_tick_, count_, uncounted_, initialized_,
                      granted, log, overlap>>

\* The exchange fails when another tick changed the average after the load,
\* and nobody looks at its result: the count taken is dropped.
ExchangeEwma(t) ==
    LET r == local[t].ewma
        cur == local[t].cur_ewma
    IN /\ pc[t] = "casEwma"
       /\ IF ewma_[r] = cur
          THEN /\ ewma_' = [ewma_ EXCEPT ![r] =
                      Fold(cur, InstantRate(local[t].count))]
               /\ folds' = [folds EXCEPT ![r] = @ + 1]
          ELSE UNCHANGED <<ewma_, folds>>
       /\ EndEwmaTick(t)
       /\ UNCHANGED <<now, last_tick_, count_, uncounted_, initialized_,
                      granted, log, overlap>>

\* The first tick of an EWMA stores the rate as it is, over that of another
\* first tick that has not said so yet ...
StoreEwma(t) ==
    LET r == local[t].ewma
    IN /\ pc[t] = "storeEwma"
       /\ ewma_' = [ewma_ EXCEPT ![r] = InstantRate(local[t].count)]
       /\ folds' = [folds EXCEPT ![r] = @ + 1]
       /\ Goto(t, "setInit")
       /\ UNCHANGED <<now, last_tick_, count_, uncounted_, initialized_,
                      local, granted, log, overlap>>

\* ... and only then says so.
SetInitialized(t) ==
    /\ pc[t] = "setInit"
    /\ initialized_' = [initialized_ EXCEPT ![local[t].ewma] = TRUE]
    /\ EndEwmaTick(t)
    /\ UNCHANGED <<now, last_tick_, count_, uncounted_, ewma_, hist>>

-----------------------------------------------------------------------------
(* The rest of Meter::mark and of Meter::get*Rate *)

AddToCount(t) ==
    /\ pc[t] = "count"
    /\ count_' = count_ + local[t].n
    /\ Goto(t, "update")
    /\ UNCHANGED <<now, last_tick_, uncounted_, initialized_, ewma_,
                   local, hist>>

UpdateEwma(t) ==
    LET r == local[t].ewma
    IN /\ pc[t] = "update"
       /\ uncounted_' = [uncounted_ EXCEPT ![r] = @ + local[t].n]
       /\ IF r < NumRates
          THEN /\ local' = [local EXCEPT ![t].ewma = r + 1]
               /\ UNCHANGED pc
          ELSE /\ local' = [local EXCEPT ![t] = NoLocals]
               /\ Goto(t, "idle")
       /\ UNCHANGED <<now, last_tick_, count_, initialized_, ewma_, hist>>

\* The value returned is ewma_ of the rate asked for.
GetRate(t) ==
    /\ pc[t] = "getRate"
    /\ local' = [local EXCEPT ![t] = NoLocals]
    /\ Goto(t, "idle")
    /\ UNCHANGED <<shared, hist>>

-----------------------------------------------------------------------------
ClockTicks ==
    /\ now < MaxTime
    /\ now' = now + 1
    /\ UNCHANGED <<last_tick_, count_, uncounted_, initialized_, ewma_,
                   pc, local, hist>>

Step(t) ==
    \/ ReadLastTick(t) \/ ReadClock(t) \/ GrantTicks(t)
    \/ TakeUncounted(t) \/ TestInitialized(t)
    \/ LoadEwma(t) \/ ExchangeEwma(t)
    \/ StoreEwma(t) \/ SetInitialized(t)
    \/ AddToCount(t) \/ UpdateEwma(t) \/ GetRate(t)

Next ==
    \/ ClockTicks
    \/ \E t \in Threads : CallMark(t) \/ CallGetRate(t) \/ Step(t)

Spec == Init /\ [][Next]_vars

\* One thread, any one, keeps running while it is in a call; the others may
\* stop at any step.
Runner == CHOOSE t \in Threads : TRUE
SoloSpec == Spec /\ WF_vars(Step(Runner))

-----------------------------------------------------------------------------
Steps == {"idle", "readTick", "readClock", "compare", "exchange", "isInit",
          "loadEwma", "casEwma", "storeEwma", "setInit", "count", "update",
          "getRate"}

Locals == [op : {"none", "mark", "getRate"}, n : Nat, rate : Rates,
           old : Nat, cur : Nat, left : Nat, ewma : Rates,
           count : Nat, cur_ewma : Int]

TypeOK ==
    /\ now \in StartTime .. MaxTime
    /\ last_tick_ \in Nat
    /\ count_ \in Nat
    /\ uncounted_ \in [Rates -> Nat]
    /\ initialized_ \in [Rates -> BOOLEAN]
    /\ ewma_ \in [Rates -> Int]
    /\ pc \in [Threads -> Steps]
    /\ local \in [Threads -> Locals]
    /\ granted \in Nat
    /\ log \in [Rates -> Seq(Nat)]
    /\ folds \in [Rates -> Nat]
    /\ overlap \in BOOLEAN

\* The unsigned difference of tickIfNecessary never wraps round: last_tick_
\* is loaded before the clock, and no thread ever stores a time to come.
AgeNeverWraps ==
    \A t \in Threads : pc[t] = "compare" => local[t].old <= local[t].cur

\* Ticks are neither skipped nor given twice: last_tick_ has moved by one
\* interval for each tick ever granted, and is never ahead of the clock.
TicksMatchIntervals ==
    /\ last_tick_ = StartTime + TICK_INTERVAL * granted
    /\ last_tick_ <= now

\* Every tick granted has been or will be taken by each EWMA: by the loops
\* that still owe ticks, the current round counting for the EWMAs ahead.
Owed(t, r) ==
    IF local[t].left = 0 THEN 0
    ELSE IF r > local[t].ewma \/ (r = local[t].ewma /\ pc[t] = "exchange")
         THEN local[t].left ELSE local[t].left - 1
EveryTickIsTaken ==
    \A r \in Rates :
        granted = Len(log[r]) + SumFunction([t \in Threads |-> Owed(t, r)])

\* No event is lost or counted twice on its way to an average: the events
\* counted are those ticks have taken, those waiting for the next tick, and
\* those whose mark() has not reached this EWMA yet.
ToCome(t, r) ==
    IF pc[t] = "update" /\ local[t].ewma <= r THEN local[t].n ELSE 0
EventsAreConserved ==
    \A r \in Rates :
        count_ = SumFunction(log[r]) + uncounted_[r]
                     + SumFunction([t \in Threads |-> ToCome(t, r)])

\* The weighted average of a sequence of counts: alpha for the newest, the
\* rest for the average of those before it.
Weighted(average, n) ==
    (AlphaNum * n * Scale + (AlphaDen - AlphaNum) * average) \div AlphaDen
Average(counts) ==
    IF counts = <<>> THEN 0
    ELSE FoldLeft(Weighted, Head(counts) * Scale, Tail(counts))
Quiescent == \A t \in Threads : ~InTickLoop(t)

\* As long as each tick loop ends before the next one begins, each average
\* is that of the counts its ticks have taken: marks and reads that go on
\* all the while do not disturb it.
AverageIsExact ==
    Quiescent /\ ~overlap => \A r \in Rates : ewma_[r] = Average(log[r])

\* Whatever overlaps, an average never leaves the range of the counts its
\* ticks have taken: losing a tick cannot make up a rate that never was.
RateWithinObserved ==
    \A r \in Rates : initialized_[r] =>
        /\ \E i \in DOMAIN log[r] : InstantRate(log[r][i]) <= ewma_[r]
        /\ \E i \in DOMAIN log[r] : ewma_[r] <= InstantRate(log[r][i])

\* "This does an atomic fetch and add" (ewma.cpp:64): when no tick is under
\* way, each tick taken was stored or added to the average, none refused.
EveryTickIsFolded ==
    Quiescent => \A r \in Rates : folds[r] = Len(log[r])

\* A call returns however the other threads are scheduled, even if they stop
\* in the middle of a tick.
CallsReturn == pc[Runner] # "idle" ~> pc[Runner] = "idle"
=============================================================================
