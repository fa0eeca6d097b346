--------------------------- MODULE ExecutorsProofs ---------------------------
(***************************************************************************)
(* Proofs about Executors for any finite pool of threads, any number of    *)
(* commands and of tasks, any period, interruptible or not: a shutdown     *)
(* that has returned leaves no thread behind and none of the commands      *)
(* accepted before it, a timer is never handled twice nor forgotten, and   *)
(* no task starts early.                                                   *)
(***************************************************************************)
EXTENDS Executors, FiniteSetTheorems, TLAPS

(* Which of the two classes the executor is shows in all it holds.          *)
KindInv ==
    /\ kind \in {"simple", "scheduled"}
    /\ kind = "simple" =>
          /\ timer_tasks_ = <<>>
          /\ \A p \in Pool : pc[p] \in {"run", "command", "exited", "interrupted"}
          /\ \A k \in DOMAIN handlers : handlers[k].id \in 1 .. posted
          /\ owner \notin {"arm", "cancelTimers"}
    /\ kind = "scheduled" =>
          /\ posted = 0
          /\ \A p \in Pool : pc[p] # "command"
          /\ \A p \in Pool : InHandler(p) => at[p].id \in Scheduled
          /\ \A k \in DOMAIN handlers : handlers[k].id \in Scheduled
          /\ owner = "arm" => timer_tasks_ # <<>>

(* How far a shutdown has come, and what it can rely on there.              *)
ShutdownInv ==
    /\ running_ => owner \in {"idle", "arm"} /\ interrupted = {}
    /\ running_ \/ owner \in {"cancelTimers", "stop", "resetWork"} =>
          work /\ ~stopped
    /\ \A p \in Pool : pc[p] = "exited" => stopped
    /\ ~running_ /\ owner \in {"idle", "arm"} => \A p \in Pool : Ended(p)

(* A command is begun or queued, and a service that has stopped because it  *)
(* ran out of work has begun those accepted.                                *)
CommandsInv ==
    kind = "simple" =>
        /\ \A c \in 1 .. posted :
              c \in started \/ \E k \in DOMAIN handlers : handlers[k].id = c
        /\ stopped /\ ~work => 1 .. accepted \subseteq started

Queued(k, i) == k \in DOMAIN handlers /\ handlers[k].id = i
With(p, i) == InHandler(p) /\ at[p].id = i

(* A timer is never at two places ...                                       *)
AtOnePlace(i) ==
    /\ i \in armed =>
          /\ \A k \in DOMAIN handlers : ~Queued(k, i)
          /\ \A p \in Pool : ~With(p, i)
    /\ \A k \in DOMAIN handlers : Queued(k, i) => \A p \in Pool : ~With(p, i)
    /\ \A k, l \in DOMAIN handlers : Queued(k, i) /\ Queued(l, i) => k = l
    /\ \A p, q \in Pool : With(p, i) /\ With(q, i) => p = q
    /\ BeingArmed(i) =>
          /\ i \notin armed
          /\ \A k \in DOMAIN handlers : ~Queued(k, i)
          /\ \A p \in Pool : ~With(p, i)

(* ... and before a shutdown always at one.                                 *)
Somewhere(i) ==
    \/ i \in armed \/ BeingArmed(i)
    \/ \E k \in DOMAIN handlers : Queued(k, i)
    \/ \E p \in Pool : With(p, i)

(* A timer expires no earlier than its task is due, and it has expired when *)
(* it is on its way to the next start.                                      *)
OnTime(i) ==
    /\ i \in armed \/ BeingArmed(i) => due[i] <= left[i]
    /\ \A k \in DOMAIN handlers : Queued(k, i) /\ ~handlers[k].ec =>
          due[i] <= left[i] /\ left[i] <= 0
    /\ \A p \in Pool : at[p].id = i =>
          /\ pc[p] \in {"check", "start"} /\ ~at[p].ec =>
                due[i] <= left[i] /\ left[i] <= 0
          /\ pc[p] \in {"task", "rearm"} =>
                left[i] <= 0 /\ (timer_tasks_[i] => due[i] <= left[i] + Period)
          /\ pc[p] = "await" => due[i] <= left[i]

NoneAborted ==
    /\ \A k \in DOMAIN handlers : ~handlers[k].ec
    /\ \A p \in Pool : InHandler(p) => ~at[p].ec

TimersInv ==
    kind = "scheduled" =>
        /\ \A i \in Scheduled : AtOnePlace(i) /\ OnTime(i)
        /\ running_ => NoneAborted /\ \A i \in Scheduled : Somewhere(i)
        /\ \A p \in Pool : pc[p] \in {"start", "task", "rearm", "await"} => ~at[p].ec

ExecutorInv == TypeOK /\ KindInv /\ ShutdownInv /\ CommandsInv /\ TimersInv

-----------------------------------------------------------------------------
(* The steps by what they change: the owner moves on, a thread leaves       *)
(* run(), or is interrupted in a command or task.                           *)
OwnerMoves ==
    /\ \/ BeginShutdown("resetWork")
       \/ kind = "simple" /\ BeginShutdown("stop")
       \/ kind = "scheduled" /\ BeginShutdown("cancelTimers")
       \/ ResetWork \/ Stop \/ InterruptAll \/ JoinAll
    /\ UNCHANGED <<commands, timerVars, kind>>

RunEnds(p) ==
    /\ \E noWaits \in BOOLEAN : RunReturns(p, noWaits)
    /\ UNCHANGED <<commands, timerVars, kind>>

IsInterrupted(p) ==
    /\ ThreadInterrupted(p, "command") \/ ThreadInterrupted(p, "task")
    /\ UNCHANGED <<commands, timerVars, kind>>

LEMMA NextCases ==
    ASSUME AnyNext, NEW P,
           ASSUME OwnerMoves PROVE P,
           ASSUME UNCHANGED allVars PROVE P,
           ASSUME NEW p \in Pool, RunEnds(p) PROVE P,
           ASSUME NEW p \in Pool, IsInterrupted(p) PROVE P,
           ASSUME kind = "simple", Execute,
                  UNCHANGED <<timerVars, kind>> PROVE P,
           ASSUME kind = "simple", NEW p \in Pool, StartCommand(p),
                  UNCHANGED <<timerVars, kind>> PROVE P,
           ASSUME kind = "simple", NEW p \in Pool, EndCommand(p),
                  UNCHANGED <<timerVars, kind>> PROVE P,
           ASSUME kind = "scheduled", TimePasses,
                  UNCHANGED <<commands, kind>> PROVE P,
           ASSUME kind = "scheduled", NEW p \in Pool, Poll(p),
                  UNCHANGED <<commands, kind>> PROVE P,
           ASSUME kind = "scheduled", NEW p \in Pool, Dispatch(p, "check"),
                  UNCHANGED <<timerVars, commands, kind>> PROVE P,
           ASSUME kind = "scheduled", NEW p \in Pool, CheckRunning(p),
                  UNCHANGED <<commands, kind>> PROVE P,
           ASSUME kind = "scheduled", NEW p \in Pool, StartTask(p),
                  UNCHANGED <<commands, kind>> PROVE P,
           ASSUME kind = "scheduled", NEW p \in Pool, EndTask(p),
                  UNCHANGED <<commands, kind>> PROVE P,
           ASSUME kind = "scheduled", NEW p \in Pool, Rearm(p),
                  UNCHANGED <<commands, kind>> PROVE P,
           ASSUME kind = "scheduled", NEW p \in Pool, Await(p),
                  UNCHANGED <<commands, kind>> PROVE P,
           ASSUME kind = "scheduled", Arm,
                  UNCHANGED <<commands, kind>> PROVE P,
           ASSUME kind = "scheduled", CancelTimers,
                  UNCHANGED <<commands, kind>> PROVE P,
           ASSUME kind = "scheduled", NEW fixed_rate \in BOOLEAN,
                  Schedule(fixed_rate), UNCHANGED <<commands, kind>> PROVE P
    PROVE  P
  <1> USE DEF CloseStep
  <1>1. CASE Clock
    BY <1>1 DEF Clock
  <1>2. ASSUME NEW p \in Pool, ThreadStep(p) PROVE P
    <2>1. CASE kind = "simple" /\ CommandStep(p) /\ UNCHANGED timerVars
      BY <1>2, <2>1 DEF ThreadStep, CommandStep, RunEnds, IsInterrupted
    <2>2. CASE kind = "scheduled" /\ PoolStep(p) /\ UNCHANGED commands
      <3>1. CASE RunReturns(p, armed = {}) /\ UNCHANGED timerVars
        <4>1. (armed = {}) \in BOOLEAN
          OBVIOUS
        <4> QED
          BY <1>2, <2>2, <3>1, <4>1 DEF ThreadStep, RunEnds
      <3>2. CASE ~(RunReturns(p, armed = {}) /\ UNCHANGED timerVars)
        BY <1>2, <2>2, <3>2 DEF ThreadStep, PoolStep, HandlerStep, IsInterrupted
      <3> QED
        BY <3>1, <3>2
    <2> QED
      BY <1>2, <2>1, <2>2 DEF ThreadStep
  <1>3. CASE CallInProgress
    BY <1>3 DEF CallInProgress, OwnerStep, ShutdownStep, OwnerMoves
  <1>4. CASE NewCall
    <2>1. CASE ShutdownAgain /\ UNCHANGED <<commands, timerVars, kind>>
      BY <2>1 DEF ShutdownAgain, allVars, vars, poolVars
    <2>2. CASE ~(ShutdownAgain /\ UNCHANGED <<commands, timerVars, kind>>)
      BY <1>4, <2>2 DEF NewCall, PoolCall, ScheduledCall, Shutdown, ShutdownNow,
                        OwnerMoves
    <2> QED
      BY <2>1, <2>2
  <1> QED
    BY <1>1, <1>2, <1>3, <1>4 DEF AnyNext

-----------------------------------------------------------------------------
(* Facts about the constants, handlers and queues.                          *)
LEMMA ConstantFacts ==
    /\ MaxCommands \in Nat /\ MaxTimers \in Nat \ {0} /\ 1 \in Timers
    /\ Period \in Nat \ {0} /\ MaxLag \in Nat
    /\ Period \in Spans /\ 0 \in Spans
    /\ Timers \subseteq Nat \ {0} /\ IsFiniteSet(Timers)
    /\ IsFiniteSet(Pool) /\ Pool # {}
  <1>1. IsFiniteSet(Timers)
    BY ExecutorAssumption, FS_Interval DEF Timers
  <1> QED
    BY <1>1, PoolAssumption, ExecutorAssumption DEF Timers, Spans

LEMMA HandlerFacts ==
    /\ \A id, ec : Handler(id, ec).id = id /\ Handler(id, ec).ec = ec
    /\ \A id \in Timers \cup Commands, ec \in BOOLEAN : Handler(id, ec) \in Handlers
    /\ NoHandler \in Handlers
    /\ \A h \in Handlers : h.id \in Timers \cup Commands /\ h.ec \in BOOLEAN
  BY ConstantFacts DEF Handler, NoHandler, Handlers

LEMMA HeadAndTail ==
    ASSUME NEW S, NEW q \in Seq(S), q # <<>>
    PROVE  /\ DOMAIN q = 1 .. Len(q) /\ 1 \in DOMAIN q
           /\ Head(q) = q[1] /\ Head(q) \in S /\ Tail(q) \in Seq(S)
           /\ \A k \in DOMAIN Tail(q) : k + 1 \in DOMAIN q /\ Tail(q)[k] = q[k + 1]
           /\ \A k \in DOMAIN q : k = 1 \/ k - 1 \in DOMAIN Tail(q)
  OBVIOUS

LEMMA Appended ==
    ASSUME NEW S, NEW q \in Seq(S), NEW e \in S
    PROVE  /\ Append(q, e) \in Seq(S)
           /\ \A k \in DOMAIN q : k \in DOMAIN Append(q, e) /\ Append(q, e)[k] = q[k]
           /\ \E k \in DOMAIN Append(q, e) : Append(q, e)[k] = e
           /\ \A k \in DOMAIN Append(q, e) :
                 \/ k \in DOMAIN q /\ Append(q, e)[k] = q[k]
                 \/ Append(q, e)[k] = e
  <1>1. Append(q, e) \in Seq(S) /\ Len(Append(q, e)) = Len(q) + 1
    OBVIOUS
  <1>2. /\ DOMAIN q = 1 .. Len(q) /\ DOMAIN Append(q, e) = 1 .. Len(q) + 1
        /\ Len(q) \in Nat
        /\ \A k \in 1 .. Len(q) : Append(q, e)[k] = q[k]
        /\ Append(q, e)[Len(q) + 1] = e
    BY <1>1
  <1>3. Len(q) + 1 \in DOMAIN Append(q, e)
    BY <1>2
  <1>4. \A k \in DOMAIN Append(q, e) : k \in DOMAIN q \/ k = Len(q) + 1
    BY <1>2
  <1> QED
    BY <1>1, <1>2, <1>3, <1>4

(* SetToSeqs: every element once.                                           *)
LEMMA OrderFacts ==
    ASSUME NEW S \in SUBSET Timers, NEW order \in SetToSeqs(S)
    PROVE  /\ order \in Seq(S) /\ DOMAIN order = 1 .. Len(order)
           /\ \A k, l \in DOMAIN order : order[k] = order[l] => k = l
           /\ \A i \in S : \E k \in DOMAIN order : order[k] = i
  <1> DEFINE n == Cardinality(S)
             D == 1 .. n
  <1>1. IsFiniteSet(S)
    BY ConstantFacts, FS_Subset
  <1>2. n \in Nat /\ IsFiniteSet(D) /\ Cardinality(D) = n
    BY <1>1, FS_CardinalityType, FS_Interval
  <1>3. order \in [D -> S] /\ \A i, j \in D : i # j => order[i] # order[j]
    BY DEF SetToSeqs
  <1> HIDE DEF n
  <1>4. order \in Injection(D, S)
    BY <1>3 DEF Injection, IsInjective
  <1>5. order \in Surjection(D, S)
    BY <1>1, <1>2, <1>4, FS_Injection DEF n
  <1>6. order \in Seq(S) /\ DOMAIN order = 1 .. Len(order)
    BY <1>2, <1>3
  <1> QED
    BY <1>3, <1>5, <1>6 DEF Surjection

(* The waits of a set of timers as handlers: expired, and aborted.          *)
Expired(order) == [k \in DOMAIN order |-> Handler(order[k], FALSE)]
Aborted(order) == [k \in DOMAIN order |-> Handler(order[k], TRUE)]

LEMMA WaitsFacts ==
    ASSUME NEW S \in SUBSET Timers, NEW order \in SetToSeqs(S)
    PROVE  /\ Expired(order) \in Seq(Handlers) /\ Aborted(order) \in Seq(Handlers)
           /\ DOMAIN Expired(order) = DOMAIN order
           /\ DOMAIN Aborted(order) = DOMAIN order
           /\ \A k \in DOMAIN order :
                 /\ Expired(order)[k].id = order[k] /\ ~Expired(order)[k].ec
                 /\ Aborted(order)[k].id = order[k] /\ Aborted(order)[k].ec
  <1>1. order \in Seq(S) /\ DOMAIN order = 1 .. Len(order)
    BY OrderFacts
  <1>2. \A k \in DOMAIN order : order[k] \in Timers
    BY <1>1
  <1>3. /\ \A k \in DOMAIN order : Expired(order)[k] \in Handlers
        /\ \A k \in DOMAIN order :
              Expired(order)[k].id = order[k] /\ ~Expired(order)[k].ec
    BY <1>2 DEF Expired, Handler, Handlers
  <1>4. /\ \A k \in DOMAIN order : Aborted(order)[k] \in Handlers
        /\ \A k \in DOMAIN order :
              Aborted(order)[k].id = order[k] /\ Aborted(order)[k].ec
    BY <1>2 DEF Aborted, Handler, Handlers
  <1>5. Expired(order) \in [1 .. Len(order) -> Handlers]
    BY <1>1, <1>3 DEF Expired
  <1>6. Aborted(order) \in [1 .. Len(order) -> Handlers]
    BY <1>1, <1>4 DEF Aborted
  <1>7. Expired(order) \in Seq(Handlers) /\ Aborted(order) \in Seq(Handlers)
    BY <1>1, <1>5, <1>6
  <1> QED
    BY <1>1, <1>3, <1>4, <1>5, <1>6, <1>7

(* ... and moved to the end of the queue.                                   *)
AreWaits(m, order) ==
    /\ m \in Seq(Handlers) /\ DOMAIN m = DOMAIN order
    /\ \A k \in DOMAIN order : m[k].id = order[k]

Extended(r, q, m, S) ==
    /\ r \in Seq(Handlers)
    /\ \A k \in DOMAIN q : k \in DOMAIN r /\ r[k] = q[k]
    /\ \A k \in DOMAIN r \ DOMAIN q :
          r[k].id \in S /\ \E l \in DOMAIN m : r[k] = m[l]
    /\ \A k, l \in DOMAIN r \ DOMAIN q : r[k].id = r[l].id => k = l
    /\ \A i \in S : \E k \in DOMAIN r \ DOMAIN q : r[k].id = i

LEMMA MovedToQueue ==
    ASSUME NEW S \in SUBSET Timers, NEW order \in SetToSeqs(S),
           NEW m, AreWaits(m, order), NEW q \in Seq(Handlers)
    PROVE  Extended(q \o m, q, m, S)
  <1> USE DEF AreWaits
  <1> DEFINE r == q \o m
  <1>1. /\ order \in Seq(S) /\ DOMAIN order = 1 .. Len(order)
        /\ \A k, l \in DOMAIN order : order[k] = order[l] => k = l
        /\ \A i \in S : \E k \in DOMAIN order : order[k] = i
    BY OrderFacts
  <1>2. \A k \in DOMAIN order : m[k] \in Handlers /\ m[k].id = order[k]
    OBVIOUS
  <1>3. Len(m) = Len(order) /\ DOMAIN m = 1 .. Len(m)
    BY <1>1
  <1>4. /\ r \in Seq(Handlers) /\ Len(r) = Len(q) + Len(m)
        /\ DOMAIN q = 1 .. Len(q) /\ DOMAIN r = 1 .. Len(r)
        /\ Len(q) \in Nat /\ Len(m) \in Nat
        /\ \A k \in 1 .. Len(q) : r[k] = q[k]
        /\ \A k \in 1 .. Len(m) : r[Len(q) + k] = m[k]
    OBVIOUS
  <1> HIDE DEF r
  <1>5. \A k \in DOMAIN r \ DOMAIN q :
           /\ k - Len(q) \in DOMAIN order /\ k \in Nat
           /\ r[k].id = order[k - Len(q)] /\ r[k] = m[k - Len(q)]
    <2> SUFFICES ASSUME NEW k \in DOMAIN r \ DOMAIN q
                 PROVE  /\ k - Len(q) \in DOMAIN order /\ k \in Nat
                        /\ r[k].id = order[k - Len(q)] /\ r[k] = m[k - Len(q)]
      OBVIOUS
    <2>1. k \in Nat /\ k - Len(q) \in 1 .. Len(m) /\ k = Len(q) + (k - Len(q))
      BY <1>4
    <2>2. r[k] = m[k - Len(q)]
      BY <2>1, <1>4
    <2> QED
      BY <2>1, <2>2, <1>1, <1>2, <1>3
  <1>6. ASSUME NEW i \in S PROVE \E k \in DOMAIN r \ DOMAIN q : r[k].id = i
    <2>1. PICK k \in DOMAIN order : order[k] = i
      BY <1>1
    <2>2. k \in 1 .. Len(m) /\ Len(q) + k \in DOMAIN r \ DOMAIN q
      BY <1>1, <1>3, <1>4
    <2>3. r[Len(q) + k].id = i
      BY <2>1, <2>2, <1>2, <1>4
    <2> QED
      BY <2>2, <2>3
  <1>7. ASSUME NEW k \in DOMAIN r \ DOMAIN q, NEW l \in DOMAIN r \ DOMAIN q,
               r[k].id = r[l].id
        PROVE  k = l
    <2> DEFINE a == k - Len(q)
               b == l - Len(q)
    <2>1. /\ a \in DOMAIN order /\ b \in DOMAIN order
          /\ order[a] = r[k].id /\ order[b] = r[l].id
          /\ k \in Nat /\ l \in Nat
      BY <1>5
    <2>2. a = b
      <3> HIDE DEF a, b
      <3> QED
        BY <2>1, <1>1, <1>7
    <2> QED
      BY <2>1, <2>2, <1>4
  <1>8. \A k \in DOMAIN q : k \in DOMAIN r /\ r[k] = q[k]
    BY <1>4
  <1>9. ASSUME NEW k \in DOMAIN r \ DOMAIN q
        PROVE  r[k].id \in S /\ \E l \in DOMAIN m : r[k] = m[l]
    <2> DEFINE a == k - Len(q)
    <2>1. a \in DOMAIN order /\ r[k].id = order[a] /\ r[k] = m[a]
      BY <1>5
    <2> HIDE DEF a
    <2> QED
      BY <2>1, <1>1
  <1> QED
    <2>1. Extended(r, q, m, S)
      BY ONLY <1>4, <1>6, <1>7, <1>8, <1>9 DEF Extended
    <2> QED
      BY ONLY <2>1 DEF r

LEMMA ExpiredToQueue ==
    ASSUME NEW S \in SUBSET Timers, NEW order \in SetToSeqs(S),
           NEW q \in Seq(Handlers)
    PROVE  LET r == q \o Expired(order)
           IN  /\ r \in Seq(Handlers)
               /\ \A k \in DOMAIN q : k \in DOMAIN r /\ r[k] = q[k]
               /\ \A k \in DOMAIN r :
                     \/ k \in DOMAIN q /\ r[k] = q[k]
                     \/ k \notin DOMAIN q /\ r[k].id \in S /\ ~r[k].ec
               /\ \A k, l \in DOMAIN r \ DOMAIN q : r[k].id = r[l].id => k = l
               /\ \A i \in S : \E k \in DOMAIN r \ DOMAIN q : r[k].id = i
  <1> DEFINE r == q \o Expired(order)
             m == Expired(order)
  <1>1. AreWaits(m, order)
    BY WaitsFacts DEF AreWaits
  <1>2. DOMAIN m = DOMAIN order /\ \A k \in DOMAIN order : ~m[k].ec
    BY WaitsFacts
  <1>3. Extended(r, q, m, S)
    BY ONLY <1>1, MovedToQueue
  <1> HIDE DEF r, m
  <1> USE DEF Extended
  <1>4. ASSUME NEW k \in DOMAIN r, k \notin DOMAIN q
        PROVE  r[k].id \in S /\ ~r[k].ec
    BY <1>2, <1>3, <1>4
  <1>5. \A k \in DOMAIN r :
           \/ k \in DOMAIN q /\ r[k] = q[k]
           \/ k \notin DOMAIN q /\ r[k].id \in S /\ ~r[k].ec
    BY <1>3, <1>4
  <1> QED
    BY ONLY <1>3, <1>5 DEF r

LEMMA AbortedToQueue ==
    ASSUME NEW S \in SUBSET Timers, NEW order \in SetToSeqs(S),
           NEW q \in Seq(Handlers)
    PROVE  LET r == q \o Aborted(order)
           IN  /\ r \in Seq(Handlers)
               /\ \A k \in DOMAIN q : k \in DOMAIN r /\ r[k] = q[k]
               /\ \A k \in DOMAIN r :
                     \/ k \in DOMAIN q /\ r[k] = q[k]
                     \/ k \notin DOMAIN q /\ r[k].id \in S /\ r[k].ec
               /\ \A k, l \in DOMAIN r \ DOMAIN q : r[k].id = r[l].id => k = l
               /\ \A i \in S : \E k \in DOMAIN r \ DOMAIN q : r[k].id = i
  <1> DEFINE r == q \o Aborted(order)
             m == Aborted(order)
  <1>1. AreWaits(m, order)
    BY WaitsFacts DEF AreWaits
  <1>2. DOMAIN m = DOMAIN order /\ \A k \in DOMAIN order : m[k].ec
    BY WaitsFacts
  <1>3. Extended(r, q, m, S)
    BY ONLY <1>1, MovedToQueue
  <1> HIDE DEF r, m
  <1> USE DEF Extended
  <1>4. ASSUME NEW k \in DOMAIN r, k \notin DOMAIN q
        PROVE  r[k].id \in S /\ r[k].ec
    BY <1>2, <1>3, <1>4
  <1>5. \A k \in DOMAIN r :
           \/ k \in DOMAIN q /\ r[k] = q[k]
           \/ k \notin DOMAIN q /\ r[k].id \in S /\ r[k].ec
    BY <1>3, <1>4
  <1> QED
    BY ONLY <1>3, <1>5 DEF r

(* Time that passes keeps an order, and a lag of a period at most.          *)
LEMMA LaterFacts ==
    ASSUME NEW x \in Spans
    PROVE  /\ Later(x) \in Spans /\ Later(x) <= x /\ x \in Int
           /\ \A y \in Spans :
                 /\ x <= y => Later(x) <= Later(y)
                 /\ x <= y + Period => Later(x) <= Later(y) + Period
  BY ConstantFacts DEF Later, Spans

-----------------------------------------------------------------------------
LEMMA ExecutorInit == AnyInit => ExecutorInv
  <1> SUFFICES ASSUME AnyInit PROVE ExecutorInv
    OBVIOUS
  <1> USE ConstantFacts, HandlerFacts DEF AnyInit, Init, PoolInit
  <1>1. TypeOK
    <2>1. /\ timer_tasks_ \in Seq(BOOLEAN) /\ Len(timer_tasks_) <= MaxTimers
          /\ handlers \in Seq(Handlers)
      OBVIOUS
    <2>2. /\ left \in [Timers -> Spans] /\ due \in [Timers -> Spans]
          /\ pc \in [Pool -> PoolSteps] /\ at \in [Pool -> Handlers]
      BY DEF PoolSteps
    <2>3. posted \in 0 .. MaxCommands /\ accepted \in 0 .. posted
      OBVIOUS
    <2> QED
      BY <2>1, <2>2, <2>3 DEF TypeOK, OwnerSteps
  <1>2. KindInv
    BY DEF KindInv, InHandler, Idle
  <1>3. ShutdownInv
    BY DEF ShutdownInv
  <1>4. CommandsInv
    BY DEF CommandsInv
  <1>5. TimersInv
    BY DEF TimersInv, Scheduled, NoneAborted, InHandler, Idle
  <1> QED
    BY <1>1, <1>2, <1>3, <1>4, <1>5 DEF ExecutorInv

-----------------------------------------------------------------------------
LEMMA TypeStep == ExecutorInv /\ [AnyNext]_allVars => TypeOK'
  <1> SUFFICES ASSUME ExecutorInv, [AnyNext]_allVars PROVE TypeOK'
    OBVIOUS
  <1> USE ConstantFacts
  <1>0. TypeOK
    BY DEF ExecutorInv
  <1>a. CASE AnyNext
    <2>1. ASSUME OwnerMoves PROVE TypeOK'
      BY <1>0, <2>1 DEF TypeOK, OwnerMoves, BeginShutdown, ResetWork, Stop,
         InterruptAll, JoinAll, commands, timerVars, OwnerSteps, Scheduled
    <2>2. ASSUME UNCHANGED allVars PROVE TypeOK'
      BY <1>0, <2>2 DEF TypeOK, allVars, vars, poolVars, serviceVars, commands,
         timerVars, Scheduled
    <2>3. ASSUME NEW p \in Pool, RunEnds(p) PROVE TypeOK'
      BY <1>0, <2>3 DEF TypeOK, RunEnds, RunReturns, Goto, commands, timerVars,
         PoolSteps, Scheduled
    <2>4. ASSUME NEW p \in Pool, IsInterrupted(p) PROVE TypeOK'
      <3>a. NoHandler \in Handlers
        BY HandlerFacts
      <3>1. /\ pc' \in [Pool -> PoolSteps] /\ at' \in [Pool -> Handlers]
            /\ interrupted' \subseteq Pool
        BY <1>0, <2>4, <3>a
        DEF TypeOK, IsInterrupted, ThreadInterrupted, Goto, PoolSteps
      <3> QED
        BY <1>0, <2>4, <3>1 DEF TypeOK, IsInterrupted, ThreadInterrupted, commands,
           timerVars, Scheduled
    <2>5. ASSUME kind = "simple", Execute, UNCHANGED <<timerVars, kind>>
          PROVE  TypeOK'
      <3>1. posted + 1 \in Commands /\ posted' = posted + 1 /\ posted \in Nat
        BY <1>0, <2>5 DEF TypeOK, Execute, Commands
      <3>2. Handler(posted + 1, FALSE) \in Handlers
        BY <3>1, HandlerFacts
      <3>a. /\ handlers \in Seq(Handlers)
            /\ \E h \in Handlers : handlers' = Append(handlers, h)
        BY <1>0, <2>5, <3>2 DEF TypeOK, Execute
      <3>3. handlers' \in Seq(Handlers)
        BY ONLY <3>a
      <3>4. /\ posted' \in 0 .. MaxCommands /\ accepted' \in 0 .. posted'
            /\ started' \subseteq 1 .. posted'
        BY <1>0, <2>5, <3>1 DEF TypeOK, Execute, Commands
      <3> QED
        BY <1>0, <2>5, <3>3, <3>4 DEF TypeOK, Execute, timerVars, Scheduled
    <2>6. ASSUME kind = "simple", NEW p \in Pool, StartCommand(p),
                 UNCHANGED <<timerVars, kind>> PROVE TypeOK'
      <3>1. /\ Head(handlers) \in Handlers /\ Tail(handlers) \in Seq(Handlers)
            /\ Head(handlers).id \in 1 .. posted
        BY <1>0, <2>6, HeadAndTail
        DEF TypeOK, StartCommand, Dispatch, ExecutorInv, KindInv
      <3> QED
        BY <1>0, <2>6, <3>1 DEF TypeOK, StartCommand, Dispatch, Goto, PoolSteps,
           timerVars, Scheduled
    <2>7. ASSUME kind = "simple", NEW p \in Pool, EndCommand(p),
                 UNCHANGED <<timerVars, kind>> PROVE TypeOK'
      BY <1>0, <2>7, HandlerFacts DEF TypeOK, EndCommand, Leave, Goto, PoolSteps, commands,
         timerVars, Scheduled
    <2>8. ASSUME kind = "scheduled", TimePasses, UNCHANGED <<commands, kind>>
          PROVE  TypeOK'
      <3>1. left' \in [Timers -> Spans] /\ due' \in [Timers -> Spans]
        BY <1>0, <2>8, LaterFacts DEF TypeOK, TimePasses
      <3> QED
        BY <1>0, <2>8, <3>1 DEF TypeOK, TimePasses, serviceVars, commands, Scheduled
    <2>9. ASSUME kind = "scheduled", NEW p \in Pool, Poll(p),
                 UNCHANGED <<commands, kind>> PROVE TypeOK'
      <3> DEFINE ready == {i \in Timers : Due(i)}
      <3>1. PICK order \in SetToSeqs(ready) : handlers' = handlers \o Expired(order)
        BY <2>9 DEF Poll, Expired
      <3>2. /\ ready \in SUBSET Timers /\ handlers \in Seq(Handlers)
        BY <1>0 DEF TypeOK
      <3> HIDE DEF ready
      <3>3. handlers' \in Seq(Handlers)
        BY ONLY <3>1, <3>2, ExpiredToQueue
      <3> QED
        BY <1>0, <2>9, <3>3 DEF TypeOK, Poll, commands, Scheduled
    <2>10. ASSUME kind = "scheduled", NEW p \in Pool, Dispatch(p, "check"),
                  UNCHANGED <<timerVars, commands, kind>> PROVE TypeOK'
      <3>1. Head(handlers) \in Handlers /\ Tail(handlers) \in Seq(Handlers)
        BY <1>0, <2>10, HeadAndTail DEF TypeOK, Dispatch
      <3> QED
        BY <1>0, <2>10, <3>1 DEF TypeOK, Dispatch, Goto, PoolSteps, commands,
           timerVars, Scheduled
    <2>11. ASSUME kind = "scheduled", NEW p \in Pool, CheckRunning(p),
                  UNCHANGED <<commands, kind>> PROVE TypeOK'
      BY <1>0, <2>11, HandlerFacts DEF TypeOK, CheckRunning, Leave, Goto, PoolSteps, commands,
         timerVars, Scheduled
    <2>12. ASSUME kind = "scheduled", NEW p \in Pool, StartTask(p),
                  UNCHANGED <<commands, kind>> PROVE TypeOK'
      <3> DEFINE i == at[p].id
      <3>1. i \in Scheduled /\ ~at[p].ec /\ pc[p] = "start"
        BY <2>12 DEF ExecutorInv, KindInv, TimersInv, StartTask, InHandler, Idle,
           Ended
      <3>2. i \in Timers /\ left[i] \in Int /\ due[i] \in Spans /\ due[i] \in Int
        BY <1>0, <3>1 DEF TypeOK, Timers, Scheduled, Spans
      <3>3. OnTime(i)
        BY <2>12, <3>1 DEF ExecutorInv, TimersInv
      <3>4. due[i] <= left[i] /\ left[i] <= 0
        BY <3>1, <3>3 DEF OnTime
      <3>5. due[i] + Period \in Spans
        BY <3>2, <3>4 DEF Spans
      <3>6. due' \in [Timers -> Spans]
        BY <1>0, <2>12, <3>2, <3>5 DEF TypeOK, StartTask
      <3> QED
        BY <1>0, <2>12, <3>6 DEF TypeOK, StartTask, Goto, PoolSteps, commands,
           Scheduled
    <2>13. ASSUME kind = "scheduled", NEW p \in Pool, EndTask(p),
                  UNCHANGED <<commands, kind>> PROVE TypeOK'
      <3>1. due' \in [Timers -> Spans]
        BY <1>0, <2>13 DEF TypeOK, EndTask
      <3>2. pc' \in [Pool -> PoolSteps]
        BY <1>0, <2>13 DEF TypeOK, EndTask, Goto, PoolSteps
      <3> QED
        BY <1>0, <2>13, <3>1, <3>2 DEF TypeOK, EndTask, commands, Scheduled
    <2>14. ASSUME kind = "scheduled", NEW p \in Pool, Rearm(p),
                  UNCHANGED <<commands, kind>> PROVE TypeOK'
      <3> DEFINE i == at[p].id
      <3>a. i \in Scheduled /\ pc[p] = "rearm"
        BY <2>14 DEF ExecutorInv, KindInv, Rearm, InHandler, Idle, Ended
      <3>1. i \in Scheduled /\ i \in Timers /\ left[i] \in Spans
        BY <1>0, <3>a DEF TypeOK, Timers, Scheduled
      <3>2. left[i] <= 0
        BY <2>14, <3>1 DEF ExecutorInv, TimersInv, OnTime, Rearm
      <3>3. left[i] + Period \in Spans
        BY <3>1, <3>2 DEF Spans
      <3>4. left' \in [Timers -> Spans]
        BY <1>0, <2>14, <3>1, <3>3 DEF TypeOK, Rearm
      <3> QED
        BY <1>0, <2>14, <3>4 DEF TypeOK, Rearm, Goto, PoolSteps, commands, Scheduled
    <2>15. ASSUME kind = "scheduled", NEW p \in Pool, Await(p),
                  UNCHANGED <<commands, kind>> PROVE TypeOK'
      <3>1. at[p].id \in Scheduled
        BY <2>15 DEF ExecutorInv, KindInv, Await, InHandler, Idle, Ended
      <3> QED
        BY <1>0, <2>15, <3>1, HandlerFacts DEF TypeOK, Await, Leave, Goto, PoolSteps, commands,
           Scheduled
    <2>16. ASSUME kind = "scheduled", Arm, UNCHANGED <<commands, kind>>
           PROVE  TypeOK'
      <3>1. Len(timer_tasks_) \in Scheduled
        BY <1>0, <2>16 DEF ExecutorInv, KindInv, Arm, TypeOK, Scheduled
      <3> QED
        BY <1>0, <2>16, <3>1 DEF TypeOK, Arm, OwnerSteps, commands, Scheduled
    <2>17. ASSUME kind = "scheduled", CancelTimers, UNCHANGED <<commands, kind>>
           PROVE  TypeOK'
      <3>1. PICK order \in SetToSeqs(armed) : handlers' = handlers \o Aborted(order)
        BY <2>17 DEF CancelTimers, Aborted
      <3>2. /\ armed \in SUBSET Timers /\ handlers \in Seq(Handlers)
        BY <1>0 DEF TypeOK, Scheduled, Timers
      <3>3. handlers' \in Seq(Handlers)
        BY ONLY <3>1, <3>2, AbortedToQueue
      <3> QED
        BY <1>0, <2>17, <3>3 DEF TypeOK, CancelTimers, OwnerSteps, commands, Scheduled
    <2>18. ASSUME kind = "scheduled", NEW fixed_rate \in BOOLEAN,
                  Schedule(fixed_rate), UNCHANGED <<commands, kind>>
           PROVE  TypeOK'
      <3>1. /\ timer_tasks_' \in Seq(BOOLEAN)
            /\ Len(timer_tasks_') = Len(timer_tasks_) + 1
            /\ Len(timer_tasks_') <= MaxTimers
        BY <1>0, <2>18 DEF TypeOK, Schedule
      <3>2. left' \in [Timers -> Spans] /\ due' \in [Timers -> Spans]
        BY <1>0, <2>18 DEF TypeOK, Schedule
      <3> QED
        BY <1>0, <2>18, <3>1, <3>2 DEF TypeOK, Schedule, OwnerSteps, commands,
           Scheduled
    <2> QED
      BY <1>a, NextCases, <2>1, <2>2, <2>3, <2>4, <2>5, <2>6, <2>7, <2>8, <2>9,
         <2>10, <2>11, <2>12, <2>13, <2>14, <2>15, <2>16, <2>17, <2>18
  <1>b. CASE UNCHANGED allVars
    BY <1>0, <1>b DEF TypeOK, allVars, vars, poolVars, serviceVars, commands,
       timerVars, Scheduled
  <1> QED
    BY <1>a, <1>b

-----------------------------------------------------------------------------
LEMMA ShutdownInvStep == ExecutorInv /\ [AnyNext]_allVars => ShutdownInv'
  <1> SUFFICES ASSUME ExecutorInv, [AnyNext]_allVars PROVE ShutdownInv'
    OBVIOUS
  <1>0. TypeOK /\ ShutdownInv
    BY DEF ExecutorInv
  <1> USE DEF ShutdownInv, Ended
  <1>a. CASE AnyNext
    <2>1. ASSUME OwnerMoves
          PROVE  ShutdownInv'
      BY <1>0, <2>1 DEF TypeOK, OwnerMoves, BeginShutdown, ResetWork, Stop, InterruptAll,
         JoinAll
    <2>2. ASSUME UNCHANGED allVars
          PROVE  ShutdownInv'
      BY <1>0, <2>2 DEF TypeOK, allVars, vars, poolVars, serviceVars, commands, timerVars
    <2>3. ASSUME NEW p \in Pool, RunEnds(p)
          PROVE  ShutdownInv'
      BY <1>0, <2>3 DEF TypeOK, RunEnds, RunReturns, Goto, Idle, OutOfWork
    <2>4. ASSUME NEW p \in Pool, IsInterrupted(p)
          PROVE  ShutdownInv'
      BY <1>0, <2>4 DEF TypeOK, IsInterrupted, ThreadInterrupted, Goto
    <2>5. ASSUME kind = "simple", Execute,
                 UNCHANGED <<timerVars, kind>>
          PROVE  ShutdownInv'
      BY <1>0, <2>5 DEF TypeOK, Execute
    <2>6. ASSUME kind = "simple", NEW p \in Pool, StartCommand(p),
                 UNCHANGED <<timerVars, kind>>
          PROVE  ShutdownInv'
      BY <1>0, <2>6 DEF TypeOK, StartCommand, Dispatch, Goto, Idle
    <2>7. ASSUME kind = "simple", NEW p \in Pool, EndCommand(p),
                 UNCHANGED <<timerVars, kind>>
          PROVE  ShutdownInv'
      BY <1>0, <2>7 DEF TypeOK, EndCommand, Leave, Goto
    <2>8. ASSUME kind = "scheduled", TimePasses,
                 UNCHANGED <<commands, kind>>
          PROVE  ShutdownInv'
      BY <1>0, <2>8 DEF TypeOK, TimePasses, serviceVars
    <2>9. ASSUME kind = "scheduled", NEW p \in Pool, Poll(p),
                 UNCHANGED <<commands, kind>>
          PROVE  ShutdownInv'
      BY <1>0, <2>9 DEF TypeOK, Poll
    <2>10. ASSUME kind = "scheduled", NEW p \in Pool, Dispatch(p, "check"),
                  UNCHANGED <<timerVars, commands, kind>>
          PROVE  ShutdownInv'
      BY <1>0, <2>10 DEF TypeOK, Dispatch, Goto, Idle
    <2>11. ASSUME kind = "scheduled", NEW p \in Pool, CheckRunning(p),
                  UNCHANGED <<commands, kind>>
          PROVE  ShutdownInv'
      BY <1>0, <2>11 DEF TypeOK, CheckRunning, Leave, Goto
    <2>12. ASSUME kind = "scheduled", NEW p \in Pool, StartTask(p),
                  UNCHANGED <<commands, kind>>
          PROVE  ShutdownInv'
      BY <1>0, <2>12 DEF TypeOK, StartTask, Goto
    <2>13. ASSUME kind = "scheduled", NEW p \in Pool, EndTask(p),
                  UNCHANGED <<commands, kind>>
          PROVE  ShutdownInv'
      BY <1>0, <2>13 DEF TypeOK, EndTask, Goto
    <2>14. ASSUME kind = "scheduled", NEW p \in Pool, Rearm(p),
                  UNCHANGED <<commands, kind>>
          PROVE  ShutdownInv'
      BY <1>0, <2>14 DEF TypeOK, Rearm, Goto
    <2>15. ASSUME kind = "scheduled", NEW p \in Pool, Await(p),
                  UNCHANGED <<commands, kind>>
          PROVE  ShutdownInv'
      BY <1>0, <2>15 DEF TypeOK, Await, Leave, Goto
    <2>16. ASSUME kind = "scheduled", Arm, UNCHANGED <<commands, kind>>
          PROVE  ShutdownInv'
      BY <1>0, <2>16 DEF TypeOK, Arm
    <2>17. ASSUME kind = "scheduled", CancelTimers,
                  UNCHANGED <<commands, kind>>
          PROVE  ShutdownInv'
      BY <1>0, <2>17 DEF TypeOK, CancelTimers
    <2>18. ASSUME kind = "scheduled", NEW fixed_rate \in BOOLEAN,
                  Schedule(fixed_rate), UNCHANGED <<commands, kind>>
          PROVE  ShutdownInv'
      BY <1>0, <2>18 DEF TypeOK, Schedule
    <2> QED
      BY <1>a, NextCases, <2>1, <2>2, <2>3, <2>4, <2>5, <2>6, <2>7, <2>8, <2>9,
         <2>10, <2>11, <2>12, <2>13, <2>14, <2>15, <2>16, <2>17, <2>18
  <1>b. CASE UNCHANGED allVars
    BY <1>0, <1>b DEF TypeOK, allVars, vars, poolVars, serviceVars, commands, timerVars
  <1> QED
    BY <1>a, <1>b

LEMMA KindInvStep == ExecutorInv /\ [AnyNext]_allVars => KindInv'
  <1> SUFFICES ASSUME ExecutorInv, [AnyNext]_allVars PROVE KindInv'
    OBVIOUS
  <1>0. TypeOK /\ KindInv
    BY DEF ExecutorInv
  <1> USE DEF KindInv, InHandler, Idle, Ended, Scheduled
  <1>a. CASE AnyNext
    <2>1. ASSUME OwnerMoves
          PROVE  KindInv'
      BY <1>0, <2>1 DEF TypeOK, OwnerMoves, BeginShutdown, ResetWork, Stop, InterruptAll,
         JoinAll, commands, timerVars
    <2>2. ASSUME UNCHANGED allVars
          PROVE  KindInv'
      BY <1>0, <2>2 DEF TypeOK, allVars, vars, poolVars, serviceVars, commands, timerVars
    <2>3. ASSUME NEW p \in Pool, RunEnds(p)
          PROVE  KindInv'
      BY <1>0, <2>3 DEF TypeOK, RunEnds, RunReturns, Goto, commands, timerVars
    <2>4. ASSUME NEW p \in Pool, IsInterrupted(p)
          PROVE  KindInv'
      BY <1>0, <2>4 DEF TypeOK, IsInterrupted, ThreadInterrupted, Goto, commands, timerVars
    <2>5. ASSUME kind = "simple", Execute,
                 UNCHANGED <<timerVars, kind>>
          PROVE  KindInv'
      <3> DEFINE h == Handler(posted + 1, FALSE)
      <3>1. posted \in Nat /\ posted' = posted + 1 /\ posted + 1 \in Commands
        BY <1>0, <2>5, ConstantFacts DEF TypeOK, Execute, Commands
      <3>2. h \in Handlers /\ h.id = posted + 1
        BY <3>1, HandlerFacts
      <3>3. handlers \in Seq(Handlers) /\ handlers' = Append(handlers, h)
        BY <1>0, <2>5 DEF TypeOK, Execute
      <3> HIDE DEF h
      <3>4. \A k \in DOMAIN handlers' :
               \/ k \in DOMAIN handlers /\ handlers'[k] = handlers[k]
               \/ handlers'[k] = h
        BY <3>2, <3>3, Appended
      <3>5. \A k \in DOMAIN handlers' : handlers'[k].id \in 1 .. posted'
        BY <1>0, <2>5, <3>1, <3>2, <3>4
      <3> QED
        BY <1>0, <2>5, <3>5 DEF Execute, timerVars
    <2>6. ASSUME kind = "simple", NEW p \in Pool, StartCommand(p),
                 UNCHANGED <<timerVars, kind>>
          PROVE  KindInv'
      <3>1. handlers \in Seq(Handlers) /\ handlers # <<>> /\ handlers' = Tail(handlers)
        BY <1>0, <2>6 DEF TypeOK, StartCommand, Dispatch
      <3>2. \A k \in DOMAIN handlers' : k + 1 \in DOMAIN handlers
                                      /\ handlers'[k] = handlers[k + 1]
        BY <3>1, HeadAndTail
      <3>3. \A k \in DOMAIN handlers' : handlers'[k].id \in 1 .. posted
        BY <1>0, <2>6, <3>2
      <3> QED
        BY <1>0, <2>6, <3>3 DEF TypeOK, StartCommand, Dispatch, Goto, timerVars
    <2>7. ASSUME kind = "simple", NEW p \in Pool, EndCommand(p),
                 UNCHANGED <<timerVars, kind>>
          PROVE  KindInv'
      BY <1>0, <2>7 DEF TypeOK, EndCommand, Leave, Goto, commands, timerVars
    <2>8. ASSUME kind = "scheduled", TimePasses,
                 UNCHANGED <<commands, kind>>
          PROVE  KindInv'
      BY <1>0, <2>8 DEF TypeOK, TimePasses, serviceVars, commands
    <2>9. ASSUME kind = "scheduled", NEW p \in Pool, Poll(p),
                 UNCHANGED <<commands, kind>>
          PROVE  KindInv'
      <3> DEFINE ready == {i \in Timers : Due(i)}
      <3>1. PICK order \in SetToSeqs(ready) : handlers' = handlers \o Expired(order)
        BY <2>9 DEF Poll, Expired
      <3>2. /\ ready \in SUBSET Timers /\ handlers \in Seq(Handlers)
            /\ ready \subseteq Scheduled
        BY <1>0, ConstantFacts DEF TypeOK, Due, Timers
      <3> HIDE DEF ready
      <3>3. \A k \in DOMAIN handlers' :
               \/ k \in DOMAIN handlers /\ handlers'[k] = handlers[k]
               \/ handlers'[k].id \in ready
        BY ONLY <3>1, <3>2, ExpiredToQueue
      <3>4. \A k \in DOMAIN handlers' : handlers'[k].id \in Scheduled
        BY <1>0, <2>9, <3>2, <3>3
      <3> QED
        BY <1>0, <2>9, <3>4 DEF Poll, commands
    <2>10. ASSUME kind = "scheduled", NEW p \in Pool, Dispatch(p, "check"),
                  UNCHANGED <<timerVars, commands, kind>>
          PROVE  KindInv'
      <3>1. handlers \in Seq(Handlers) /\ handlers # <<>> /\ handlers' = Tail(handlers)
        BY <1>0, <2>10 DEF TypeOK, Dispatch
      <3>2. /\ \A k \in DOMAIN handlers' : k + 1 \in DOMAIN handlers
                                         /\ handlers'[k] = handlers[k + 1]
            /\ Head(handlers) = handlers[1] /\ 1 \in DOMAIN handlers
        BY <3>1, HeadAndTail
      <3>3. \A k \in DOMAIN handlers' : handlers'[k].id \in Scheduled
        BY <1>0, <2>10, <3>2
      <3>4. Head(handlers).id \in Scheduled
        BY <1>0, <2>10, <3>2
      <3> QED
        BY <1>0, <2>10, <3>3, <3>4 DEF TypeOK, Dispatch, Goto, commands, timerVars
    <2>11. ASSUME kind = "scheduled", NEW p \in Pool, CheckRunning(p),
                  UNCHANGED <<commands, kind>>
          PROVE  KindInv'
      BY <1>0, <2>11 DEF TypeOK, CheckRunning, Leave, Goto, commands, timerVars
    <2>12. ASSUME kind = "scheduled", NEW p \in Pool, StartTask(p),
                  UNCHANGED <<commands, kind>>
          PROVE  KindInv'
      BY <1>0, <2>12 DEF TypeOK, StartTask, Goto, commands
    <2>13. ASSUME kind = "scheduled", NEW p \in Pool, EndTask(p),
                  UNCHANGED <<commands, kind>>
          PROVE  KindInv'
      BY <1>0, <2>13 DEF TypeOK, EndTask, Goto, commands
    <2>14. ASSUME kind = "scheduled", NEW p \in Pool, Rearm(p),
                  UNCHANGED <<commands, kind>>
          PROVE  KindInv'
      BY <1>0, <2>14 DEF TypeOK, Rearm, Goto, commands
    <2>15. ASSUME kind = "scheduled", NEW p \in Pool, Await(p),
                  UNCHANGED <<commands, kind>>
          PROVE  KindInv'
      BY <1>0, <2>15 DEF TypeOK, Await, Leave, Goto, commands
    <2>16. ASSUME kind = "scheduled", Arm, UNCHANGED <<commands, kind>>
          PROVE  KindInv'
      BY <1>0, <2>16 DEF TypeOK, Arm, commands
    <2>17. ASSUME kind = "scheduled", CancelTimers,
                  UNCHANGED <<commands, kind>>
          PROVE  KindInv'
      <3> DEFINE ready == armed
      <3>1. PICK order \in SetToSeqs(ready) : handlers' = handlers \o Aborted(order)
        BY <2>17 DEF CancelTimers, Aborted
      <3>2. /\ ready \in SUBSET Timers /\ handlers \in Seq(Handlers)
            /\ ready \subseteq Scheduled
        BY <1>0, ConstantFacts DEF TypeOK, Due, Timers
      <3> HIDE DEF ready
      <3>3. \A k \in DOMAIN handlers' :
               \/ k \in DOMAIN handlers /\ handlers'[k] = handlers[k]
               \/ handlers'[k].id \in ready
        BY ONLY <3>1, <3>2, AbortedToQueue
      <3>4. \A k \in DOMAIN handlers' : handlers'[k].id \in Scheduled
        BY <1>0, <2>17, <3>2, <3>3
      <3> QED
        BY <1>0, <2>17, <3>4 DEF CancelTimers, commands
    <2>18. ASSUME kind = "scheduled", NEW fixed_rate \in BOOLEAN,
                  Schedule(fixed_rate), UNCHANGED <<commands, kind>>
          PROVE  KindInv'
      <3>1. /\ Len(timer_tasks_') = Len(timer_tasks_) + 1 /\ timer_tasks_' # <<>>
            /\ Len(timer_tasks_) \in Nat
        BY <1>0, <2>18 DEF TypeOK, Schedule
      <3>2. Scheduled \subseteq Scheduled'
        BY <3>1
      <3> QED
        BY <1>0, <2>18, <3>1, <3>2 DEF Schedule, commands
    <2> QED
      BY <1>a, NextCases, <2>1, <2>2, <2>3, <2>4, <2>5, <2>6, <2>7, <2>8, <2>9,
         <2>10, <2>11, <2>12, <2>13, <2>14, <2>15, <2>16, <2>17, <2>18
  <1>b. CASE UNCHANGED allVars
    BY <1>0, <1>b DEF TypeOK, allVars, vars, poolVars, serviceVars, commands, timerVars
  <1> QED
    BY <1>a, <1>b

LEMMA CommandsInvStep == ExecutorInv /\ [AnyNext]_allVars => CommandsInv'
  <1> SUFFICES ASSUME ExecutorInv, [AnyNext]_allVars PROVE CommandsInv'
    OBVIOUS
  <1>0. TypeOK /\ KindInv /\ ShutdownInv /\ CommandsInv
    BY DEF ExecutorInv
  <1> USE DEF CommandsInv
  <1>a. CASE AnyNext
    <2>1. ASSUME OwnerMoves
          PROVE  CommandsInv'
      BY <1>0, <2>1 DEF TypeOK, OwnerMoves, BeginShutdown, ResetWork, Stop, InterruptAll,
         JoinAll, commands, ShutdownInv
    <2>2. ASSUME UNCHANGED allVars
          PROVE  CommandsInv'
      BY <1>0, <2>2 DEF TypeOK, allVars, vars, poolVars, serviceVars, commands, timerVars
    <2>3. ASSUME NEW p \in Pool, RunEnds(p)
          PROVE  CommandsInv'
      <3>1. ~stopped /\ ~work => handlers = <<>>
        BY <2>3 DEF RunEnds, RunReturns, OutOfWork
      <3>2. kind = "simple" /\ ~stopped /\ ~work => 1 .. accepted \subseteq started
        BY <1>0, <3>1 DEF TypeOK
      <3> QED
        BY <1>0, <2>3, <3>2 DEF RunEnds, RunReturns, commands
    <2>4. ASSUME NEW p \in Pool, IsInterrupted(p)
          PROVE  CommandsInv'
      BY <1>0, <2>4 DEF TypeOK, IsInterrupted, ThreadInterrupted, commands
    <2>5. ASSUME kind = "simple", Execute,
                 UNCHANGED <<timerVars, kind>>
          PROVE  CommandsInv'
      <3> DEFINE h == Handler(posted + 1, FALSE)
      <3>1. posted \in Nat /\ posted' = posted + 1 /\ posted + 1 \in Commands
        BY <1>0, <2>5, ConstantFacts DEF TypeOK, Execute, Commands
      <3>2. h \in Handlers /\ h.id = posted + 1
        BY <3>1, HandlerFacts
      <3>3. handlers \in Seq(Handlers) /\ handlers' = Append(handlers, h)
        BY <1>0, <2>5 DEF TypeOK, Execute
      <3> HIDE DEF h
      <3>4. /\ \A k \in DOMAIN handlers : k \in DOMAIN handlers'
                                        /\ handlers'[k] = handlers[k]
            /\ \E k \in DOMAIN handlers' : handlers'[k] = h
        BY <3>2, <3>3, Appended
      <3>5. \A c \in 1 .. posted' :
               c \in started \/ \E k \in DOMAIN handlers' : handlers'[k].id = c
        <4> SUFFICES ASSUME NEW c \in 1 .. posted + 1, c \notin started
                     PROVE  \E k \in DOMAIN handlers' : handlers'[k].id = c
          BY <3>1
        <4>1. CASE c = posted + 1
          BY <4>1, <3>2, <3>4
        <4>2. CASE c # posted + 1
          <5>1. PICK k \in DOMAIN handlers : handlers[k].id = c
            BY <1>0, <2>5, <3>1, <4>2
          <5> QED
            BY <5>1, <3>4
        <4> QED
          BY <4>1, <4>2
      <3>6. stopped /\ ~work => accepted' = accepted
        BY <1>0, <2>5 DEF Execute, ShutdownInv
      <3> QED
        BY <1>0, <2>5, <3>5, <3>6 DEF Execute
    <2>6. ASSUME kind = "simple", NEW p \in Pool, StartCommand(p),
                 UNCHANGED <<timerVars, kind>>
          PROVE  CommandsInv'
      <3>1. handlers \in Seq(Handlers) /\ handlers # <<>> /\ handlers' = Tail(handlers)
        BY <1>0, <2>6 DEF TypeOK, StartCommand, Dispatch
      <3>2. /\ \A k \in DOMAIN handlers : k = 1 \/ k - 1 \in DOMAIN handlers'
            /\ \A k \in DOMAIN handlers' : handlers'[k] = handlers[k + 1]
            /\ Head(handlers) = handlers[1] /\ DOMAIN handlers = 1 .. Len(handlers)
            /\ Len(handlers) \in Nat
        BY <3>1, HeadAndTail
      <3>3. started' = started \cup {handlers[1].id}
        BY <2>6, <3>2 DEF StartCommand
      <3>4. ASSUME NEW c \in 1 .. posted, c \notin started'
            PROVE  \E k \in DOMAIN handlers' : handlers'[k].id = c
        <4>1. PICK k \in DOMAIN handlers : handlers[k].id = c
          BY <1>0, <2>6, <3>3, <3>4
        <4>2. k - 1 \in DOMAIN handlers' /\ k = (k - 1) + 1
          BY <3>2, <3>3, <3>4, <4>1
        <4>3. handlers'[k - 1] = handlers[k]
          BY <3>2, <4>2
        <4> QED
          BY <4>1, <4>2, <4>3
      <3> QED
        BY <1>0, <2>6, <3>3, <3>4 DEF StartCommand, Dispatch
    <2>7. ASSUME kind = "simple", NEW p \in Pool, EndCommand(p),
                 UNCHANGED <<timerVars, kind>>
          PROVE  CommandsInv'
      BY <1>0, <2>7 DEF TypeOK, EndCommand, commands
    <2>8. ASSUME kind = "scheduled", TimePasses,
                 UNCHANGED <<commands, kind>>
          PROVE  CommandsInv'
      BY <2>8 DEF CommandsInv
    <2>9. ASSUME kind = "scheduled", NEW p \in Pool, Poll(p),
                 UNCHANGED <<commands, kind>>
          PROVE  CommandsInv'
      BY <2>9 DEF CommandsInv
    <2>10. ASSUME kind = "scheduled", NEW p \in Pool, Dispatch(p, "check"),
                  UNCHANGED <<timerVars, commands, kind>>
          PROVE  CommandsInv'
      BY <2>10 DEF CommandsInv
    <2>11. ASSUME kind = "scheduled", NEW p \in Pool, CheckRunning(p),
                  UNCHANGED <<commands, kind>>
          PROVE  CommandsInv'
      BY <2>11 DEF CommandsInv
    <2>12. ASSUME kind = "scheduled", NEW p \in Pool, StartTask(p),
                  UNCHANGED <<commands, kind>>
          PROVE  CommandsInv'
      BY <2>12 DEF CommandsInv
    <2>13. ASSUME kind = "scheduled", NEW p \in Pool, EndTask(p),
                  UNCHANGED <<commands, kind>>
          PROVE  CommandsInv'
      BY <2>13 DEF CommandsInv
    <2>14. ASSUME kind = "scheduled", NEW p \in Pool, Rearm(p),
                  UNCHANGED <<commands, kind>>
          PROVE  CommandsInv'
      BY <2>14 DEF CommandsInv
    <2>15. ASSUME kind = "scheduled", NEW p \in Pool, Await(p),
                  UNCHANGED <<commands, kind>>
          PROVE  CommandsInv'
      BY <2>15 DEF CommandsInv
    <2>16. ASSUME kind = "scheduled", Arm, UNCHANGED <<commands, kind>>
          PROVE  CommandsInv'
      BY <2>16 DEF CommandsInv
    <2>17. ASSUME kind = "scheduled", CancelTimers,
                  UNCHANGED <<commands, kind>>
          PROVE  CommandsInv'
      BY <2>17 DEF CommandsInv
    <2>18. ASSUME kind = "scheduled", NEW fixed_rate \in BOOLEAN,
                  Schedule(fixed_rate), UNCHANGED <<commands, kind>>
          PROVE  CommandsInv'
      BY <2>18 DEF CommandsInv
    <2> QED
      BY <1>a, NextCases, <2>1, <2>2, <2>3, <2>4, <2>5, <2>6, <2>7, <2>8, <2>9,
         <2>10, <2>11, <2>12, <2>13, <2>14, <2>15, <2>16, <2>17, <2>18
  <1>b. CASE UNCHANGED allVars
    BY <1>0, <1>b DEF allVars, vars, poolVars, serviceVars, commands, timerVars
  <1> QED
    BY <1>a, <1>b

-----------------------------------------------------------------------------
(* Steps that move no timer and change none.                                *)
LEMMA TimersUnmoved ==
    ASSUME TypeOK, TimersInv, kind' = kind, UNCHANGED timerVars,
           handlers' = handlers, running_' => running_,
           owner' = "arm" <=> owner = "arm",
           \A p \in Pool : InHandler(p)' =>
               InHandler(p) /\ pc'[p] = pc[p] /\ at'[p] = at[p],
           running_' => \A p \in Pool : InHandler(p) => InHandler(p)'
    PROVE  TimersInv'
  <1> SUFFICES ASSUME kind = "scheduled" PROVE TimersInv'
    BY DEF TimersInv
  <1> USE DEF timerVars
  <1>1. Scheduled' = Scheduled /\ \A i : BeingArmed(i)' <=> BeingArmed(i)
    BY DEF Scheduled, BeingArmed
  <1>2. \A p \in Pool : \A i : With(p, i)' => With(p, i)
    BY DEF With
  <1>3. \A k, i : Queued(k, i)' <=> Queued(k, i)
    BY DEF Queued
  <1>4. \A i \in Scheduled : AtOnePlace(i)'
    BY <1>1, <1>2, <1>3 DEF AtOnePlace, TimersInv
  <1>5. ASSUME NEW i \in Scheduled PROVE OnTime(i)'
    <2>1. \A p \in Pool :
             pc'[p] \in {"check", "start", "task", "rearm", "await"} =>
                 pc'[p] = pc[p] /\ at'[p] = at[p]
      BY DEF InHandler, Idle, Ended
    <2>2. OnTime(i)
      BY DEF TimersInv
    <2> QED
      BY <1>1, <1>3, <2>1, <2>2 DEF OnTime
  <1>6. ASSUME running_' PROVE NoneAborted' /\ \A i \in Scheduled : Somewhere(i)'
    <2>1. NoneAborted'
      BY <1>6 DEF NoneAborted, TimersInv
    <2>2. \A p \in Pool : \A i : With(p, i) => With(p, i)'
      BY <1>6 DEF With
    <2>3. \A i \in Scheduled : Somewhere(i)'
      BY <1>1, <1>3, <1>6, <2>2 DEF Somewhere, TimersInv
    <2> QED
      BY <2>1, <2>3
  <1>7. \A p \in Pool : pc'[p] \in {"start", "task", "rearm", "await"} => ~at'[p].ec
    BY DEF InHandler, Idle, Ended, TimersInv
  <1> QED
    BY <1>1, <1>4, <1>5, <1>6, <1>7 DEF TimersInv

(* Time passes for all timers alike.                                        *)
LEMMA TimePassesTimers ==
    ASSUME TypeOK, TimersInv, kind = "scheduled", TimePasses,
           UNCHANGED <<commands, kind>>
    PROVE  TimersInv'
  <1> USE DEF TimePasses, serviceVars
  <1>1. /\ Scheduled' = Scheduled /\ \A i : BeingArmed(i)' <=> BeingArmed(i)
        /\ \A p, i : With(p, i)' <=> With(p, i)
        /\ \A k, i : Queued(k, i)' <=> Queued(k, i)
    BY DEF Scheduled, BeingArmed, With, InHandler, Idle, Ended, Queued
  <1>2. \A i \in Scheduled : AtOnePlace(i)'
    BY <1>1 DEF AtOnePlace, TimersInv
  <1>3. ASSUME NEW i \in Scheduled PROVE OnTime(i)'
    <2>1. i \in Timers /\ left[i] \in Spans /\ due[i] \in Spans
      BY ConstantFacts DEF TypeOK, Scheduled, Timers
    <2>2. left'[i] = Later(left[i]) /\ due'[i] = Later(due[i])
      BY <2>1
    <2>3. /\ due[i] <= left[i] => due'[i] <= left'[i]
          /\ due[i] <= left[i] + Period => due'[i] <= left'[i] + Period
          /\ left[i] <= 0 => left'[i] <= 0
      <3>1. /\ due[i] <= left[i] => Later(due[i]) <= Later(left[i])
            /\ due[i] <= left[i] + Period
               => Later(due[i]) <= Later(left[i]) + Period
            /\ Later(left[i]) <= left[i] /\ left[i] \in Int
            /\ Later(left[i]) \in Spans
        BY <2>1, LaterFacts
      <3>2. Later(left[i]) \in Int
        BY <3>1 DEF Spans
      <3> QED
        BY <2>2, <3>1, <3>2
    <2>4. OnTime(i)
      BY DEF TimersInv
    <2> QED
      BY <1>1, <2>3, <2>4 DEF OnTime
  <1>4. running_' => NoneAborted' /\ \A i \in Scheduled : Somewhere(i)'
    BY <1>1 DEF NoneAborted, InHandler, Idle, Ended, Somewhere, TimersInv
  <1>5. \A p \in Pool : pc'[p] \in {"start", "task", "rearm", "await"} => ~at'[p].ec
    BY DEF TimersInv
  <1> QED
    BY <1>1, <1>2, <1>3, <1>4, <1>5 DEF TimersInv

(* Waits moved to the queue of handlers, expired or aborted.                *)
LEMMA WaitsMoved ==
    ASSUME TypeOK, TimersInv, kind = "scheduled",
           NEW S \in SUBSET armed,
           UNCHANGED <<kind, pc, at, timer_tasks_, left, due>>,
           owner' = "arm" <=> owner = "arm", running_' => running_,
           armed' = armed \ S,
           \A k \in DOMAIN handlers :
              k \in DOMAIN handlers' /\ handlers'[k] = handlers[k],
           \A k \in DOMAIN handlers' :
              \/ k \in DOMAIN handlers /\ handlers'[k] = handlers[k]
              \/ /\ k \notin DOMAIN handlers /\ handlers'[k].id \in S
                 /\ running_' \/ ~handlers'[k].ec =>
                       ~handlers'[k].ec /\ left[handlers'[k].id] <= 0,
           \A k, l \in DOMAIN handlers' \ DOMAIN handlers :
              handlers'[k].id = handlers'[l].id => k = l,
           \A i \in S : \E k \in DOMAIN handlers' \ DOMAIN handlers :
              handlers'[k].id = i
    PROVE  TimersInv'
  <1>1. /\ Scheduled' = Scheduled /\ \A i : BeingArmed(i)' <=> BeingArmed(i)
        /\ \A p, i : With(p, i)' <=> With(p, i)
        /\ armed \subseteq Scheduled
    BY DEF Scheduled, BeingArmed, With, InHandler, Idle, Ended, TypeOK
  <1>2. \A k, i : Queued(k, i)' =>
           Queued(k, i) \/ (k \notin DOMAIN handlers /\ i \in S)
    BY DEF Queued
  <1>3. ASSUME NEW i \in Scheduled PROVE AtOnePlace(i)'
    <2>1. AtOnePlace(i)
      BY DEF TimersInv
    <2>2. CASE i \in S
      <3>1. \A k \in DOMAIN handlers' : Queued(k, i)' => k \notin DOMAIN handlers
        BY <1>2, <2>1, <2>2 DEF AtOnePlace
      <3>2. \A k, l \in DOMAIN handlers' : Queued(k, i)' /\ Queued(l, i)' => k = l
        BY <3>1 DEF Queued
      <3> QED
        BY <1>1, <2>1, <2>2, <3>2 DEF AtOnePlace
    <2>3. CASE i \notin S
      <3>1. \A k \in DOMAIN handlers' : Queued(k, i)' =>
               k \in DOMAIN handlers /\ Queued(k, i)
        BY <1>2, <2>3 DEF Queued
      <3> QED
        BY <1>1, <2>1, <2>3, <3>1 DEF AtOnePlace
    <2> QED
      BY <2>2, <2>3
  <1>4. ASSUME NEW i \in Scheduled PROVE OnTime(i)'
    <2>1. OnTime(i)
      BY DEF TimersInv
    <2>2. ASSUME NEW k \in DOMAIN handlers', Queued(k, i)', ~handlers'[k].ec
          PROVE  due[i] <= left[i] /\ left[i] <= 0
      <3>1. CASE k \in DOMAIN handlers
        BY <2>1, <2>2, <3>1 DEF OnTime, Queued
      <3>2. CASE k \notin DOMAIN handlers
        BY <2>1, <2>2, <3>2 DEF OnTime, Queued
      <3> QED
        BY <3>1, <3>2
    <2>3. i \in armed' \/ BeingArmed(i)' => due[i] <= left[i]
      BY <1>1, <2>1 DEF OnTime
    <2> QED
      BY <2>1, <2>2, <2>3 DEF OnTime
  <1>5. ASSUME running_' PROVE NoneAborted' /\ \A i \in Scheduled : Somewhere(i)'
    <2>1. NoneAborted
      BY <1>5 DEF TimersInv
    <2>2. NoneAborted'
      BY <1>5, <2>1 DEF NoneAborted, InHandler, Idle, Ended
    <2>3. ASSUME NEW i \in Scheduled PROVE Somewhere(i)'
      <3>1. CASE i \in S
        BY <3>1 DEF Somewhere, Queued
      <3>2. CASE i \notin S
        BY <1>1, <1>5, <3>2 DEF Somewhere, Queued, TimersInv
      <3> QED
        BY <3>1, <3>2
    <2> QED
      BY <2>2, <2>3
  <1>6. \A p \in Pool : pc'[p] \in {"start", "task", "rearm", "await"} => ~at'[p].ec
    BY DEF TimersInv
  <1> QED
    BY <1>1, <1>3, <1>4, <1>5, <1>6 DEF TimersInv

(* A thread takes the timer at the head of the queue.                       *)
LEMMA DispatchTimers ==
    ASSUME TypeOK, TimersInv, kind = "scheduled", NEW p \in Pool,
           Dispatch(p, "check"), UNCHANGED <<timerVars, commands, kind>>
    PROVE  TimersInv'
  <1> USE DEF timerVars
  <1>1. /\ Idle(p) /\ pc'[p] = "check" /\ at'[p] = handlers[1]
        /\ \A q \in Pool \ {p} : pc'[q] = pc[q] /\ at'[q] = at[q]
        /\ running_' = running_ /\ owner' = owner
        /\ 1 \in DOMAIN handlers
        /\ \A k \in DOMAIN handlers' :
              /\ k + 1 \in DOMAIN handlers /\ k + 1 # 1 /\ k \in Nat
              /\ handlers'[k] = handlers[k + 1]
        /\ \A k \in DOMAIN handlers : k = 1 \/ k - 1 \in DOMAIN handlers'
        /\ \A k \in DOMAIN handlers : k \in Nat
    <2>1. handlers \in Seq(Handlers) /\ handlers # <<>> /\ handlers' = Tail(handlers)
      BY DEF TypeOK, Dispatch
    <2>2. /\ 1 \in DOMAIN handlers /\ Head(handlers) = handlers[1]
          /\ \A k \in DOMAIN handlers' : k + 1 \in DOMAIN handlers
                                       /\ handlers'[k] = handlers[k + 1]
          /\ \A k \in DOMAIN handlers : k = 1 \/ k - 1 \in DOMAIN handlers'
      BY <2>1, HeadAndTail
    <2>3. /\ \A k \in DOMAIN handlers : k \in Nat
          /\ \A k \in DOMAIN handlers' : k \in Nat /\ k + 1 # 1
      BY <2>1
    <2>4. /\ Idle(p) /\ pc' = [pc EXCEPT ![p] = "check"]
          /\ at' = [at EXCEPT ![p] = Head(handlers)]
          /\ running_' = running_ /\ owner' = owner
      BY DEF Dispatch, Goto
    <2> QED
      BY <2>2, <2>3, <2>4 DEF TypeOK
  <1>2. /\ Scheduled' = Scheduled /\ \A i : BeingArmed(i)' <=> BeingArmed(i)
        /\ \A i : ~With(p, i) /\ (With(p, i)' <=> Queued(1, i))
        /\ \A q \in Pool \ {p} : \A i : With(q, i)' <=> With(q, i)
    BY <1>1 DEF Scheduled, BeingArmed, With, InHandler, Idle, Ended, Queued
  <1>3. \A k \in DOMAIN handlers' : \A i :
           Queued(k, i)' => k + 1 \in DOMAIN handlers /\ k + 1 # 1
                            /\ k \in Nat /\ Queued(k + 1, i)
    BY <1>1 DEF Queued
  <1>4. ASSUME NEW i \in Scheduled PROVE AtOnePlace(i)'
    <2>1. AtOnePlace(i)
      BY DEF TimersInv
    <2>2. /\ \A k \in DOMAIN handlers : Queued(k, i) => \A q \in Pool : ~With(q, i)
          /\ \A k, l \in DOMAIN handlers : Queued(k, i) /\ Queued(l, i) => k = l
      BY <2>1 DEF AtOnePlace
    <2>3. i \in armed' \/ BeingArmed(i)' =>
              /\ \A k \in DOMAIN handlers' : ~Queued(k, i)'
              /\ \A q \in Pool : ~With(q, i)'
      BY <1>1, <1>2, <1>3, <2>1 DEF AtOnePlace
    <2>4. ASSUME NEW k \in DOMAIN handlers', Queued(k, i)', NEW q \in Pool
          PROVE  ~With(q, i)'
      <3>1. k + 1 \in DOMAIN handlers /\ k + 1 # 1 /\ Queued(k + 1, i)
        BY <1>3, <2>4
      <3>2. ~With(q, i) /\ ~Queued(1, i)
        BY <1>1, <2>2, <3>1
      <3> QED
        BY <1>2, <3>2
    <2>5. ASSUME NEW k \in DOMAIN handlers', NEW l \in DOMAIN handlers',
                 Queued(k, i)', Queued(l, i)'
          PROVE  k = l
      <3>1. k + 1 = l + 1 /\ k \in Nat /\ l \in Nat
        BY <1>3, <2>2, <2>5
      <3> QED
        BY <3>1
    <2>6. ASSUME NEW q \in Pool, NEW r \in Pool, With(q, i)', With(r, i)'
          PROVE  q = r
      BY <1>1, <1>2, <2>1, <2>2, <2>6 DEF AtOnePlace
    <2>7. BeingArmed(i)' => i \notin armed'
      BY <1>2, <2>1 DEF AtOnePlace
    <2> QED
      BY <2>3, <2>4, <2>5, <2>6, <2>7 DEF AtOnePlace
  <1>5. ASSUME NEW i \in Scheduled PROVE OnTime(i)'
    <2>1. OnTime(i)
      BY DEF TimersInv
    <2>2. ASSUME NEW k \in DOMAIN handlers', Queued(k, i)', ~handlers'[k].ec
          PROVE  due[i] <= left[i] /\ left[i] <= 0
      BY <1>1, <1>3, <2>1, <2>2 DEF OnTime
    <2>3. i \in armed' \/ BeingArmed(i)' => due[i] <= left[i]
      BY <1>2, <2>1 DEF OnTime
    <2>4. ~at'[p].ec /\ at'[p].id = i => due[i] <= left[i] /\ left[i] <= 0
      BY <1>1, <2>1 DEF OnTime, Queued
    <2> QED
      BY <1>1, <2>1, <2>2, <2>3, <2>4 DEF OnTime
  <1>6. ASSUME running_' PROVE NoneAborted' /\ \A i \in Scheduled : Somewhere(i)'
    <2>1. NoneAborted /\ \A i \in Scheduled : Somewhere(i)
      BY <1>1, <1>6 DEF TimersInv
    <2>2. NoneAborted'
      BY <1>1, <2>1 DEF NoneAborted, InHandler, Idle, Ended
    <2>3. ASSUME NEW i \in Scheduled PROVE Somewhere(i)'
      <3>1. CASE \E k \in DOMAIN handlers : Queued(k, i)
        <4>1. PICK k \in DOMAIN handlers : Queued(k, i)
          BY <3>1
        <4>2. CASE k = 1
          BY <1>2, <4>1, <4>2 DEF Somewhere
        <4>3. CASE k # 1
          <5>1. k - 1 \in DOMAIN handlers' /\ k \in Nat /\ (k - 1) + 1 = k
            BY <1>1, <4>1, <4>3
          <5>2. Queued(k - 1, i)'
            BY <1>1, <4>1, <5>1 DEF Queued
          <5> QED
            BY <5>1, <5>2 DEF Somewhere
        <4> QED
          BY <4>2, <4>3
      <3>2. CASE ~\E k \in DOMAIN handlers : Queued(k, i)
        BY <1>2, <2>1, <3>2 DEF Somewhere
      <3> QED
        BY <3>1, <3>2
    <2> QED
      BY <2>2, <2>3
  <1>7. \A q \in Pool : pc'[q] \in {"start", "task", "rearm", "await"} => ~at'[q].ec
    BY <1>1 DEF TimersInv
  <1> QED
    BY <1>2, <1>4, <1>5, <1>6, <1>7 DEF TimersInv

(* A thread goes on with the timer it has, or leaves it if the executor has *)
(* been shut down.                                                          *)
LEMMA HandlerTimers ==
    ASSUME TypeOK, TimersInv, kind = "scheduled", NEW p \in Pool, InHandler(p),
           UNCHANGED <<kind, running_, handlers, owner, timer_tasks_, armed>>,
           InHandler(p)' \/ ~running_,
           InHandler(p)' => at'[p] = at[p],
           \A q \in Pool \ {p} : pc'[q] = pc[q] /\ at'[q] = at[q],
           pc'[p] \in {"start", "task", "rearm", "await"} => ~at'[p].ec,
           \A i \in Scheduled : i # at[p].id =>
               left'[i] = left[i] /\ due'[i] = due[i],
           \A i \in Scheduled : i = at[p].id =>
               /\ pc'[p] = "start" => due'[i] <= left'[i] /\ left'[i] <= 0
               /\ pc'[p] \in {"task", "rearm"} =>
                     /\ left'[i] <= 0
                     /\ timer_tasks_[i] => due'[i] <= left'[i] + Period
               /\ pc'[p] = "await" => due'[i] <= left'[i],
           pc'[p] # "check"
    PROVE  TimersInv'
  <1>1. /\ Scheduled' = Scheduled /\ \A i : BeingArmed(i)' <=> BeingArmed(i)
        /\ \A k, i : Queued(k, i)' <=> Queued(k, i)
        /\ \A q \in Pool : \A i : With(q, i)' => With(q, i)
        /\ \A q \in Pool \ {p} : \A i : With(q, i)' <=> With(q, i)
    BY DEF Scheduled, BeingArmed, Queued, With, InHandler, Idle, Ended
  <1>2. \A i \in Scheduled : AtOnePlace(i)'
    BY <1>1 DEF AtOnePlace, TimersInv
  <1>3. ASSUME NEW i \in Scheduled PROVE OnTime(i)'
    <2>1. OnTime(i) /\ AtOnePlace(i)
      BY DEF TimersInv
    <2>2. CASE i = at[p].id
      <3>1. With(p, i)
        BY <2>2 DEF With
      <3>2. /\ i \notin armed /\ ~BeingArmed(i)
            /\ \A k \in DOMAIN handlers : ~Queued(k, i)
            /\ \A q \in Pool \ {p} : ~With(q, i)
        BY <2>1, <3>1 DEF AtOnePlace
      <3>3. \A q \in Pool \ {p} : at[q].id = i =>
               pc[q] \notin {"check", "start", "task", "rearm", "await"}
        BY <3>2 DEF With, InHandler, Idle, Ended
      <3>4. ~(i \in armed' \/ BeingArmed(i)')
            /\ \A k \in DOMAIN handlers' : ~Queued(k, i)'
        BY <1>1, <3>2
      <3> QED
        BY <2>2, <3>3, <3>4 DEF OnTime
    <2>3. CASE i # at[p].id
      <3>1. left'[i] = left[i] /\ due'[i] = due[i]
        BY <2>3
      <3>2. pc'[p] \in {"check", "start", "task", "rearm", "await"} => at'[p].id # i
        BY <2>3 DEF InHandler, Idle, Ended
      <3> QED
        BY <1>1, <2>1, <3>1, <3>2 DEF OnTime
    <2> QED
      BY <2>2, <2>3
  <1>4. ASSUME running_' PROVE NoneAborted' /\ \A i \in Scheduled : Somewhere(i)'
    <2>1. NoneAborted /\ \A i \in Scheduled : Somewhere(i)
      BY <1>4 DEF TimersInv
    <2>2. InHandler(p)' /\ \A i : With(p, i)' <=> With(p, i)
      BY <1>4 DEF With
    <2>3. NoneAborted'
      BY <2>1, <2>2 DEF NoneAborted, InHandler, Idle, Ended
    <2>4. \A i \in Scheduled : Somewhere(i)'
      BY <1>1, <2>1, <2>2 DEF Somewhere
    <2> QED
      BY <2>3, <2>4
  <1>5. \A q \in Pool : pc'[q] \in {"start", "task", "rearm", "await"} => ~at'[q].ec
    BY DEF TimersInv
  <1> QED
    BY <1>1, <1>2, <1>3, <1>4, <1>5 DEF TimersInv

(* A thread hands its timer over to the timer queue.                        *)
LEMMA AwaitTimers ==
    ASSUME TypeOK, KindInv, TimersInv, kind = "scheduled", NEW p \in Pool,
           Await(p), UNCHANGED <<commands, kind>>
    PROVE  TimersInv'
  <1> DEFINE mine == at[p].id
  <1>1. /\ pc[p] = "await" /\ pc' = [pc EXCEPT ![p] = "run"]
        /\ at' = [at EXCEPT ![p] = NoHandler] /\ armed' = armed \cup {mine}
        /\ UNCHANGED <<running_, owner, handlers, timer_tasks_, left, due>>
    BY DEF Await, Leave, Goto
  <1>2. With(p, mine) /\ mine \in Scheduled
    BY <1>1 DEF With, InHandler, Idle, Ended, KindInv
  <1>3. /\ Scheduled' = Scheduled /\ \A i : BeingArmed(i)' <=> BeingArmed(i)
        /\ \A k, i : Queued(k, i)' <=> Queued(k, i)
        /\ \A i : ~With(p, i)' /\ (With(p, i) => i = mine)
        /\ \A q \in Pool \ {p} : \A i : With(q, i)' <=> With(q, i)
    BY <1>1 DEF TypeOK, Scheduled, BeingArmed, Queued, With, InHandler, Idle, Ended
  <1>4. ASSUME NEW i \in Scheduled PROVE AtOnePlace(i)'
    <2>1. AtOnePlace(i)
      BY DEF TimersInv
    <2>2. CASE i = mine
      <3>1. /\ ~BeingArmed(i) /\ \A k \in DOMAIN handlers : ~Queued(k, i)
            /\ \A q \in Pool \ {p} : ~With(q, i)
        BY <1>2, <2>1, <2>2 DEF AtOnePlace
      <3>2. \A q \in Pool : ~With(q, i)'
        BY <1>3, <3>1
      <3>3. ~BeingArmed(i)' /\ \A k \in DOMAIN handlers' : ~Queued(k, i)'
        BY <1>1, <1>3, <3>1
      <3> QED
        BY <3>2, <3>3 DEF AtOnePlace
    <2>3. CASE i # mine
      <3>1. \A q \in Pool : With(q, i)' <=> With(q, i)
        BY <1>3, <2>3
      <3>2. i \in armed' <=> i \in armed
        BY <1>1, <2>3
      <3> QED
        BY <1>1, <1>3, <2>1, <3>1, <3>2 DEF AtOnePlace
    <2> QED
      BY <2>2, <2>3
  <1>5. ASSUME NEW i \in Scheduled PROVE OnTime(i)'
    <2>1. OnTime(i)
      BY DEF TimersInv
    <2>2. i = mine => due[i] <= left[i]
      BY <1>1, <2>1 DEF OnTime
    <2>3. pc'[p] = "run" /\ \A q \in Pool \ {p} : pc'[q] = pc[q] /\ at'[q] = at[q]
      BY <1>1 DEF TypeOK
    <2> QED
      BY <1>1, <1>3, <2>1, <2>2, <2>3 DEF OnTime
  <1>6. ASSUME running_' PROVE NoneAborted' /\ \A i \in Scheduled : Somewhere(i)'
    <2>1. NoneAborted /\ \A i \in Scheduled : Somewhere(i)
      BY <1>1, <1>6 DEF TimersInv
    <2>2. NoneAborted'
      BY <1>1, <2>1 DEF NoneAborted, InHandler, Idle, Ended, TypeOK
    <2>3. \A i \in Scheduled : Somewhere(i)'
      BY <1>1, <1>3, <2>1 DEF Somewhere
    <2> QED
      BY <2>2, <2>3
  <1>7. \A q \in Pool : pc'[q] \in {"start", "task", "rearm", "await"} => ~at'[q].ec
    BY <1>1 DEF TimersInv, TypeOK
  <1> QED
    BY <1>1, <1>3, <1>4, <1>5, <1>6, <1>7 DEF TimersInv

(* The owner arms the timer it has built: until then it is nowhere else.    *)
LEMMA ArmTimers ==
    ASSUME TypeOK, KindInv, TimersInv, kind = "scheduled", Arm,
           UNCHANGED <<commands, kind>>
    PROVE  TimersInv'
  <1> DEFINE new == Len(timer_tasks_)
  <1>1. /\ owner = "arm" /\ owner' = "idle" /\ armed' = armed \cup {new}
        /\ UNCHANGED <<running_, handlers, pc, at, timer_tasks_, left, due>>
    BY DEF Arm
  <1>2. /\ BeingArmed(new) /\ \A i : ~BeingArmed(i)' /\ (BeingArmed(i) => i = new)
        /\ Scheduled' = Scheduled
        /\ \A k, i : Queued(k, i)' <=> Queued(k, i)
        /\ \A q, i : With(q, i)' <=> With(q, i)
    BY <1>1 DEF Scheduled, BeingArmed, Queued, With, InHandler, Idle, Ended
  <1>3. ASSUME NEW i \in Scheduled PROVE AtOnePlace(i)'
    <2>1. AtOnePlace(i)
      BY DEF TimersInv
    <2> QED
      BY <1>1, <1>2, <2>1 DEF AtOnePlace
  <1>4. ASSUME NEW i \in Scheduled PROVE OnTime(i)'
    <2>1. OnTime(i)
      BY DEF TimersInv
    <2> QED
      BY <1>1, <1>2, <2>1 DEF OnTime
  <1>5. ASSUME running_' PROVE NoneAborted' /\ \A i \in Scheduled : Somewhere(i)'
    <2>1. NoneAborted /\ \A i \in Scheduled : Somewhere(i)
      BY <1>1, <1>5 DEF TimersInv
    <2>2. NoneAborted'
      BY <1>1, <2>1 DEF NoneAborted, InHandler, Idle, Ended
    <2>3. \A i \in Scheduled : Somewhere(i)'
      BY <1>1, <1>2, <2>1 DEF Somewhere
    <2> QED
      BY <2>2, <2>3
  <1>6. \A q \in Pool : pc'[q] \in {"start", "task", "rearm", "await"} => ~at'[q].ec
    BY <1>1 DEF TimersInv
  <1> QED
    BY <1>1, <1>2, <1>3, <1>4, <1>5, <1>6 DEF TimersInv

(* A timer is built: its number is one that nothing refers to yet.          *)
LEMMA ScheduleTimers ==
    ASSUME TypeOK, KindInv, TimersInv, kind = "scheduled",
           NEW fixed_rate \in BOOLEAN, Schedule(fixed_rate),
           UNCHANGED <<commands, kind>>
    PROVE  TimersInv'
  <1> DEFINE new == Len(timer_tasks_) + 1
  <1>1. /\ owner = "idle" /\ owner' = "arm"
        /\ UNCHANGED <<running_, handlers, pc, at, armed>>
        /\ left' = [left EXCEPT ![new] = Period]
        /\ due' = [due EXCEPT ![new] = Period]
        /\ timer_tasks_' = Append(timer_tasks_, fixed_rate) /\ new <= MaxTimers
    BY DEF Schedule
  <1>2. /\ Len(timer_tasks_') = new /\ Len(timer_tasks_) \in Nat
        /\ \A i \in Scheduled : timer_tasks_'[i] = timer_tasks_[i]
        /\ Scheduled' = Scheduled \cup {new} /\ new \notin Scheduled
        /\ new \in Timers
    BY <1>1, ConstantFacts DEF TypeOK, Scheduled, Timers
  <1>3. /\ \A i : ~BeingArmed(i) /\ (BeingArmed(i)' <=> i = new)
        /\ \A k, i : Queued(k, i)' <=> Queued(k, i)
        /\ \A q, i : With(q, i)' <=> With(q, i)
    BY <1>1, <1>2 DEF BeingArmed, Queued, With, InHandler, Idle, Ended
  <1>4. /\ new \notin armed /\ \A q \in Pool : ~With(q, new)
        /\ \A k \in DOMAIN handlers : ~Queued(k, new)
    BY <1>2 DEF TypeOK, KindInv, With, Queued
  <1>5. ASSUME NEW i \in Scheduled' PROVE AtOnePlace(i)'
    <2>1. CASE i = new
      BY <1>1, <1>3, <1>4, <2>1 DEF AtOnePlace
    <2>2. CASE i # new
      <3>1. AtOnePlace(i)
        BY <1>2, <2>2 DEF TimersInv
      <3> QED
        BY <1>1, <1>3, <2>2, <3>1 DEF AtOnePlace
    <2> QED
      BY <2>1, <2>2
  <1>6. ASSUME NEW i \in Scheduled' PROVE OnTime(i)'
    <2>1. CASE i = new
      <3>1. left'[i] = Period /\ due'[i] = Period
        BY <1>1, <1>2, <2>1 DEF TypeOK
      <3>2. \A q \in Pool : at[q].id = i =>
               pc[q] \notin {"check", "start", "task", "rearm", "await"}
        BY <1>4, <2>1 DEF With, InHandler, Idle, Ended
      <3> QED
        BY <1>1, <1>3, <1>4, <2>1, <3>1, <3>2, ConstantFacts DEF OnTime
    <2>2. CASE i # new
      <3>1. OnTime(i) /\ timer_tasks_'[i] = timer_tasks_[i] /\ i \in Timers
        BY <1>2, <2>2, ConstantFacts DEF TimersInv, TypeOK, Scheduled, Timers
      <3>2. left'[i] = left[i] /\ due'[i] = due[i]
        BY <1>1, <2>2, <3>1 DEF TypeOK
      <3> QED
        BY <1>1, <1>3, <2>2, <3>1, <3>2 DEF OnTime
    <2> QED
      BY <2>1, <2>2
  <1>7. ASSUME running_' PROVE NoneAborted' /\ \A i \in Scheduled' : Somewhere(i)'
    <2>1. NoneAborted /\ \A i \in Scheduled : Somewhere(i)
      BY <1>1, <1>7 DEF TimersInv
    <2>2. NoneAborted'
      BY <1>1, <2>1 DEF NoneAborted, InHandler, Idle, Ended
    <2>3. \A i \in Scheduled' : Somewhere(i)'
      BY <1>1, <1>2, <1>3, <2>1 DEF Somewhere
    <2> QED
      BY <2>2, <2>3
  <1>8. \A q \in Pool : pc'[q] \in {"start", "task", "rearm", "await"} => ~at'[q].ec
    BY <1>1 DEF TimersInv
  <1> QED
    BY <1>5, <1>6, <1>7, <1>8 DEF TimersInv

LEMMA TimersInvStep == ExecutorInv /\ [AnyNext]_allVars => TimersInv'
  <1> SUFFICES ASSUME ExecutorInv, [AnyNext]_allVars PROVE TimersInv'
    OBVIOUS
  <1>0. TypeOK /\ KindInv /\ ShutdownInv /\ TimersInv
    BY DEF ExecutorInv
  <1>a. CASE AnyNext
    <2>1. ASSUME OwnerMoves
          PROVE  TimersInv'
      <3>1. /\ UNCHANGED <<kind, handlers, pc, at>> /\ UNCHANGED timerVars
            /\ owner' = "arm" <=> owner = "arm"
            /\ running_' => running_
        BY <1>0, <2>1 DEF OwnerMoves, BeginShutdown, ResetWork, Stop, InterruptAll,
           JoinAll, TypeOK
      <3>2. \A p \in Pool : InHandler(p)' <=> InHandler(p)
        BY <3>1 DEF InHandler, Idle, Ended
      <3> QED
        BY <1>0, <3>1, <3>2, TimersUnmoved
    <2>2. ASSUME UNCHANGED allVars
          PROVE  TimersInv'
      <3>1. /\ UNCHANGED <<kind, handlers, pc, at, owner, running_>>
            /\ UNCHANGED timerVars
        BY <2>2 DEF allVars, vars, poolVars, serviceVars
      <3>2. \A p \in Pool : InHandler(p)' <=> InHandler(p)
        BY <3>1 DEF InHandler, Idle, Ended
      <3> QED
        BY <1>0, <3>1, <3>2, TimersUnmoved
    <2>3. ASSUME NEW p \in Pool, RunEnds(p)
          PROVE  TimersInv'
      <3>1. /\ UNCHANGED <<kind, handlers, at, owner, running_>>
            /\ UNCHANGED timerVars
        BY <2>3 DEF RunEnds, RunReturns
      <3>2. \A q \in Pool : /\ InHandler(q)' <=> InHandler(q)
                            /\ InHandler(q)' => pc'[q] = pc[q]
        BY <1>0, <2>3 DEF TypeOK, RunEnds, RunReturns, Goto, InHandler, Idle, Ended
      <3> QED
        BY <1>0, <3>1, <3>2, TimersUnmoved
    <2>4. ASSUME NEW p \in Pool, IsInterrupted(p)
          PROVE  TimersInv'
      <3>1. /\ UNCHANGED <<kind, handlers, owner, running_>>
            /\ UNCHANGED timerVars
            /\ p \in interrupted
        BY <2>4 DEF IsInterrupted, ThreadInterrupted
      <3>2. \A q \in Pool : InHandler(q)' =>
               InHandler(q) /\ pc'[q] = pc[q] /\ at'[q] = at[q]
        BY <1>0, <2>4 DEF TypeOK, IsInterrupted, ThreadInterrupted, Goto, InHandler,
           Idle, Ended
      <3>3. ~running_'
        BY <1>0, <3>1 DEF ShutdownInv
      <3> QED
        BY <1>0, <3>1, <3>2, <3>3, TimersUnmoved
    <2>5. ASSUME kind = "simple", Execute,
                 UNCHANGED <<timerVars, kind>>
          PROVE  TimersInv'
      BY <2>5 DEF TimersInv
    <2>6. ASSUME kind = "simple", NEW p \in Pool, StartCommand(p),
                 UNCHANGED <<timerVars, kind>>
          PROVE  TimersInv'
      BY <2>6 DEF TimersInv
    <2>7. ASSUME kind = "simple", NEW p \in Pool, EndCommand(p),
                 UNCHANGED <<timerVars, kind>>
          PROVE  TimersInv'
      BY <2>7 DEF TimersInv
    <2>8. ASSUME kind = "scheduled", TimePasses,
                 UNCHANGED <<commands, kind>>
          PROVE  TimersInv'
      BY <1>0, <2>8, TimePassesTimers
    <2>9. ASSUME kind = "scheduled", NEW p \in Pool, Poll(p),
                 UNCHANGED <<commands, kind>>
          PROVE  TimersInv'
      <3> DEFINE ready == {i \in Timers : Due(i)}
      <3>1. PICK order \in SetToSeqs(ready) : handlers' = handlers \o Expired(order)
        BY <2>9 DEF Poll, Expired
      <3>2. /\ ready \in SUBSET Timers /\ ready \in SUBSET armed
            /\ handlers \in Seq(Handlers) /\ armed' = armed \ ready
            /\ \A i \in ready : left[i] <= 0
        BY <1>0, <2>9, ConstantFacts DEF TypeOK, Due, Timers, Scheduled, Poll
      <3> HIDE DEF ready
      <3>3. /\ \A k \in DOMAIN handlers :
                  k \in DOMAIN handlers' /\ handlers'[k] = handlers[k]
            /\ \A k \in DOMAIN handlers' :
                  \/ k \in DOMAIN handlers /\ handlers'[k] = handlers[k]
                  \/ /\ k \notin DOMAIN handlers /\ handlers'[k].id \in ready
                     /\ ~handlers'[k].ec
            /\ \A k, l \in DOMAIN handlers' \ DOMAIN handlers :
                  handlers'[k].id = handlers'[l].id => k = l
            /\ \A i \in ready : \E k \in DOMAIN handlers' \ DOMAIN handlers :
                  handlers'[k].id = i
        BY ONLY <3>1, <3>2, ExpiredToQueue
      <3>4. /\ UNCHANGED <<kind, pc, at, timer_tasks_, left, due>>
            /\ owner' = owner /\ running_' = running_
        BY <2>9 DEF Poll
      <3> QED
        BY <1>0, <2>9, <3>2, <3>3, <3>4, WaitsMoved
    <2>10. ASSUME kind = "scheduled", NEW p \in Pool, Dispatch(p, "check"),
                  UNCHANGED <<timerVars, commands, kind>>
          PROVE  TimersInv'
      BY <1>0, <2>10, DispatchTimers
    <2>11. ASSUME kind = "scheduled", NEW p \in Pool, CheckRunning(p),
                  UNCHANGED <<commands, kind>>
          PROVE  TimersInv'
      <3>1. /\ pc[p] = "check" /\ InHandler(p)
            /\ UNCHANGED <<kind, running_, handlers, owner, timer_tasks_, armed, left, due>>
        BY <2>11 DEF CheckRunning, InHandler, Idle, Ended, timerVars
      <3>2. \A q \in Pool \ {p} : pc'[q] = pc[q] /\ at'[q] = at[q]
        BY <1>0, <2>11 DEF TypeOK, CheckRunning, Leave, Goto
      <3>3. CASE running_ /\ ~at[p].ec
        <4>1. pc'[p] = "start" /\ at' = at
          BY <1>0, <2>11, <3>3 DEF TypeOK, CheckRunning, Goto
        <4>2. \A i \in Scheduled : i = at[p].id => due[i] <= left[i] /\ left[i] <= 0
          BY <1>0, <2>11, <3>1, <3>3 DEF TimersInv, OnTime
        <4>3. InHandler(p)'
          BY <4>1 DEF InHandler, Idle, Ended
        <4> QED
          BY <1>0, <2>11, <3>1, <3>2, <3>3, <4>1, <4>2, <4>3, HandlerTimers
      <3>4. CASE ~(running_ /\ ~at[p].ec)
        <4>1. pc'[p] = "run"
          BY <1>0, <2>11, <3>4 DEF TypeOK, CheckRunning, Leave, Goto
        <4>2. ~running_
          BY <1>0, <2>11, <3>1, <3>4 DEF TimersInv, NoneAborted
        <4>3. ~InHandler(p)'
          BY <4>1 DEF InHandler, Idle
        <4> QED
          BY <1>0, <2>11, <3>1, <3>2, <4>1, <4>2, <4>3, HandlerTimers
      <3> QED
        BY <3>3, <3>4
    <2>12. ASSUME kind = "scheduled", NEW p \in Pool, StartTask(p),
                  UNCHANGED <<commands, kind>>
          PROVE  TimersInv'
      <3> DEFINE i == at[p].id
      <3>1. /\ pc[p] = "start" /\ pc'[p] = "task" /\ at' = at
            /\ UNCHANGED <<kind, running_, handlers, owner, timer_tasks_, armed>>
            /\ \A q \in Pool \ {p} : pc'[q] = pc[q]
        BY <1>0, <2>12 DEF TypeOK, StartTask, Goto
      <3>2. InHandler(p) /\ InHandler(p)'
        BY <3>1 DEF InHandler, Idle, Ended
      <3>3. i \in Scheduled /\ ~at[p].ec
        BY <1>0, <2>12, <3>1, <3>2 DEF KindInv, TimersInv
      <3>4. i \in Timers /\ left[i] \in Spans /\ due[i] \in Spans
        BY <1>0, <3>3, ConstantFacts DEF TypeOK, Timers, Scheduled
      <3>5. /\ \A j \in Scheduled : j # i => left'[j] = left[j] /\ due'[j] = due[j]
            /\ left' = left /\ due'[i] = IF timer_tasks_[i] THEN due[i] + Period ELSE due[i]
        BY <1>0, <2>12, <3>4 DEF TypeOK, StartTask
      <3>6. OnTime(i)
        BY <1>0, <2>12, <3>3 DEF TimersInv
      <3>7. left'[i] <= 0 /\ (timer_tasks_[i] => due'[i] <= left'[i] + Period)
        BY <3>1, <3>3, <3>4, <3>5, <3>6, ConstantFacts DEF OnTime, Spans
      <3> QED
        BY <1>0, <2>12, <3>1, <3>2, <3>3, <3>5, <3>7, HandlerTimers
    <2>13. ASSUME kind = "scheduled", NEW p \in Pool, EndTask(p),
                  UNCHANGED <<commands, kind>>
          PROVE  TimersInv'
      <3> DEFINE i == at[p].id
      <3>1. /\ pc[p] = "task" /\ pc'[p] = "rearm" /\ at' = at
            /\ UNCHANGED <<kind, running_, handlers, owner, timer_tasks_, armed>>
            /\ \A q \in Pool \ {p} : pc'[q] = pc[q]
        BY <1>0, <2>13 DEF TypeOK, EndTask, Goto
      <3>2. InHandler(p) /\ InHandler(p)'
        BY <3>1 DEF InHandler, Idle, Ended
      <3>3. i \in Scheduled /\ ~at[p].ec
        BY <1>0, <2>13, <3>1, <3>2 DEF KindInv, TimersInv
      <3>4. i \in Timers /\ left[i] \in Spans /\ due[i] \in Spans
        BY <1>0, <3>3, ConstantFacts DEF TypeOK, Timers, Scheduled
      <3>5. /\ \A j \in Scheduled : j # i => left'[j] = left[j] /\ due'[j] = due[j]
            /\ left' = left /\ due'[i] = IF timer_tasks_[i] THEN due[i] ELSE Period
        BY <1>0, <2>13, <3>4 DEF TypeOK, EndTask
      <3>6. OnTime(i)
        BY <1>0, <2>13, <3>3 DEF TimersInv
      <3>7. left'[i] <= 0 /\ (timer_tasks_[i] => due'[i] <= left'[i] + Period)
        BY <3>1, <3>3, <3>4, <3>5, <3>6, ConstantFacts DEF OnTime, Spans
      <3> QED
        BY <1>0, <2>13, <3>1, <3>2, <3>3, <3>5, <3>7, HandlerTimers
    <2>14. ASSUME kind = "scheduled", NEW p \in Pool, Rearm(p),
                  UNCHANGED <<commands, kind>>
          PROVE  TimersInv'
      <3> DEFINE i == at[p].id
      <3>1. /\ pc[p] = "rearm" /\ pc'[p] = "await" /\ at' = at
            /\ UNCHANGED <<kind, running_, handlers, owner, timer_tasks_, armed>>
            /\ \A q \in Pool \ {p} : pc'[q] = pc[q]
        BY <1>0, <2>14 DEF TypeOK, Rearm, Goto
      <3>2. InHandler(p) /\ InHandler(p)'
        BY <3>1 DEF InHandler, Idle, Ended
      <3>3. i \in Scheduled /\ ~at[p].ec
        BY <1>0, <2>14, <3>1, <3>2 DEF KindInv, TimersInv
      <3>4. i \in Timers /\ left[i] \in Spans /\ due[i] \in Spans
        BY <1>0, <3>3, ConstantFacts DEF TypeOK, Timers, Scheduled
      <3>5. /\ \A j \in Scheduled : j # i => left'[j] = left[j] /\ due'[j] = due[j]
            /\ due' = due /\ left'[i] = IF timer_tasks_[i] THEN left[i] + Period ELSE Period
        BY <1>0, <2>14, <3>4 DEF TypeOK, Rearm
      <3>6. OnTime(i)
        BY <1>0, <2>14, <3>3 DEF TimersInv
      <3>7. due'[i] <= left'[i]
        BY <3>1, <3>3, <3>4, <3>5, <3>6, ConstantFacts DEF OnTime, Spans
      <3> QED
        BY <1>0, <2>14, <3>1, <3>2, <3>3, <3>5, <3>7, HandlerTimers
    <2>15. ASSUME kind = "scheduled", NEW p \in Pool, Await(p),
                  UNCHANGED <<commands, kind>>
          PROVE  TimersInv'
      BY <1>0, <2>15, AwaitTimers
    <2>16. ASSUME kind = "scheduled", Arm, UNCHANGED <<commands, kind>>
          PROVE  TimersInv'
      BY <1>0, <2>16, ArmTimers
    <2>17. ASSUME kind = "scheduled", CancelTimers,
                  UNCHANGED <<commands, kind>>
          PROVE  TimersInv'
      <3> DEFINE ready == armed
      <3>1. PICK order \in SetToSeqs(ready) : handlers' = handlers \o Aborted(order)
        BY <2>17 DEF CancelTimers, Aborted
      <3>2. /\ ready \in SUBSET Timers /\ ready \in SUBSET armed
            /\ handlers \in Seq(Handlers) /\ armed' = armed \ ready
        BY <1>0, <2>17, ConstantFacts DEF TypeOK, Due, Timers, Scheduled, CancelTimers
      <3> HIDE DEF ready
      <3>3. /\ \A k \in DOMAIN handlers :
                  k \in DOMAIN handlers' /\ handlers'[k] = handlers[k]
            /\ \A k \in DOMAIN handlers' :
                  \/ k \in DOMAIN handlers /\ handlers'[k] = handlers[k]
                  \/ /\ k \notin DOMAIN handlers /\ handlers'[k].id \in ready
                     /\ handlers'[k].ec
            /\ \A k, l \in DOMAIN handlers' \ DOMAIN handlers :
                  handlers'[k].id = handlers'[l].id => k = l
            /\ \A i \in ready : \E k \in DOMAIN handlers' \ DOMAIN handlers :
                  handlers'[k].id = i
        BY ONLY <3>1, <3>2, AbortedToQueue
      <3>4. /\ UNCHANGED <<kind, pc, at, timer_tasks_, left, due>>
            /\ owner = "cancelTimers" /\ owner' = "stop" /\ running_' = running_
        BY <2>17 DEF CancelTimers
      <3>5. ~running_'
        BY <1>0, <3>4 DEF ShutdownInv
      <3> QED
        BY <1>0, <2>17, <3>2, <3>3, <3>4, <3>5, WaitsMoved
    <2>18. ASSUME kind = "scheduled", NEW fixed_rate \in BOOLEAN,
                  Schedule(fixed_rate), UNCHANGED <<commands, kind>>
          PROVE  TimersInv'
      BY <1>0, <2>18, ScheduleTimers
    <2> QED
      BY <1>a, NextCases, <2>1, <2>2, <2>3, <2>4, <2>5, <2>6, <2>7, <2>8, <2>9,
         <2>10, <2>11, <2>12, <2>13, <2>14, <2>15, <2>16, <2>17, <2>18
  <1>b. CASE UNCHANGED allVars
    <2>1. /\ UNCHANGED <<kind, handlers, pc, at, owner, running_>>
          /\ UNCHANGED timerVars
      BY <1>b DEF allVars, vars, poolVars, serviceVars
    <2>2. \A p \in Pool : InHandler(p)' <=> InHandler(p)
      BY <2>1 DEF InHandler, Idle, Ended
    <2> QED
      BY <1>0, <2>1, <2>2, TimersUnmoved
  <1> QED
    BY <1>a, <1>b

-----------------------------------------------------------------------------
(* The inductive invariant of both executors.                               *)
THEOREM ExecutorInvariant == AnySpec => []ExecutorInv
  <1>1. ExecutorInv /\ [AnyNext]_allVars => ExecutorInv'
    BY TypeStep, KindInvStep, ShutdownInvStep, CommandsInvStep, TimersInvStep
    DEF ExecutorInv
  <1> QED
    BY ExecutorInit, <1>1, PTL DEF AnySpec

(* Every value the executors keep is of its type: the times of a timer stay *)
(* between the lag told apart and the period, whoever sets them.            *)
THEOREM ExecutorTypes == AnySpec => []TypeOK
  <1>1. ExecutorInv => TypeOK
    BY DEF ExecutorInv
  <1> QED
    BY <1>1, ExecutorInvariant, PTL

(* When shutdown() or shutdownNow() has returned every thread of the pool   *)
(* has ended, and no later call revives one.                                *)
THEOREM ShutdownLeavesNobody == AnySpec => []QuietAfterShutdown
  <1>1. ExecutorInv => QuietAfterShutdown
    BY DEF ExecutorInv, ShutdownInv, QuietAfterShutdown
  <1> QED
    BY <1>1, ExecutorInvariant, PTL

(* shutdown() returns when the commands accepted before it have begun, or   *)
(* when every thread of the pool has died of an interruption.               *)
THEOREM ShutdownRunsTheAccepted == AnySpec => []AcceptedCommandsRun
  <1>1. ASSUME ExecutorInv PROVE AcceptedCommandsRun
    <2> SUFFICES ASSUME ~running_, owner = "idle", ~work,
                        NEW p \in Pool, pc[p] # "interrupted"
                 PROVE  1 .. accepted \subseteq started
      BY DEF AcceptedCommandsRun
    <2>1. stopped
      BY <1>1 DEF ExecutorInv, ShutdownInv, Ended
    <2>2. CASE kind = "simple"
      BY <1>1, <2>1, <2>2 DEF ExecutorInv, CommandsInv
    <2>3. CASE kind = "scheduled"
      BY <1>1, <2>3 DEF ExecutorInv, KindInv, TypeOK
    <2> QED
      BY <1>1, <2>2, <2>3 DEF ExecutorInv, KindInv
  <1> QED
    BY <1>1, ExecutorInvariant, PTL

(* timerHandler runs no task before its period is over, at a fixed rate or  *)
(* with a fixed delay.                                                      *)
THEOREM NoTaskIsEarly == AnySpec => []NoEarlyStart
  <1>1. ASSUME ExecutorInv PROVE NoEarlyStart
    <2> SUFFICES ASSUME NEW p \in Pool, pc[p] = "start"
                 PROVE  due[at[p].id] <= 0
      BY DEF NoEarlyStart
    <2> DEFINE i == at[p].id
    <2>1. kind = "scheduled" /\ InHandler(p)
      BY <1>1 DEF ExecutorInv, KindInv, InHandler, Idle, Ended
    <2>2. i \in Scheduled /\ ~at[p].ec /\ OnTime(i)
      BY <1>1, <2>1 DEF ExecutorInv, KindInv, TimersInv
    <2>3. left[i] \in Int /\ due[i] \in Int
      BY <1>1, <2>2, ConstantFacts
      DEF ExecutorInv, TypeOK, Scheduled, Timers, Spans
    <2>4. due[i] <= left[i] /\ left[i] <= 0
      BY <2>2 DEF OnTime
    <2> QED
      BY <2>3, <2>4
  <1> QED
    BY <1>1, ExecutorInvariant, PTL

LEMMA AtMostOne ==
    ASSUME NEW S, \A x, y \in S : x = y
    PROVE  /\ Cardinality(S) \in {0, 1}
           /\ Cardinality(S) = 0 <=> S = {}
  <1>1. CASE S = {}
    BY <1>1, FS_EmptySet
  <1>2. CASE S # {}
    <2>1. PICK x : S = {x}
      BY <1>2
    <2> QED
      BY <2>1, FS_Singleton
  <1> QED
    BY <1>1, <1>2

(* A fixed-delay task has one pending call of timerHandler at most, and each *)
(* task has one as long as the executor runs: none is lost.                  *)
THEOREM TasksArePending == AnySpec => []TimersArePending
  <1>1. ASSUME ExecutorInv PROVE TimersArePending
    <2> SUFFICES ASSUME NEW i \in Scheduled
                 PROVE  /\ Places(i) <= 1
                        /\ running_ /\ ~BeingArmed(i) => Places(i) = 1
      BY DEF TimersArePending, Places
    <2> DEFINE Q == {k \in DOMAIN handlers : handlers[k].id = i}
               W == {p \in Pool : InHandler(p) /\ at[p].id = i}
    <2>1. kind = "scheduled"
      BY <1>1 DEF ExecutorInv, KindInv, Scheduled
    <2>2. AtOnePlace(i) /\ (running_ => Somewhere(i))
      BY <1>1, <2>1 DEF ExecutorInv, TimersInv
    <2>3. /\ \A k, l \in Q : k = l
          /\ \A p, q \in W : p = q
          /\ i \in armed => Q = {} /\ W = {}
          /\ Q = {} \/ W = {}
          /\ running_ /\ ~BeingArmed(i) => i \in armed \/ Q # {} \/ W # {}
      BY <2>2 DEF AtOnePlace, Somewhere, Queued, With
    <2> HIDE DEF Q, W
    <2>4. /\ Cardinality(Q) \in {0, 1} /\ (Cardinality(Q) = 0 <=> Q = {})
          /\ Cardinality(W) \in {0, 1} /\ (Cardinality(W) = 0 <=> W = {})
      BY <2>3, AtMostOne
    <2>5. Places(i) = (IF i \in armed THEN 1 ELSE 0)
                      + Cardinality(Q) + Cardinality(W)
      BY DEF Places, Q, W
    <2> QED
      BY <2>3, <2>4, <2>5
  <1> QED
    BY <1>1, ExecutorInvariant, PTL
=============================================================================
