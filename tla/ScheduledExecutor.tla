-------------------------- MODULE ScheduledExecutor --------------------------
(***************************************************************************)
(* cppmetrics::concurrent::SimpleScheduledThreadPoolExecutor: periodic     *)
(* tasks on asio deadline timers, run by the threads of ThreadPoolExecutor *)
(* and shut down as it is.  One owner thread schedules tasks and shuts the *)
(* pool down.                                                              *)
(*                                                                         *)
(* A wait is armed in the timer queue; an idle thread that polls moves the *)
(* waits that are due to the queue of handlers.  Time is relative: left[i] *)
(* is how long timer i has to go.                                          *)
(***************************************************************************)
EXTENDS ThreadPoolExecutor

CONSTANTS
    MaxTimers,      \* bound: how many tasks the owner schedules
    Period,         \* the period given to every task, in clock ticks
    MaxLag          \* bound: lateness beyond it is not told apart

ASSUME ExecutorAssumption ==
    /\ MaxTimers \in Nat \ {0}
    /\ Period \in Nat \ {0} /\ MaxLag \in Nat

VARIABLES
    timer_tasks_, \* the tasks scheduled: for each its fixed_rate_
    armed,        \* the timers with a wait in the timer queue
    left,         \* per timer: its expiry less the time now
    due           \* history, per timer: time until a start is not early

timerVars == <<timer_tasks_, armed, left, due>>
vars == <<poolVars, timerVars>>

-----------------------------------------------------------------------------
Timers == 1 .. MaxTimers
Scheduled == 1 .. Len(timer_tasks_)

Init ==
    /\ PoolInit
    /\ timer_tasks_ = <<>>
    /\ armed = {}
    /\ left = [i \in Timers |-> 0]
    /\ due = [i \in Timers |-> 0]

-----------------------------------------------------------------------------
(* io_service::run on a pool thread *)

Due(i) == i \in armed /\ left[i] <= 0

\* An idle thread polls: every wait that is due becomes a handler to run.
Poll(p) ==
    LET ready == {i \in Timers : Due(i)}
    IN /\ Idle(p) /\ ~stopped
       /\ ready # {}
       /\ \E order \in SetToSeqs(ready) :
             handlers' = handlers \o [k \in DOMAIN order |->
                                          Handler(order[k], FALSE)]
       /\ armed' = armed \ ready
       /\ UNCHANGED <<running_, work, stopped, pc, at, interrupted, owner,
                      timer_tasks_, left, due>>

-----------------------------------------------------------------------------
(* timerHandler *)

\* A call after shutdown skips the run only, and arms the timer again.
CheckOrRearm(p) ==
    /\ pc[p] = "check"
    /\ CASE at[p].ec -> Leave(p)
         [] ~at[p].ec /\ running_ -> Goto(p, "start") /\ UNCHANGED at
         [] OTHER     -> Goto(p, "rearm") /\ UNCHANGED at
    /\ UNCHANGED <<running_, work, stopped, handlers, interrupted, owner,
                   timerVars>>

\* A call after shutdown, or for a cancelled wait, ends here.
CheckRunning(p) ==
    /\ pc[p] = "check"
    /\ IF running_ /\ ~at[p].ec
       THEN Goto(p, "start") /\ UNCHANGED at
       ELSE Leave(p)
    /\ UNCHANGED <<running_, work, stopped, handlers, interrupted, owner,
                   timerVars>>

\* The next start of a fixed-rate task is due a period after this one was,
\* that of a fixed-delay task a period after this one's end.
StartTask(p) ==
    LET i == at[p].id
    IN /\ pc[p] = "start"
       /\ Goto(p, "task")
       /\ due' = [due EXCEPT ![i] = IF timer_tasks_[i] THEN @ + Period ELSE @]
       /\ UNCHANGED <<running_, work, stopped, handlers, at, interrupted,
                      owner, timer_tasks_, armed, left>>

EndTask(p) ==
    LET i == at[p].id
    IN /\ pc[p] = "task"
       /\ Goto(p, "rearm")
       /\ due' = [due EXCEPT ![i] = IF timer_tasks_[i] THEN @ ELSE Period]
       /\ UNCHANGED <<running_, work, stopped, handlers, at, interrupted,
                      owner, timer_tasks_, armed, left>>

\* A re-arming that takes every task for a fixed-rate one.
RearmAtRate(p) ==
    LET i == at[p].id
    IN /\ pc[p] = "rearm"
       /\ left' = [left EXCEPT ![i] = @ + Period]
       /\ Goto(p, "await")
       /\ UNCHANGED <<running_, work, stopped, handlers, at, interrupted,
                      owner, timer_tasks_, armed, due>>

\* expires_at(expires_at() + period) or expires_from_now(period), whether the
\* executor is running or not.
Rearm(p) ==
    LET i == at[p].id
    IN /\ pc[p] = "rearm"
       /\ left' = [left EXCEPT ![i] =
              IF timer_tasks_[i] THEN @ + Period ELSE Period]
       /\ Goto(p, "await")
       /\ UNCHANGED <<running_, work, stopped, handlers, at, interrupted,
                      owner, timer_tasks_, armed, due>>

\* A timerHandler that forgets the timer when it has run late.
AwaitUnlessLate(p) ==
    /\ pc[p] = "await"
    /\ armed' = IF left[at[p].id] < 0 THEN armed
                ELSE armed \cup {at[p].id}
    /\ Leave(p)
    /\ UNCHANGED <<running_, work, stopped, handlers, interrupted, owner,
                   timer_tasks_, left, due>>

Await(p) ==
    /\ pc[p] = "await"
    /\ armed' = armed \cup {at[p].id}
    /\ Leave(p)
    /\ UNCHANGED <<running_, work, stopped, handlers, interrupted, owner,
                   timer_tasks_, left, due>>

-----------------------------------------------------------------------------
(* The owner: scheduleAtFixedRate and scheduleAtFixedDelay *)

\* The timer is built, its period running, and entered in timer_tasks_ ...
Schedule(fixed_rate) ==
    LET i == Len(timer_tasks_) + 1
    IN /\ owner = "idle"
       /\ i <= MaxTimers
       /\ timer_tasks_' = Append(timer_tasks_, fixed_rate)
       /\ left' = [left EXCEPT ![i] = Period]
       /\ due' = [due EXCEPT ![i] = Period]
       /\ owner' = "arm"
       /\ UNCHANGED <<running_, work, stopped, handlers, pc, at, interrupted,
                      armed>>

\* A timer_index that is the size of timer_tasks_, one too many.
ArmPastTheEnd ==
    /\ owner = "arm"
    /\ armed' = armed \cup {Len(timer_tasks_) + 1}
    /\ owner' = "idle"
    /\ UNCHANGED <<running_, work, stopped, handlers, pc, at, interrupted,
                   timer_tasks_, left, due>>

\* ... and its first wait begins, also after a shutdown.
Arm ==
    /\ owner = "arm"
    /\ armed' = armed \cup {Len(timer_tasks_)}
    /\ owner' = "idle"
    /\ UNCHANGED <<running_, work, stopped, handlers, pc, at, interrupted,
                   timer_tasks_, left, due>>

-----------------------------------------------------------------------------
(* The owner: shutdown and shutdownNow *)

Shutdown == BeginShutdown("resetWork") /\ UNCHANGED timerVars
ShutdownNow == BeginShutdown("cancelTimers") /\ UNCHANGED timerVars

\* cancel() turns a wait in the timer queue into an aborted handler; a wait
\* that is being armed by timerHandler meanwhile escapes.
CancelTimers ==
    /\ owner = "cancelTimers"
    /\ \E order \in SetToSeqs(armed) :
          handlers' = handlers \o [k \in DOMAIN order |->
                                       Handler(order[k], TRUE)]
    /\ armed' = {}
    /\ owner' = "stop"
    /\ UNCHANGED <<running_, work, stopped, pc, at, interrupted,
                   timer_tasks_, left, due>>

ShutdownStep == CancelTimers \/ (CloseStep /\ UNCHANGED timerVars)

-----------------------------------------------------------------------------
Later(x) == IF x > -MaxLag THEN x - 1 ELSE x

TimePasses ==
    /\ left' = [i \in Timers |-> IF i \in Scheduled THEN Later(left[i]) ELSE 0]
    /\ due' = [i \in Timers |-> IF i \in Scheduled THEN Later(due[i]) ELSE 0]
    /\ UNCHANGED <<serviceVars, timer_tasks_, armed>>

HandlerStep(p) ==
    \/ CheckRunning(p) \/ StartTask(p) \/ EndTask(p) \/ Rearm(p) \/ Await(p)
    \/ ThreadInterrupted(p, "task") /\ UNCHANGED timerVars

PoolStep(p) ==
    \/ Poll(p)
    \/ Dispatch(p, "check") /\ UNCHANGED timerVars
    \/ RunReturns(p, armed = {}) /\ UNCHANGED timerVars
    \/ HandlerStep(p)

OwnerStep == Arm \/ ShutdownStep

ScheduledCall ==
    \/ \E fixed_rate \in BOOLEAN : Schedule(fixed_rate)
    \/ Shutdown
    \/ ShutdownNow
    \/ ShutdownAgain /\ UNCHANGED timerVars

Next ==
    /\ \/ TimePasses
       \/ \E p \in Pool : PoolStep(p)
       \/ ScheduledCall
       \/ OwnerStep
    /\ UNCHANGED commands

\* Time passes, threads are scheduled and tasks end.
Fairness ==
    /\ WF_vars(TimePasses /\ UNCHANGED commands)
    /\ WF_vars(OwnerStep /\ UNCHANGED commands)
    /\ \A p \in Pool : WF_vars(PoolStep(p) /\ UNCHANGED commands)

Spec == Init /\ [][Next]_vars /\ Fairness

-----------------------------------------------------------------------------
PoolSteps == {"run", "command", "check", "start", "task", "rearm", "await",
              "exited", "interrupted"}
OwnerSteps == {"idle", "arm", "resetWork", "cancelTimers", "stop",
               "interrupt", "join"}
Handlers == [id : Timers \cup Commands, ec : BOOLEAN]
Spans == -MaxLag .. Period

TypeOK ==
    /\ running_ \in BOOLEAN /\ work \in BOOLEAN /\ stopped \in BOOLEAN
    /\ timer_tasks_ \in Seq(BOOLEAN) /\ Len(timer_tasks_) <= MaxTimers
    /\ armed \subseteq Scheduled
    /\ left \in [Timers -> Spans] /\ due \in [Timers -> Spans]
    /\ handlers \in Seq(Handlers)
    /\ pc \in [Pool -> PoolSteps]
    /\ at \in [Pool -> Handlers]
    /\ interrupted \subseteq Pool
    /\ owner \in OwnerSteps
    /\ posted \in 0 .. MaxCommands /\ accepted \in 0 .. posted
    /\ started \subseteq 1 .. posted

\* Where timer i is: in the timer queue, among the handlers, or with a thread.
Places(i) ==
    (IF i \in armed THEN 1 ELSE 0)
    + Cardinality({k \in DOMAIN handlers : handlers[k].id = i})
    + Cardinality({p \in Pool : InHandler(p) /\ at[p].id = i})
BeingArmed(i) == owner = "arm" /\ i = Len(timer_tasks_)

\* A fixed-delay task has one pending call of timerHandler, no more ("There can
\* be only one task instance running at a given time"), and as long as the
\* executor runs each task, of either kind, has one: none is ever forgotten.
TimersArePending ==
    \A i \in Scheduled :
        /\ ~timer_tasks_[i] => Places(i) <= 1
        /\ running_ /\ ~BeingArmed(i) => Places(i) >= 1

\* A task "is executed at a fixed rate and therefore there might be more than
\* one command running at a time depending on the duration of the command"
\* (simple_scheduled_thread_pool_executor.h:45): when a run takes so long that
\* the next one is due, another call is on its way to a thread.
LongRunsOverlap ==
    \A p \in Pool :
        running_ /\ pc[p] = "task" /\ timer_tasks_[at[p].id] /\ due[at[p].id] <= 0
            => Places(at[p].id) > 1

\* No task starts before its period is over: a fixed-delay task a period after
\* the end of the last run, the k-th run of a fixed-rate task k periods after
\* it was scheduled.
NoEarlyStart ==
    \A p \in Pool : pc[p] = "start" => due[at[p].id] <= 0

\* As long as the executor runs every task scheduled runs again and again.
TasksKeepRunning ==
    \A i \in Timers :
        [](i \in Scheduled => <>(\/ ~running_
                                 \/ \E p \in Pool :
                                       pc[p] = "task" /\ at[p].id = i))
=============================================================================
