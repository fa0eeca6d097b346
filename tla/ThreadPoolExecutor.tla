------------------------- MODULE ThreadPoolExecutor -------------------------
(***************************************************************************)
(* cppmetrics::concurrent::SimpleThreadPoolExecutor: a fixed pool of       *)
(* threads inside io_service::run executes the commands posted to it.      *)
(* Clients post commands at any time; one owner thread shuts the pool      *)
(* down.  ScheduledExecutor extends the same service, threads and shutdown *)
(* with timers.                                                            *)
(*                                                                         *)
(* Of boost::asio only what the executors rely on is modelled: post        *)
(* appends a handler to a FIFO queue, a thread takes handlers from its     *)
(* head, and run() returns when the service is stopped or has no work      *)
(* left.  thread::interrupt() makes the thread's next interruption point,  *)
(* if a command has one, throw through run(): that thread is gone.         *)
(***************************************************************************)
EXTENDS Integers, Sequences, FiniteSets, SequencesExt

CONSTANTS
    Pool,           \* the threads of thread_group_
    MaxCommands,    \* bound: how many commands are posted
    Interruptible   \* do commands and tasks contain interruption points

ASSUME PoolAssumption ==
    /\ Pool # {} /\ IsFiniteSet(Pool)
    /\ MaxCommands \in Nat
    /\ Interruptible \in BOOLEAN

VARIABLES
    running_,
    work,         \* does work_ptr_ hold the work object
    stopped,      \* io_service_ is stopped
    handlers,     \* FIFO of the handlers that can run
    pc,           \* per pool thread: where it is
    at,           \* per pool thread: the handler it executes
    interrupted,  \* the pool threads with an interruption requested
    owner,        \* the owner's next step
    posted,       \* how many commands have been posted: they are 1 .. posted
    accepted,     \* history: how many of them before shutdown began
    started       \* history: the commands a thread has begun

commands == <<posted, accepted, started>>
serviceVars == <<running_, work, stopped, handlers, pc, at, interrupted, owner>>
poolVars == <<serviceVars, commands>>

-----------------------------------------------------------------------------
Commands == 1 .. MaxCommands

\* A handler in the queue: command id, or timer id and the wait's error code.
Handler(id, ec) == [id |-> id, ec |-> ec]
NoHandler == Handler(1, FALSE)

Idle(p) == pc[p] = "run"
Ended(p) == pc[p] \in {"exited", "interrupted"}
InHandler(p) == ~Idle(p) /\ ~Ended(p)
Goto(p, step) == pc' = [pc EXCEPT ![p] = step]

\* A constructor whose work object goes out of scope.
InitWithoutWork ==
    /\ running_ = TRUE
    /\ work = FALSE
    /\ stopped = FALSE
    /\ handlers = <<>>
    /\ pc = [p \in Pool |-> "run"]
    /\ at = [p \in Pool |-> NoHandler]
    /\ interrupted = {}
    /\ owner = "idle"
    /\ posted = 0 /\ accepted = 0 /\ started = {}

PoolInit ==
    /\ running_ = TRUE
    /\ work = TRUE
    /\ stopped = FALSE
    /\ handlers = <<>>
    /\ pc = [p \in Pool |-> "run"]
    /\ at = [p \in Pool |-> NoHandler]
    /\ interrupted = {}
    /\ owner = "idle"
    /\ posted = 0 /\ accepted = 0 /\ started = {}

-----------------------------------------------------------------------------
(* io_service::run on a pool thread *)

Dispatch(p, step) ==
    /\ Idle(p) /\ ~stopped
    /\ handlers # <<>>
    /\ at' = [at EXCEPT ![p] = Head(handlers)]
    /\ handlers' = Tail(handlers)
    /\ Goto(p, step)
    /\ UNCHANGED <<running_, work, stopped, interrupted, owner>>

OutOfWork ==
    /\ ~work
    /\ handlers = <<>>
    /\ \A p \in Pool : ~InHandler(p)

\* run() returns, out of work if no wait is pending, and the thread ends.
RunReturns(p, noWaits) ==
    /\ Idle(p)
    /\ stopped \/ (OutOfWork /\ noWaits)
    /\ stopped' = TRUE
    /\ Goto(p, "exited")
    /\ UNCHANGED <<running_, work, handlers, at, interrupted, owner>>

Leave(p) ==
    /\ Goto(p, "run")
    /\ at' = [at EXCEPT ![p] = NoHandler]

\* boost::thread_interrupted leaves the command and run(); the thread ends.
ThreadInterrupted(p, step) ==
    /\ Interruptible
    /\ pc[p] = step /\ p \in interrupted
    /\ Goto(p, "interrupted")
    /\ at' = [at EXCEPT ![p] = NoHandler]
    /\ interrupted' = interrupted \ {p}
    /\ UNCHANGED <<running_, work, stopped, handlers, owner>>

-----------------------------------------------------------------------------
(* execute, and the commands *)

\* Whether the executor runs or not: what is posted to a stopped service is
\* kept and never run.
Execute ==
    /\ posted < MaxCommands
    /\ posted' = posted + 1
    /\ handlers' = Append(handlers, Handler(posted + 1, FALSE))
    /\ accepted' = IF running_ THEN accepted + 1 ELSE accepted
    /\ UNCHANGED <<running_, work, stopped, pc, at, interrupted, owner,
                   started>>

StartCommand(p) ==
    /\ Dispatch(p, "command")
    /\ started' = started \cup {Head(handlers).id}
    /\ UNCHANGED <<posted, accepted>>

EndCommand(p) ==
    /\ pc[p] = "command"
    /\ Leave(p)
    /\ UNCHANGED <<running_, work, stopped, handlers, interrupted, owner,
                   commands>>

CommandStep(p) ==
    \/ StartCommand(p)
    \/ EndCommand(p)
    \/ ThreadInterrupted(p, "command") /\ UNCHANGED commands
    \/ RunReturns(p, TRUE) /\ UNCHANGED commands

-----------------------------------------------------------------------------
(* The owner: shutdown and shutdownNow, which the destructor calls *)

BeginShutdown(next) ==
    /\ owner = "idle" /\ running_
    /\ running_' = FALSE
    /\ owner' = next
    /\ UNCHANGED <<work, stopped, handlers, pc, at, interrupted>>

\* A second call of either, or the destructor's after one, returns at once.
ShutdownAgain ==
    /\ owner = "idle" /\ ~running_
    /\ UNCHANGED serviceVars

\* A shutdown that stops the service as shutdownNow does.
ResetWorkAndStop ==
    /\ owner = "resetWork"
    /\ work' = FALSE
    /\ stopped' = TRUE
    /\ owner' = "interrupt"
    /\ UNCHANGED <<running_, handlers, pc, at, interrupted>>

ResetWork ==
    /\ owner = "resetWork"
    /\ work' = FALSE
    /\ owner' = "interrupt"
    /\ UNCHANGED <<running_, stopped, handlers, pc, at, interrupted>>

Stop ==
    /\ owner = "stop"
    /\ stopped' = TRUE
    /\ owner' = "interrupt"
    /\ UNCHANGED <<running_, work, handlers, pc, at, interrupted>>

InterruptAll ==
    /\ owner = "interrupt"
    /\ interrupted' = {p \in Pool : ~Ended(p)}
    /\ owner' = "join"
    /\ UNCHANGED <<running_, work, stopped, handlers, pc, at>>

\* A shutdown that does not wait for the threads.
ReturnAtOnce ==
    /\ owner = "join"
    /\ owner' = "idle"
    /\ UNCHANGED <<running_, work, stopped, handlers, pc, at, interrupted>>

JoinAll ==
    /\ owner = "join"
    /\ \A p \in Pool : Ended(p)
    /\ owner' = "idle"
    /\ UNCHANGED <<running_, work, stopped, handlers, pc, at, interrupted>>

CloseStep == ResetWork \/ Stop \/ InterruptAll \/ JoinAll

PoolCall ==
    \/ Execute
    \/ BeginShutdown("resetWork") /\ UNCHANGED commands
    \/ BeginShutdown("stop") /\ UNCHANGED commands
    \/ ShutdownAgain /\ UNCHANGED commands

PoolNext ==
    \/ PoolCall
    \/ \E p \in Pool : CommandStep(p)
    \/ CloseStep /\ UNCHANGED commands

\* Threads are scheduled and commands end.
PoolFairness ==
    /\ WF_poolVars(CloseStep /\ UNCHANGED commands)
    /\ \A p \in Pool : WF_poolVars(CommandStep(p))

PoolSpec == PoolInit /\ [][PoolNext]_poolVars /\ PoolFairness

-----------------------------------------------------------------------------
\* When shutdown() or shutdownNow() has returned, no pool thread is left to
\* touch what the commands and tasks refer to, however often it is called.
QuietAfterShutdown == ~running_ /\ owner = "idle" => \A p \in Pool : Ended(p)

\* shutdown(), unlike shutdownNow(), has the commands accepted before it run:
\* one that has not begun when shutdown() returns was left behind by a pool
\* whose threads all died of an interruption, each in another command.
AcceptedCommandsRun ==
    ~running_ /\ owner = "idle" /\ ~work =>
        \/ 1 .. accepted \subseteq started
        \/ \A p \in Pool : pc[p] = "interrupted"

\* shutdown() and shutdownNow() return, if tasks end: the first waits for the
\* commands posted and the timers armed, the second for those running.
ShutdownReturns == ~running_ ~> owner = "idle"

\* As long as the executor runs every command posted is begun: MaxCommands
\* bounds them, so it is enough that the pool always catches up.
CommandsStart == []<>(~running_ \/ started = 1 .. posted)
=============================================================================
