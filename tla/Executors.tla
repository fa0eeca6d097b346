------------------------------ MODULE Executors ------------------------------
(***************************************************************************)
(* An executor of either kind: the plain pool, which executes commands, or *)
(* the scheduled one, which runs periodic tasks.  The two classes are each *)
(* a whole of their own; what callers rely on is stated of both.           *)
(***************************************************************************)
EXTENDS ScheduledExecutor

VARIABLE kind   \* the class of the executor: it never changes

allVars == <<vars, kind>>

-----------------------------------------------------------------------------
AnyInit ==
    /\ Init
    /\ kind \in {"simple", "scheduled"}

ThreadStep(p) ==
    /\ \/ kind = "simple" /\ CommandStep(p) /\ UNCHANGED timerVars
       \/ kind = "scheduled" /\ PoolStep(p) /\ UNCHANGED commands
    /\ UNCHANGED kind

CallInProgress ==
    /\ \/ kind = "simple" /\ CloseStep /\ UNCHANGED timerVars
       \/ kind = "scheduled" /\ OwnerStep
    /\ UNCHANGED <<commands, kind>>

NewCall ==
    /\ \/ kind = "simple" /\ PoolCall /\ UNCHANGED timerVars
       \/ kind = "scheduled" /\ ScheduledCall /\ UNCHANGED commands
    /\ UNCHANGED kind

Clock ==
    /\ kind = "scheduled"
    /\ TimePasses
    /\ UNCHANGED <<commands, kind>>

AnyNext ==
    \/ Clock
    \/ \E p \in Pool : ThreadStep(p)
    \/ CallInProgress
    \/ NewCall

\* As for each of them: time passes, threads are scheduled, tasks end.
AnySpec ==
    /\ AnyInit
    /\ [][AnyNext]_allVars
    /\ WF_allVars(Clock)
    /\ WF_allVars(CallInProgress)
    /\ \A p \in Pool : WF_allVars(ThreadStep(p))
=============================================================================
