------------------------------- MODULE MCTimer -------------------------------
(* Small instances of the parts of a timer: in a behaviour either the timer, *)
(* its meter or the snapshots of its sample move, as the variable says.      *)
EXTENDS Timer, Meter, Snapshot

VARIABLE part

MCValues == {-1, 0, 2}
MCVars == <<timerVars, vars, values_, part>>

MCInit ==
    /\ TimerInit /\ Init /\ SnapshotInit
    /\ part \in {"timer", "meter", "snapshot"}

MCNext ==
    /\ \/ part = "timer" /\ TimerNext /\ UNCHANGED <<vars, values_>>
       \/ part = "meter" /\ Next /\ UNCHANGED <<timerVars, values_>>
       \/ part = "snapshot" /\ SnapshotNext /\ UNCHANGED <<timerVars, vars>>
    /\ UNCHANGED part

\* As SoloSpec of the meter.
MCSpec == MCInit /\ [][MCNext]_MCVars /\ WF_vars(Step(Runner))
=============================================================================
