------------------------------ MODULE Histogram ------------------------------
(***************************************************************************)
(* cppmetrics::core::Histogram over a UniformSample: a count of its own,   *)
(* changed just before the sample is called, and the sample.  Both have a  *)
(* count_; the histogram's is histogram_count_ here.                       *)
(***************************************************************************)
EXTENDS UniformSample

VARIABLE histogram_count_

vars == <<sampleVars, histogram_count_>>

Init == SampleInit /\ histogram_count_ = 0

\* The sample first, then the count.
UpdateSampleFirst(t) ==
    \/ /\ \E v \in Values : EnterUpdate(t, v)
       /\ UNCHANGED histogram_count_
    \/ /\ Store(t)
       /\ histogram_count_' = histogram_count_ + 1

Update(t) ==
    /\ \E v \in Values : EnterUpdate(t, v)
    /\ histogram_count_' = histogram_count_ + 1

Clear(t) ==
    /\ EnterClear(t)
    /\ histogram_count_' = 0

GetSnapshot(t) == EnterSnapshot(t) /\ UNCHANGED histogram_count_

Next ==
    \E t \in Threads :
        \/ Update(t)
        \/ Clear(t)
        \/ GetSnapshot(t)
        \/ SampleStep(t) /\ UNCHANGED histogram_count_

Spec == Init /\ [][Next]_vars

-----------------------------------------------------------------------------
\* The two counts say the same: once a clear that was alone has ended they
\* differ only by the updates on their way from one to the other.  It says
\* nothing of what a report shows: printHistogram reads the count first.
CountsAgree ==
    Settled =>
        histogram_count_ =
            count_ + Cardinality({t \in Threads : pc[t] = "take"})
=============================================================================
