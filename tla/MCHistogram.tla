---------------------------- MODULE MCHistogram ----------------------------
(* Small instances of the two kinds of sample a histogram is made over: the  *)
(* uniform one, which needs the histogram for its steps, or the other.       *)
EXTENDS Histogram, ExpDecaySample, TLC

VARIABLE sample_type

MCMinKey == -2
MCSymmetry == Permutations(Threads)
MCVars == <<vars, decayVars, sample_type>>

MCInit ==
    /\ Init /\ DecayInit
    /\ sample_type \in {"kUniform", "kBiased"}

MCNext ==
    /\ \/ sample_type = "kUniform" /\ Next /\ UNCHANGED decayVars
       \/ sample_type = "kBiased" /\ DecayNext /\ UNCHANGED vars
    /\ UNCHANGED sample_type

MCSpec == MCInit /\ [][MCNext]_MCVars
=============================================================================
