-------------------------- MODULE MCMetricRegistry --------------------------
(* Small instances of MetricRegistry: three MetricType values (the gauge     *)
(* type and two that buildMetric knows) stand for the five of the source.    *)
(* A getOrAdd finds at most two objects of a class in use by others, one in  *)
(* the map and one held by the other thread, so three of each are enough.    *)
EXTENDS MetricRegistry, TLC

CONSTANTS Counters, Histograms   \* the objects of the two classes

MCMetrics == Counters \cup Histograms
MCClassOf == [m \in MCMetrics |-> IF m \in Counters THEN 1 ELSE 2]

MCSymmetry == Permutations(Names) \cup Permutations(Threads)
                 \cup Permutations(Counters) \cup Permutations(Histograms)
=============================================================================
