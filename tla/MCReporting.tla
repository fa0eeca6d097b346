----------------------------- MODULE MCReporting -----------------------------
(* Small instances of Reporting: the gauge type and two others stand for the *)
(* five of the source.                                                       *)
EXTENDS Reporting

CONSTANTS Counters, Histograms

MCMetrics == Counters \cup Histograms
MCClassOf == [m \in MCMetrics |-> IF m \in Counters THEN 1 ELSE 2]
=============================================================================
