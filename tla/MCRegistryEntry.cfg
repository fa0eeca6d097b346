\* A map insertion fails and a later call counts.
CONSTANTS
    Names = {n1, n2}
    Threads = {t1, t2}
    Counters = {c1, c2, c3}
    Histograms = {h1, h2, h3}
    Metrics <- MCMetrics
    ClassOf <- MCClassOf
    Gauges = {g1}
    TotalTypes = 3
    AllocFails = {"metric", "name", "entry"}
    None = None
SPECIFICATION Spec
SYMMETRY MCSymmetry
INVARIANTS
    CountIsOfMetrics
