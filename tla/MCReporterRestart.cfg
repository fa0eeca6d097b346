\* A second start after a stop.
CONSTANTS
    Names = {n1}
    Counters = {c1}
    Histograms = {}
    Metrics <- MCMetrics
    ClassOf <- MCClassOf
    Gauges = {g1}
    TotalTypes = 2
    None = None
    MaxStarts = 2
SPECIFICATION FairSpec
PROPERTIES
    StartedReports
