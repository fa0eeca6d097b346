\* One start and stop of a reporter of either class; two names, three types.
CONSTANTS
    Names = {n1, n2}
    Counters = {c1}
    Histograms = {h1}
    Metrics <- MCMetrics
    ClassOf <- MCClassOf
    Gauges = {g1}
    TotalTypes = 3
    None = None
    MaxStarts = 1
SPECIFICATION FairSpec
INVARIANTS
    ConnectionEndsWithReport
    OneReportAtATime
    ReportCoversStable
PROPERTIES
    StopReturns
    StartedReports
