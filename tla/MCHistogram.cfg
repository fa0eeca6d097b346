\* kUniform: three threads, a reservoir of two places that overflows.
\* kBiased: a reservoir of two, a threshold of one second, four seconds.
CONSTANTS
    Threads = {t1, t2, t3}
    Values = {1, 2}
    reservoir_size_ = 2
    MaxCount = 4
    None = None
    decay_reservoir_size_ = 2
    RESCALE_THRESHOLD = 2
    Second = 2
    Draws = {0, 1, 4}
    MinKey <- MCMinKey
    MaxTime = 8
    MaxUpdates = 4
SPECIFICATION MCSpec
SYMMETRY MCSymmetry
INVARIANTS
    EveryValueIsKept
    FreePlacesAreClaimed
    CountsAgree
    SizeIsWhatIsHeld
    PrioritiesStayFinite
    KeysAreOfTheirValues
    HoldsTheHeaviest
