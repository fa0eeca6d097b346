\* A snapshot meets an update that has taken its place.
CONSTANTS
    Threads = {t1, t2, t3}
    Values = {1, 2}
    reservoir_size_ = 2
    MaxCount = 4
    None = None
SPECIFICATION Spec
INVARIANTS
    SnapshotIsOfRecordedValues
