SPECIFICATION Spec
CONSTANTS
    Point = {"a", "b", "c", "f"}
    RecordedAt <- MCRecordedAt
    Place <- MCPlace
    Accurate <- MCAccurate
    KeyOf <- MCKeyOf
    Batches <- MCBatches
    Procs = {p1, p2}
    None = None
    Future = 1
    Stale = 1
    MaxSpeed = 1
    SingleWindow = 1
    BatchWindow = 1
    MaxTime = 1
    MaxRows = 3
    MaxFaults = 1
SYMMETRY MCSymmetry
CHECK_DEADLOCK FALSE
INVARIANTS OneRowPerKey CacheIsNewest
