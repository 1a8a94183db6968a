SPECIFICATION Spec
CONSTANTS
    Emergency = {e1, e2}
    Procs = {p1, p2}
    None = None
CHECK_DEADLOCK FALSE
INVARIANT SingleActiveEmergency
