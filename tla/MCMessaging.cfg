SPECIFICATION Spec
CONSTANTS
    Device = {d1, d2}
    Text = {"keyed", "plain"}
    KeyOf <- MCKeyOf
    KeyId = {1, 2}
    Procs = {p1, p2}
    None = None
    MaxMessages = 2
    MaxBundles = 3
SYMMETRY MCSymmetry
CHECK_DEADLOCK FALSE
INVARIANTS SentOnce PrekeyGivenOnce
