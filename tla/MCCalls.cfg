SPECIFICATION FairSpec
CONSTANTS
    Call = {c1}
    Procs = {p1, p2}
    Actor = {"owner"}
    Signal = {"offer1", "offer2", "ice"}
    Sender <- MCSender
    Seq0 <- MCSeq
    SentAt <- MCSentAt
    IsIce <- MCIsIce
    None = None
    RingTime = 1
    ActiveTime = 3
    Skew = 1
    NonceTtl = 2
    SeqTtl = 5
    MaxTime = 3
    MaxSends = 2
    MaxFaults = 1
CHECK_DEADLOCK FALSE
INVARIANTS TypeOK NoReplay RelayOrder SignalsNeedAcceptance
PROPERTIES ImplementsCallOutcome RingingEnds
