SPECIFICATION FairSpec
CONSTANTS
    Pids = {p1, p2}
    NoPid = NoPid
    Empty = Empty
INVARIANTS OwnedReachable PidFileHonest
PROPERTIES EndNoticed
CHECK_DEADLOCK FALSE
