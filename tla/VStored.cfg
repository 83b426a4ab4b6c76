CONSTANTS
    v1 = v1
    v2 = v2
    N = 4
    Val <- MCVal
    Gather <- GatherOne
    Reach <- ReachFollowers
    LateDone = TRUE
    MaxHeight = 1
    LastLeader = 1
    Amnesiac = {3}
SPECIFICATION Spec
INVARIANTS StoredCertified
CONSTRAINT Patient
CHECK_DEADLOCK FALSE
