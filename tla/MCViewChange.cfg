CONSTANTS
    v1 = v1
    v2 = v2
    N = 4
    Val <- MCVal
    Gather <- GatherOwn
    Reach <- ReachOverlap
    LateDone = FALSE
    MaxHeight = 1
    LastLeader = 1
    Amnesiac = {}
SPECIFICATION Spec
INVARIANTS CertAgreement StoredCertified
PROPERTIES LockKept
CHECK_DEADLOCK FALSE
