CONSTANTS
    v1 = v1
    v2 = v2
    N = 4
    Val <- MCVal
    Gather <- GatherNew
    Reach <- ReachLater
    LateDone = FALSE
    MaxHeight = 3
    LastLeader = 0
    Amnesiac = {3}
SPECIFICATION Spec
INVARIANTS ChainAgreement
PROPERTIES ImplementsLedger
CHECK_DEADLOCK FALSE
