CONSTANTS
    n1 = n1
    n2 = n2
    Node = {n1, n2}
    Leader = {n1, n2}
    MinHard = 2
    Stuck = {}
    Start <- MCStart
    MaxBlocks = 3
    MaxSync = 2
    MaxFaults = 1
SPECIFICATION Spec
INVARIANTS StoresPrefix HardHolds LockHeld
PROPERTIES Synchronised
CHECK_DEADLOCK FALSE
