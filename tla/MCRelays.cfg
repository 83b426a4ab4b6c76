CONSTANTS
    r = r
    a = a
    b = b
    u = u
    v = v
    w = w
    m1 = m1
    m2 = m2
    Orch = Orch
    Root = r
    Player = {r, a, b, u, v, w}
    Height = 2
    MinNumChildren = 1
    Msg = {m1, m2}
    Source <- MCSource
    Plan <- MCPlan
    Full = {r}
    Failing = {a}
    Overlap = FALSE
    MaxFaults = 1
SPECIFICATION Spec
INVARIANTS NoSilentLoss ErrsFit Counted ActiveKeptOnce OnePlace NoneStuck
CHECK_DEADLOCK FALSE
