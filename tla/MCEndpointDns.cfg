\* The resolver may answer with an empty list of addresses.
SPECIFICATION Spec
CONSTANTS
    Conns = {c1, c2}
    MaxGen = 2
    MaxConns = 1
    ArgIdleConns = 1
    MAX_IDLE = 5
    ConsiderHealthyThreshold = 1
    ConsiderUnhealthyThreshold = 1
    DnsMayBeEmpty = TRUE
INVARIANT AcceptLoopRuns
CHECK_DEADLOCK FALSE
