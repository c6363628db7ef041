\* Progress of two overlapping generations, each with two connections and one
\* idle permit (no symmetry: temporal properties).
SPECIFICATION FairSpec
CONSTANTS
    Conns = {c1, c2}
    MaxGen = 2
    MaxConns = 2
    ArgIdleConns = 1
    MAX_IDLE = 5
    ConsiderHealthyThreshold = 1
    ConsiderUnhealthyThreshold = 1
    DnsMayBeEmpty = FALSE
PROPERTIES StopDrains AttemptResolves KeepsOffering
CHECK_DEADLOCK FALSE
