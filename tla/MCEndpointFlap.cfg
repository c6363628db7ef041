\* Two generations, which overlap while the first one drains; the idle limit is
\* capped, and a resolver may answer with no address.
SPECIFICATION Spec
CONSTANTS
    Conns = {c1, c2, c3}
    MaxGen = 2
    MaxConns = 2
    ArgIdleConns = 2
    MAX_IDLE = 1
    ConsiderHealthyThreshold = 1
    ConsiderUnhealthyThreshold = 2
    DnsMayBeEmpty = TRUE
SYMMETRY ConnSymmetry
INVARIANTS TypeOK PermitsConserved CountersExact TasksOwned StreamsBounded HealthGate OneOpenGeneration
PROPERTIES ImplementsPool
CHECK_DEADLOCK FALSE
