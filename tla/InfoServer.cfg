\* Three ports, two status commands, three faults.
SPECIFICATION FairSpec
CONSTANTS
    Ports = {1, 2, 3}
    Clients = {c, d}
    MaxFaults = 3
    None = None
    Missing = Missing
    Empty = Empty
    Garbled = Garbled
INVARIANTS TypeOK FailureHonest
PROPERTY EventuallyServes
