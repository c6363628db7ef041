\* Two shells, every command, two of them in any interleaving; failing writes
\* and kills.
SPECIFICATION FairSpec
CONSTANTS
    a = a
    b = b
    Dns = {a, b}
    Procs = {p, q}
    Commands <- AllCommands
    Initial <- MCInitial
    Levels = {"debug"}
    Keys = {"k1", "k2"}
    U16 = 65536
    MaxMaxIdle = 1000
    MaxCommands = 2
    IoMayFail = TRUE
    None = None
    Missing = Missing
    Blank = Blank
    Empty = Empty
    Garbled = Garbled
INVARIANTS TypeOK UniqueNames Serializable
PROPERTIES ExitHonest CommandsEnd
CHECK_DEADLOCK FALSE
