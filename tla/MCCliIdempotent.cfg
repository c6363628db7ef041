\* One command given --idempotent, on every initial file.
SPECIFICATION Spec
CONSTANTS
    a = a
    b = b
    Dns = {a, b}
    Procs = {p}
    Commands <- IdempotentCommands
    Initial <- MCInitial
    Levels = {"debug"}
    Keys = {"k1", "k2"}
    U16 = 65536
    MaxMaxIdle = 1000
    MaxCommands = 1
    IoMayFail = FALSE
    None = None
    Missing = Missing
    Blank = Blank
    Empty = Empty
    Garbled = Garbled
PROPERTY IdempotentSucceeds
CHECK_DEADLOCK FALSE
