\* One command with a limit around the cap or the width of its field.
SPECIFICATION Spec
CONSTANTS
    a = a
    b = b
    Dns = {a, b}
    Procs = {p}
    Commands <- IdleCommands
    Initial <- MCInitial
    Levels = {"debug"}
    Keys = {"k1", "k2"}
    U16 = 65536
    MaxMaxIdle = 1000
    MaxCommands = 1
    IoMayFail = FALSE
    None = None
    Missing = Missing
    Blank = Blank
    Empty = Empty
    Garbled = Garbled
INVARIANT IdleCapped
CHECK_DEADLOCK FALSE
