\* Two writes of any configuration or key, one restart; reads and the watcher
\* may fail.
SPECIFICATION FairSpec
CONSTANTS
    a = a
    b = b
    Dns = {a, b}
    Configs <- MCConfigs
    Keys = {k1, k2}
    Ids = {1, 2, 3}
    MaxWrites = 2
    MaxRestarts = 1
    ReadsMayFail = TRUE
    WatcherMayFail = TRUE
    None = None
    Missing = Missing
    Truncated = Truncated
INVARIANTS TypeOK NoOrphans AppliedExactly
PROPERTIES StopsOnlyByConfig StaysInitialized EventuallyApplied StatusServed
