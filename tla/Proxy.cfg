\* Two bytes each way through a buffer of two and a window of one: reads, writes
\* and flushes are cut in every way.
SPECIFICATION FairSpec
CONSTANTS
    MaxBytes = 2
    BufSize = 2
    Window = 1
INVARIANTS TypeOK NoLossInside EofComplete
PROPERTIES Delivers Ends
CHECK_DEADLOCK FALSE
