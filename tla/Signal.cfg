\* Three receivers, two sends, then the drop of the sender.
SPECIFICATION FairSpec
CONSTANTS
    Receivers = {r1, r2, r3}
    MaxSends = 2
INVARIANTS TypeOK NoLostWakeup
PROPERTIES ImplementsLatch WaitReturns
CHECK_DEADLOCK FALSE
