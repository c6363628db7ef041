\* Different thresholds: the deque is longer than what one verdict needs.
SPECIFICATION MCSpec
CONSTANTS
    ConsiderHealthyThreshold = 3
    ConsiderUnhealthyThreshold = 2
    MaxChecks = 8
INVARIANT RecentIsNewest
PROPERTY ImplementsVerdict
CHECK_DEADLOCK FALSE
