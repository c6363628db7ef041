\* Up to three items sent by Ebbflow, cut anywhere.
SPECIFICATION Spec
CONSTANTS
    Base = 4
    Width = 2
    Limit = 7
    Junk <- MCJunk
    Traffic <- MCTraffic
    MaxItems = 3
INVARIANTS TypeOK Aligned TrafficIntact
CHECK_DEADLOCK FALSE
