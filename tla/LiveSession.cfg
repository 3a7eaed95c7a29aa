CONSTANTS
    a = a
    b = b
    c = c
    Lists <- TwoLists
    Seconds = 2
    Fingers = 2
    MaxSnapshots = 3
SPECIFICATION FairSpec
INVARIANTS TypeOK NoCardLost
PROPERTIES CountdownEnds
CHECK_DEADLOCK FALSE
