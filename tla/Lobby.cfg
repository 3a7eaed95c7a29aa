CONSTANTS
    h = h
    g = g
    Users = {h, g}
    Hosts = {h}
    Guests = {g}
    Restaurants = {r1}
    Codes = {c1, c2}
    Code = c1
    TimeLimits = {1}
    Radii = {1}
    ErrorResult = ErrorResult
    NoResult = NoResult
    NoDoc = NoDoc
    Unknown = Unknown
    NoCode = NoCode
    Limit <- LobbyLimit
    MaxInbox = 12
    MaxReplies = 10
SPECIFICATION FairSpec
INVARIANTS WatchesItsSession SettledMirrors
PROPERTIES DeletionNoticed
CHECK_DEADLOCK FALSE
