CONSTANTS
    h = h
    g = g
    Users = {h}
    Hosts = {h}
    Guests = {h}
    Restaurants = {r1}
    Codes = {c1}
    Code = c1
    TimeLimits = {1}
    Radii = {1}
    ErrorResult = ErrorResult
    NoResult = NoResult
    NoDoc = NoDoc
    Unknown = Unknown
    NoCode = NoCode
    Limit <- AloneLimit
    MaxInbox = 12
    MaxReplies = 10
SPECIFICATION Spec
INVARIANTS SettledMirrors CountsDownChosenTime
CHECK_DEADLOCK FALSE
