CONSTANTS
    h = h
    g = g
    Users = {h}
    Hosts = {h}
    Guests = {h}
    Restaurants = {}
    Codes = {c1}
    Code = c1
    TimeLimits = {1}
    Radii = {1}
    ErrorResult = ErrorResult
    NoResult = NoResult
    NoDoc = NoDoc
    Unknown = Unknown
    NoCode = NoCode
    Limit <- SecondLimit
    MaxInbox = 1
    MaxReplies = 1
SPECIFICATION Spec
INVARIANTS FinishedCountsAll
CHECK_DEADLOCK FALSE
