CONSTANTS
    h = h
    g = g
    Users = {h, g}
    Hosts = {h}
    Guests = {g}
    Restaurants = {r1, r2}
    Codes = {c1}
    Code = c1
    TimeLimits = {1}
    Radii = {1}
    ErrorResult = ErrorResult
    NoResult = NoResult
    NoDoc = NoDoc
    Unknown = Unknown
    NoCode = NoCode
    Limit <- RoundLimit
    MaxInbox = 2
    MaxReplies = 1
SPECIFICATION Spec
PROPERTIES ResultIsFinal
CHECK_DEADLOCK FALSE
