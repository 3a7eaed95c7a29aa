CONSTANTS
    h = h
    g = g
    Users = {h, g}
    Hosts = {h}
    Guests = {g}
    Restaurants = {r1}
    Codes = {c1}
    Code = c1
    TimeLimits = {1}
    Radii = {1}
    ErrorResult = ErrorResult
    NoResult = NoResult
    NoDoc = NoDoc
    Unknown = Unknown
    NoCode = NoCode
    Limit <- RoundLimit
    MaxInbox = 1
    MaxReplies = 2
SPECIFICATION FairSpec
INVARIANTS TypeOK CountersAgree NeverBlank NoTrap
PROPERTIES ResultReached ImplementsLate
CHECK_DEADLOCK FALSE
