CONSTANTS
    Users = {u1, u2, u3}
    Restaurants = {r1, r2, r3}
    ErrorResult = ErrorResult
SPECIFICATION Spec
INVARIANTS TypeOK PicksConsensus TrapsOnlyWithoutMembers
CHECK_DEADLOCK FALSE
