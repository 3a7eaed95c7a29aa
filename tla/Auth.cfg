CONSTANTS
    Accounts = {alice, bob}
    Nobody = Nobody
    Never = Never
    MaxRequests = 3
    MaxListeners = 2
    MaxRestarts = 1
SPECIFICATION FairSpec
INVARIANTS TypeOK ShowsCurrentUser
PROPERTIES ScreenFollowsUser
CHECK_DEADLOCK FALSE
