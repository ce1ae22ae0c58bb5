SPECIFICATION Spec
CONSTANTS
    c1 = c1
    c2 = c2
    c3 = c3
    a1 = a1
    a2 = a2
    Connections = {c1, c2, c3}
    Accounts = {a1, a2}
    AccountOf <- MCAccountOf
    Current = {c1, c2}
    ExpectedPlayers = 2
    MaxConnections = 2
    MaxUnauthenticated = 1
CHECK_DEADLOCK FALSE
INVARIANTS
    LimitsHold
    SessionFollowsSeats
PROPERTIES
    SeatsAreRightful
