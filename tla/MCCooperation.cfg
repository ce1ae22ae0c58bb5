SPECIFICATION Spec
CONSTANTS
    OperationIds = {a, b}
    Profiles <- MCProfiles
    Distances <- MCDistances
    Healths <- MCHealths
    None = None
    OperationDuration = 5
    PingTTL = 2
    ReviveWindow = 3
    ReviveChannelTime = 1
    ReviveHealth = 1
    MaxReviveDistance = 1
    MaxElapsed = 9
INVARIANTS
    StateIsConsistent
    AcceptedInTime
PROPERTIES
    TerminalIsFinal
    DeadlinesDecide
    ImplementsContract
