SPECIFICATION Spec
CONSTANTS
    ann = ann
    bob = bob
    id1 = id1
    id2 = id2
    Seats <- MCSeats
    Owned <- MCOwned
    IdsOf <- MCIdsOf
    OperationIds = {id1, id2}
    Profiles <- MCProfiles
    Distances <- MCDistances
    None = None
    Steps = {"anchor", "console", "door"}
    DroneDamage = 1
    WardenDamage = 1
    OperationDuration = 2
    PingTTL = 1
    ReviveWindow = 1
    ReviveChannelTime = 1
    ReviveHealth = 2
    MaxReviveDistance = 4
    MaxElapsed = 3
CHECK_DEADLOCK FALSE
INVARIANTS
    MemoryIsStored
    EndsAreTold
PROPERTIES
    AbortsAreExplained
    OperationsEnd
