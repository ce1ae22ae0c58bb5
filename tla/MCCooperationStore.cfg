SPECIFICATION Spec
CONSTANTS
    OperationIds = {a, b}
    Profiles <- MCProfiles
    Distances <- MCDistances
    None = None
    OperationDuration = 3
    PingTTL = 1
    ReviveWindow = 1
    ReviveChannelTime = 1
    ReviveHealth = 1
    MaxReviveDistance = 1
    MaxElapsed = 4
SYMMETRY MCSymmetry
INVARIANTS
    RowAlwaysLoads
    RowStreamAndGrantsAgree
    LayersAgree
PROPERTIES
    StoredAsAnswered
    ImplementsLedger
