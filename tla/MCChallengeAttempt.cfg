SPECIFICATION Spec
CONSTANTS
    None = None
    MaxRevision = 9
    MaxHealth = 48
    Blow = 100
    Strike = 30
    Reach = 100
    Cooldown = 1
    Offers <- MCOffers
    Corridor <- MCCorridor
    Delays = {0, 2, 3}
    MaxTime <- MCMaxTime
CHECK_DEADLOCK FALSE
INVARIANTS
    StreamIsAccepted
    MemoryMatchesStream
    PainAndReliefAreRationed
PROPERTIES
    HoldsAreContinuous
