SPECIFICATION Spec
CONSTANTS
    rifle = rifle
    sidearm = sidearm
    lance = lance
    caster = caster
    N = 2
    Weapons = {rifle, sidearm}
    Damage <- MCDamage
    OperationIds = {a, b}
    Budget = 2
    MaxClock = 4
    None = None
SYMMETRY MCSymmetry
CHECK_DEADLOCK FALSE
INVARIANTS
    MemoryIsTold
    OneRewardedOperation
    StagesStayInStep
PROPERTIES
    EndsAreSound
