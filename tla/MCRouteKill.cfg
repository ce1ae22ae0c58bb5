SPECIFICATION Spec
CONSTANTS
    rifle = rifle
    sidearm = sidearm
    lance = lance
    caster = caster
    N = 1
    Weapons = {lance}
    Damage <- MCDamage
    OperationIds = {a}
    Budget = 1
    MaxClock = 3
    None = None
SYMMETRY MCSymmetry
CHECK_DEADLOCK FALSE
INVARIANTS
    CompletionIsAccepted
