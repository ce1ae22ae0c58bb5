SPECIFICATION Spec
CONSTANTS
    None = None
    Kinds = {"lancer", "bulwark", "prism", "bastion_link", "crossed_guard", "support", "signal"}
    Places <- MCPlaces
    Delays = {8, 24}
    Writes = {0, 8}
    Blows = {120}
    Health = 28
    MaxClock <- MCMaxClock
CHECK_DEADLOCK FALSE
INVARIANTS
    MemoryMatchesStream
    WarningsAreFair
    NeverSilent
