SPECIFICATION Spec
CONSTANTS
    None = None
    MaxRevision = 5
    Gateways = {g1, g2}
    Operations = {o1, o2, o3}
    Clients = {6, 8}
    Offers <- MCOffers
    Builds = {"Guard"}
    Times = {1, 2}
    Histories <- MCHistories
    MaxSessions = 2
SYMMETRY MCSymmetry
CHECK_DEADLOCK FALSE
INVARIANTS
    JournalIsAccepted
    RunsHaveOneOwner
    AlwaysPlayable
PROPERTIES
    AchievementsAreKept
