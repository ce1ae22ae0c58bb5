SPECIFICATION Spec
CONSTANTS
  Gateways = {g1, g2}
  Clients = {"Content", "Build"}
  Origins <- MCOrigins
  Wanted = {"ReachLattice"}
  CombineIds = {c1}
  LoadoutIds = {l1}
  Wishes = {"Routes", "Prism"}
  Missions <- MCMissions
  MissionReward = 1
  MaxOperations = 2
  MaxRevision = 2
  MaxSessions = 2
SYMMETRY MCSymmetry
CHECK_DEADLOCK FALSE
INVARIANTS
    BooksAreSound
    EvidenceBreaksOnlyByOverlap
PROPERTIES
    NothingIsTakenBack
