SPECIFICATION Spec
CONSTANTS
  MaxRevision = 26
  Gateways = {g1, g2}
  Origins <- MCOrigins
  MaxEntries = 2
  Recent = 1
  StoryOps = {1}
SYMMETRY MCSymmetry
CHECK_DEADLOCK FALSE
INVARIANTS
    JournalIsSound
    HonestStepsAreSaved
PROPERTIES
    ProgressIsKept
