SPECIFICATION Spec
CONSTANTS
  User <- Names
  Group <- GroupNames
  MIN_UID = 3
  MAX_UID = 4
  MIN_GID = 3
  MAX_GID = 4
  Tables <- TwoRows
  Skeletons <- Targets
  MaxRuns = 4
INVARIANTS TypeOK UniqueIds TableHonoured
PROPERTIES RerunStable
CHECK_DEADLOCK FALSE
