SPECIFICATION Spec
CONSTANTS
  Build = {"b1", "b2"}
  Scenarios <- Parallel
  MaxInode = 5
INVARIANTS ArchiveUsable
