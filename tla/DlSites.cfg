SPECIFICATION FairSpec
CONSTANTS
  Build = {"b1", "b2"}
  Scenarios <- AllScenarios
  MaxInode = 5
INVARIANTS TypeOK TruncatedOnlyDirect
PROPERTIES EventuallyDownloaded
