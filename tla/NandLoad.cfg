SPECIFICATION FairSpec
CONSTANTS
  NBlocks = 4
  PPB = 2
  Start = 2
  ImageLen = 3
  Retries = 2
  MaxWeak = 1
  MaxFaults = 4
INVARIANTS TypeOK ReadBack ReadInOrder OffEndOnlyWhenShort CheckVerdict
PROPERTIES CallsEnd
