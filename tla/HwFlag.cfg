SPECIFICATION Spec
CONSTANTS
  Flag <- TextFlags
  Garbage = Garbage
  R = 3
  MaxCount = 3
  MaxDecay = 0
INVARIANTS FlagAsDocumented
