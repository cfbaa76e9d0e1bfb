SPECIFICATION Spec
CONSTANTS
  Flag <- ByteFlags
  Garbage = Garbage
  R = 2
  MaxCount = 3
  MaxDecay = 1
INVARIANTS TypeOK SurvivesOneLoss
PROPERTIES AtomicStore
