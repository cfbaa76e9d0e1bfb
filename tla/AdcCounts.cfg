SPECIFICATION FairSpec
CONSTANTS
  Chan = {c1, c2}
  Reader = {}
  MaxCount = 2
INVARIANTS TypeOK RefCountExact IrqBalanced
PROPERTIES CallsReturn
