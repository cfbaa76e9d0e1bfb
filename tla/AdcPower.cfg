SPECIFICATION Spec
CONSTANTS
  Chan = {c1, c2}
  Reader = {r1, r2, r3}
  MaxCount = 1
SYMMETRY Symmetric
INVARIANTS Powered OffWhenUnused
PROPERTIES FreshSample
