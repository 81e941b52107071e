SPECIFICATION Spec
CONSTANTS
  Requests = {r1, r2}
  MaxConns = 2
SYMMETRY RequestSymmetry
INVARIANTS
  StructuredJsonOnly
CHECK_DEADLOCK FALSE
