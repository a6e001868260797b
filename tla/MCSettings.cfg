CONSTANTS
  Op = {o1, o2, o3}
  MaxSets = 2
  None = None
  Torn = Torn
SPECIFICATION Spec
SYMMETRY Symmetry
INVARIANTS WithinCall
CHECK_DEADLOCK FALSE
