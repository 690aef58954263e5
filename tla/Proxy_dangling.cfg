SPECIFICATION Spec
CONSTANTS
  Connections = {x1, x2}
  Items = {i1, i2}
  Values = {v1, v2}
  Null = Null
  MaxAsks = 1
  MaxDisturbances = 0
INVARIANTS
  NoDanglingAnswer
SYMMETRY MCSymmetry
CHECK_DEADLOCK FALSE
