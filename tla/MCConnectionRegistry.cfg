SPECIFICATION Spec
CONSTANTS
  Connections = {c1,c2,c3,c4}
  Null = Null
SYMMETRY Symmetry
INVARIANTS
  ListExact
  CountExact
PROPERTIES
  ListFailsOnlyWhenRaced
CHECK_DEADLOCK FALSE
