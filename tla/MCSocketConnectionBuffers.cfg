SPECIFICATION Spec
CONSTANTS
  Connections = {c1,c2}
  Args = {a1,a2}
  NoBuffer = NoBuffer
  Null = Null
SYMMETRY Symmetry
INVARIANTS
  ReceiveBuffersExclusive
