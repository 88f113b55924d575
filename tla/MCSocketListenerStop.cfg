SPECIFICATION Spec
CONSTANTS
  Listeners = {l1}
  Ops = {o1, o2}
  Clients = {k1, k2}
INVARIANTS
  StopStops
