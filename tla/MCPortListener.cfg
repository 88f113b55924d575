SPECIFICATION FairSpec
CONSTANTS
  Listeners = {l1,l2,l3}
  Ops = {o1,o2,o3}
  Clients = {k1}
  Null = Null
INVARIANTS
  IndInv
  OneAcceptEach
  FaultsOnlyAfterStop
PROPERTIES
  HandlerOfCurrent
  RestartsSettle
CHECK_DEADLOCK FALSE
