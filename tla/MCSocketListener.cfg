SPECIFICATION FairSpec
CONSTANTS
  Listeners = {l1}
  Ops = {o1,o2,o3,o4}
  Clients = {k1,k2}
INVARIANTS
  IndInv
  NeverDeaf
  OneAccept
  ThrowsOnlyAfterStop
PROPERTIES
  AcceptedIsHandedOver
