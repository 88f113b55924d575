SPECIFICATION FairSpec
CONSTANTS
  Connections = {c1, c2}
  Ids = {i1, i2}
  n1 = n1
  n2 = n2
  h1 = h1
  h12 = h12
  Names = {n1, n2}
  Hosts = {h1, h12}
  Contains <- MCContains
  Paths = {good, bad}
  Malformed = {bad}
  MaxSessions = 1
  Null = Null
  Error = Error
INVARIANTS
  IndInv
PROPERTIES
  OwnSiteUnlessRenamed
  RefusedOnlyIfNewer
  ServesIffValid
  RefusedOnlyAfterLeaks
  ImplementsHostRouting
  RequestAnswered
