SPECIFICATION FairSpec
CONSTANTS
  MaxHeaders = 3
  MaxBody = 4
INVARIANTS
  IndInv
  WholeUnlessTimedOut
PROPERTIES
  CallEnds
