SPECIFICATION StreamSpec
CONSTANTS
  Requests <- SmallRequests
INVARIANTS
  StreamIndInv
  BodyIsSubsequence
  FirstWriteExact
