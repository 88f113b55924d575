SPECIFICATION Spec
CONSTANTS
  Requests <- SmallRequests
  Responses <- SmallResponses
  ErrorHead = 2
  BufferSize = 3
INVARIANTS
  IndInv
  IntactUnlessOverlapped
  LengthsHonest
  StoredBodyIsEnd
PROPERTIES
  NoWriteAfterHeaders
