SPECIFICATION StreamSpec
CONSTANTS
  Requests <- SmallRequests
INVARIANTS
  BodyOnMultipleWrite
