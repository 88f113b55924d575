SPECIFICATION FairSpec
CONSTANTS
  Connections = {c1,c2}
  Args = {a1,a2,a3,a4}
  NoBuffer = NoBuffer
  Null = Null
INVARIANTS
  IndInv
  ArgsConserved
  BuffersAccounted
  BufferNeverExhausted
  OnlyFirstBufferShared
PROPERTIES
  RequestsEnd
  PoolRefills
