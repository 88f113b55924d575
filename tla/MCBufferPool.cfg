SPECIFICATION Spec
CONSTANTS
  Args = {a1, a2, a3, a4, a5}
  NumberOfBuffers = 4
  NoBuffer = NoBuffer
INVARIANTS
  IndInv
PROPERTIES
  ImplementsAllocator
