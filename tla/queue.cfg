SPECIFICATION Spec
CONSTANTS
  Data <- MCData
  Addr <- MCAddr
  Null = Null
INVARIANTS Linked NoLeak
PROPERTY IsFifo
