SPECIFICATION Spec
CONSTANTS
  Bytes <- MCBytes
  MaxLen = 2
  W = 16
  XOR <- MCXor
  High <- MCHigh
INVARIANTS HashAgrees EqualIsEqual Ordered
CHECK_DEADLOCK FALSE
