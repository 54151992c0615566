SPECIFICATION Spec
CONSTANTS
  MaxPid = 1
  MaxLines = 1
  MaxActs = 0
  Faults = {}
  Lines <- BuiltinIntoFile
INVARIANTS StdioRestored
CHECK_DEADLOCK FALSE
