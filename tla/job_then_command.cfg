SPECIFICATION Spec
CONSTANTS
  MaxPid = 2
  MaxLines = 2
  MaxActs = 0
  Faults = {}
  Lines <- JobThenCommand
INVARIANTS NothingInForeground
CHECK_DEADLOCK FALSE
