SPECIFICATION FairSpec
CONSTANTS
  MaxPid = 3
  MaxLines = 1
  MaxActs = 0
  Faults = {}
  Lines <- PipeThenMore
PROPERTY ReturnsToPrompt
CHECK_DEADLOCK FALSE
