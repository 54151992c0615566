SPECIFICATION FairSpec
CONSTANTS
  MaxPid = 4
  MaxLines = 2
  MaxActs = 0
  Faults = {"fork"}
  Lines <- ProgressLines
PROPERTY ReturnsToPrompt
