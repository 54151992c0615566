SPECIFICATION Spec
CONSTANTS
  Char <- MCChar
  Space = " "
  Name <- MCName
  Value <- MCValue
  Command <- MCCommand
  BufSize = 5
INVARIANTS Released ShortFits
PROPERTIES ExpansionEnds IsRewriting
CHECK_DEADLOCK FALSE
