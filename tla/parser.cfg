SPECIFICATION Spec
CONSTANTS
  Letter <- MCLetter
  Lines <- MCLines
  BufSize = 3
  Null = Null
INVARIANTS TypeOK OwnedOnce CommandThere Parsed PrefixKept
CHECK_DEADLOCK FALSE
