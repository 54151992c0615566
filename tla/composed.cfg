SPECIFICATION Spec
CONSTANTS
  Alias = {"ll", "ls"}
  Var = {"HOME", "X"}
  Dirs <- MCDirs
  String <- MCString
  Lines <- MCLines
INVARIANTS TypeOK CommandsOwned
PROPERTIES IsInterpreter
CHECK_DEADLOCK FALSE
