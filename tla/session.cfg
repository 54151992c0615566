SPECIFICATION Spec
CONSTANTS
  MaxPid = 3
  MaxLines = 2
  MaxActs = 1
  Faults = {"fork", "open"}
  Lines <- SessionLines
INVARIANTS TypeOK PipelineJoined StagesConnected OnlyLeftWrites NotInVain OneAtATime RedirectIsOwn
PROPERTIES KeepsOrder
CHECK_DEADLOCK FALSE
