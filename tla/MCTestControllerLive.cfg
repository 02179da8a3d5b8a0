SPECIFICATION LiveSpec
CONSTANTS
  UnitCount = 2
  Testlet = {"root", "a"}
  Above <- FlatAbove
  ParentOf <- TinyParentOf
  FirstInBlock = {1, 2}
  MaxTime <- OneTick
  Leave <- AllConfirm
  Coded = {}
  LockScope <- NoScope
  LockConfirm = {}
  Conditional = {}
  DenyIncomplete <- DenyNothing
  ForceTimeRestrictions = TRUE
  ForceNaviRestrictions = TRUE
  SaveResponses = TRUE
  LockTestOnTermination = FALSE
  SilentMode = FALSE
  GivenTime = {1}
  MaxCommands = 1
  MaxLoads = 1
PROPERTIES
  TimerStops
  WaitingComesToAnEnd
CHECK_DEADLOCK FALSE
