SPECIFICATION Spec
CONSTANTS
  UnitCount = 3
  Testlet = {"root", "a", "b"}
  Above <- FlatAbove
  ParentOf <- GateParentOf
  FirstInBlock <- GateFirst
  MaxTime <- Untimed
  Leave <- AllConfirm
  Coded = {"a"}
  LockScope <- ATestletBUnit
  LockConfirm = {"a"}
  Conditional = {}
  DenyIncomplete <- DenyInGate
  ForceTimeRestrictions = TRUE
  ForceNaviRestrictions = TRUE
  SaveResponses = TRUE
  LockTestOnTermination = TRUE
  SilentMode = FALSE
  GivenTime = {}
  MaxCommands = 1
  MaxLoads = 2
INVARIANTS
  LeaveLocksHold
  
PROPERTIES
  ReloadKeepsAccess
  
CHECK_DEADLOCK FALSE
