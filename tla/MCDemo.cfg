SPECIFICATION Spec
CONSTANTS
  UnitCount = 3
  Testlet = {"root", "a", "b"}
  Above <- FlatAbove
  ParentOf <- ShortParentOf
  FirstInBlock <- ShortFirst
  MaxTime <- OneTimed
  Leave <- AllConfirm
  Coded = {"b"}
  LockScope <- ATestletBUnit
  LockConfirm = {"a"}
  Conditional = {"b"}
  DenyIncomplete <- DenyInBlocks
  ForceTimeRestrictions = FALSE
  ForceNaviRestrictions = FALSE
  SaveResponses = FALSE
  LockTestOnTermination = FALSE
  SilentMode = FALSE
  GivenTime = {1}
  MaxCommands = 0
  MaxLoads = 2
INVARIANTS
  UnforcedModeClosesNothing
CHECK_DEADLOCK FALSE
