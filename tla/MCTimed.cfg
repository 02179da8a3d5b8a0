SPECIFICATION Spec
CONSTANTS
  UnitCount = 3
  Testlet = {"root", "a", "b"}
  Above <- FlatAbove
  ParentOf <- MiddleParentOf
  FirstInBlock <- ShortFirst
  MaxTime <- TwoTimed
  Leave <- BForbidden
  Coded = {}
  LockScope <- NoScope
  LockConfirm = {}
  Conditional = {}
  DenyIncomplete <- DenyNothing
  ForceTimeRestrictions = TRUE
  ForceNaviRestrictions = TRUE
  SaveResponses = TRUE
  LockTestOnTermination = FALSE
  SilentMode = TRUE
  GivenTime = {1}
  MaxCommands = 2
  MaxLoads = 1
INVARIANTS
  TimerFollowsUnit
  NotLeftInClosedBlock
  TimeLockMeansTimeIsOver
PROPERTIES
  TimeRunsDown
  ForbiddenBlockIsNotLeft
CHECK_DEADLOCK FALSE
