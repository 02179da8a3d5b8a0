SPECIFICATION LiveSpec
CONSTANTS
  u1 = u1
  controller = controller
  progress = progress
  part = part
  Units = {u1}
  TestKeys = {controller}
  UnitKeys = {progress}
  Parts = {part}
  NoUnit = NoUnit
  MaxPuts = 2
  MaxTries = 2
  MaxTroubles = 1
INVARIANTS
  NothingVanishes
PROPERTIES
  ResponsesNeverGoBack
  ResponsesLeaveWithTestee
  EndingComesToAnEnd
CHECK_DEADLOCK FALSE
