SPECIFICATION LiveSpec
CONSTANTS
  x1 = x1  x2 = x2
  Test = {x1, x2}
  Command = {1}
  NoTest = NoTest
  NoCommand = 0
  TokenGiven = {TRUE, FALSE}
  MaxOpens = 2
  MaxFailures = 1
  MaxPending = 2
INVARIANTS
  OneConnectionPerTest
  NothingIsLost
PROPERTIES
  OpenCommandIsExecuted
CHECK_DEADLOCK FALSE
