SPECIFICATION LiveSpec
CONSTANTS
  s1 = s1
  s2 = s2
  u1 = u1
  u2 = u2
  u3 = u3
  Session = {s1, s2}
  Alias = {u1, u2, u3}
  NoUnit = NoUnit
  Nobody = Nobody
  FirstUnit <- MCFirstUnit
  Broken = {}
  Timed = {1}
  Filter = {"quick"}
  QuickHides = {s2}
  MaxChanges = 1
  MaxCommands = 1
INVARIANTS
  ChecksAreSound
  

  
  
CHECK_DEADLOCK FALSE
