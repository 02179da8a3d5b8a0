SPECIFICATION Spec
CONSTANTS
  t1 = t1  t2 = t2  t3 = t3  m1 = m1  m2 = m2
  x1 = x1  x2 = x2  g1 = g1  g2 = g2
  TesteeToken = {t1, t2}
  MonitorToken = {m1, m2}
  Test = {x1}
  Group = {g1, g2}
  Unit = {u1, u2}
  TestOf <- MCTestOf
  GroupsOf <- MCGroupsOf
  GroupOf <- MCGroupOf
  MaxConnections = 2
SYMMETRY TokenSymmetry
INVARIANTS
  RegistersAgree
  OneUnitPerSession
  NoticedWithinTwoBeats

  
CHECK_DEADLOCK FALSE
