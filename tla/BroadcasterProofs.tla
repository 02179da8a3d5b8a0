----------------------------- MODULE BroadcasterProofs -----------------------------
(* Theorems about the broadcaster, for any tokens, tests, groups and units.  Each      *)
(* safety property is a conjunct of an inductive invariant, or follows from one.       *)
EXTENDS Broadcaster, TLAPS

USE DEF gateway, services, history, vars

\* The records that mergeSessionChanges makes are sessions.
LEMMA MergeType ==
  ASSUME NEW session \in Session, NEW u \in Unit \cup {NoUnit}
  PROVE  Merge(session, u, IF u = NoUnit THEN {} ELSE {u}) \in Session
  BY UnitAssumption DEF Merge, Session

LEMMA EmptyCacheType == EmptyCache \in [Test -> Session]
  BY DEF EmptyCache, UnknownSession, Session

\* Removing registrations keeps the types of the services.
LEMMA RemoveType ==
  ASSUME TypeOK, NEW T, RemoveRegistrations(T)
  PROVE  /\ testees' \subseteq testees
         /\ monitors' \in [Group -> SUBSET (issued \cap MonitorToken)]
         /\ cachedGroups' \subseteq Group
         /\ testSessions' \in [Group -> [Test -> Session]]
  BY EmptyCacheType DEF TypeOK, RemoveRegistrations

\* Disconnecting keeps the types of the gateway.
LEMMA DisconnectType ==
  ASSUME TypeOK, NEW T, DisconnectClients(T)
  PROVE  /\ allowedTokens' \subseteq issued /\ overdue' \subseteq allowedTokens'
         /\ clients' \subseteq issued /\ isAlive' \subseteq clients'
         /\ terminated' \subseteq clients' /\ vanished' \subseteq clients'
         /\ beatsGone' \in [Token -> 0..2]
  BY DEF TypeOK, DisconnectClients

\* The type invariant of the gateway and the services.
THEOREM TypeCorrect == Spec => []TypeOK
<1>1. Init => TypeOK
  BY EmptyCacheType DEF Init, TypeOK
<1>2. TypeOK /\ [Next]_vars => TypeOK'
  <2> SUFFICES ASSUME TypeOK, [Next]_vars PROVE TypeOK'
    OBVIOUS
  <2>1. ASSUME NEW t \in TesteeToken, AddTestee(t) PROVE TypeOK'
    BY <2>1 DEF TypeOK, AddTestee, AllowToken, Token
  <2>2. ASSUME NEW t \in TesteeToken, RemoveTestee(t) PROVE TypeOK'
    BY <2>2, DisconnectType DEF TypeOK, RemoveTestee
  <2>3. ASSUME NEW m \in MonitorToken, AddMonitor(m) PROVE TypeOK'
    BY <2>3, DirectoryAssumption DEF TypeOK, AddMonitor, AllowToken, Token
  <2>4. ASSUME NEW m \in MonitorToken, RemoveMonitor(m) PROVE TypeOK'
    BY <2>4, DisconnectType, RemoveType DEF TypeOK, RemoveMonitor
  <2>5. ASSUME NEW t \in Token, HandleConnection(t) PROVE TypeOK'
    BY <2>5 DEF TypeOK, HandleConnection
  <2>6. ASSUME NEW t \in Token, Vanish(t) PROVE TypeOK'
    BY <2>6 DEF TypeOK, Vanish
  <2>7. ASSUME NEW t \in Token, Pong(t) PROVE TypeOK'
    BY <2>7 DEF TypeOK, Pong
  <2>8. ASSUME NEW t \in Token, HandleDisconnect(t) PROVE TypeOK'
    BY <2>8, DisconnectType, RemoveType DEF TypeOK, HandleDisconnect
  <2>9. CASE Heartbeat
    BY <2>9, RemoveType DEF TypeOK, Heartbeat, Expired
  <2>10. ASSUME NEW x \in Test, NEW u \in Unit \cup {NoUnit}, ApplySessionChange(x, u)
         PROVE  TypeOK'
    <3>1. testSessions' \in [Group -> [Test -> Session]]
      BY <2>10, DirectoryAssumption, MergeType DEF TypeOK, ApplySessionChange
    <3> QED
      BY <2>10, <3>1 DEF TypeOK, ApplySessionChange
  <2>11. CASE ServerError
    BY <2>11, DisconnectType DEF TypeOK, ServerError
  <2>12. CASE Clean
    BY <2>12, DisconnectType, EmptyCacheType DEF TypeOK, Clean, Monitoring
  <2>13. CASE UNCHANGED vars
    BY <2>13 DEF TypeOK
  <2> QED
    BY <2>1, <2>2, <2>3, <2>4, <2>5, <2>6, <2>7, <2>8, <2>9, <2>10, <2>11, <2>12, <2>13 DEF Next
<1> QED
  BY <1>1, <1>2, PTL DEF Spec

----------------------------------------------------------------------------------
\* CacheIffMonitored depends on the removal of registrations only in what goes together
\* with them: the caches of the groups that lose their last monitor.
LEMMA RemoveKeepsCache ==
  ASSUME TypeOK, CacheIffMonitored, NEW T, RemoveRegistrations(T)
  PROVE  CacheIffMonitored'
<1> DEFINE orphaned == {g \in Group : monitors[g] \cap T # {} /\ monitors[g] \subseteq T}
<1>1. /\ cachedGroups' = cachedGroups \ orphaned
      /\ monitors' = [g \in Group |-> monitors[g] \ T]
      /\ testSessions' = [g \in Group |-> IF g \in orphaned THEN EmptyCache ELSE testSessions[g]]
  BY DEF RemoveRegistrations
<1>2. \A g \in Group : g \in cachedGroups' <=> monitors'[g] # {}
  BY <1>1 DEF CacheIffMonitored
<1>3. \A g \in Group \ cachedGroups' : testSessions'[g] = EmptyCache
  BY <1>1 DEF CacheIffMonitored
<1>4. EmptyCache' = EmptyCache
  BY DEF EmptyCache
<1>5. cachedGroups' \subseteq Group
  BY <1>1 DEF TypeOK
<1> QED
  BY <1>2, <1>3, <1>4, <1>5 DEF CacheIffMonitored

\* A group has a session cache exactly while it has a monitor.
THEOREM CacheCorrect == Spec => []CacheIffMonitored
<1>1. Init => CacheIffMonitored
  BY DEF Init, CacheIffMonitored
<1>2. TypeOK /\ CacheIffMonitored /\ [Next]_vars => CacheIffMonitored'
  <2> SUFFICES ASSUME TypeOK, CacheIffMonitored, [Next]_vars PROVE CacheIffMonitored'
    OBVIOUS
  <2>0. EmptyCache' = EmptyCache
    BY DEF EmptyCache
  <2>1. ASSUME NEW m \in MonitorToken, AddMonitor(m) PROVE CacheIffMonitored'
    <3>1. GroupsOf[m] \subseteq Group
      BY DirectoryAssumption
    <3> QED
      BY <2>0, <2>1, <3>1 DEF CacheIffMonitored, AddMonitor, TypeOK
  <2>2. ASSUME NEW m \in MonitorToken, RemoveMonitor(m) PROVE CacheIffMonitored'
    BY <2>2, RemoveKeepsCache DEF RemoveMonitor
  <2>3. ASSUME NEW t \in Token, HandleDisconnect(t) PROVE CacheIffMonitored'
    BY <2>3, RemoveKeepsCache DEF HandleDisconnect
  <2>4. CASE Heartbeat
    BY <2>4, RemoveKeepsCache DEF Heartbeat
  <2>5. ASSUME NEW x \in Test, NEW u \in Unit \cup {NoUnit}, ApplySessionChange(x, u)
        PROVE  CacheIffMonitored'
    BY <2>0, <2>5 DEF CacheIffMonitored, ApplySessionChange, TypeOK
  <2>6. CASE Clean
    BY <2>0, <2>6 DEF CacheIffMonitored, Clean
  <2>7. CASE UNCHANGED <<monitors, cachedGroups, testSessions>>
    BY <2>0, <2>7 DEF CacheIffMonitored
  <2> QED
    BY <2>1, <2>2, <2>3, <2>4, <2>5, <2>6, <2>7
    DEF Next, AddTestee, RemoveTestee, HandleConnection, Vanish, Pong, ServerError
<1> QED
  BY <1>1, <1>2, TypeCorrect, PTL DEF Spec

----------------------------------------------------------------------------------
\* Who may connect is known, and who is known may connect: the gateway and the services
\* give up a token together.
Owners == AllowedHaveOwner /\ RegisteredCanConnect

THEOREM OwnersCorrect == Spec => []Owners
<1>1. Init => Owners
  BY DEF Init, Owners, AllowedHaveOwner, RegisteredCanConnect, Monitoring
<1>2. TypeOK /\ Owners /\ [Next]_vars => Owners'
  <2> SUFFICES ASSUME TypeOK, Owners, [Next]_vars PROVE Owners'
    OBVIOUS
  <2> USE DEF Owners, AllowedHaveOwner, RegisteredCanConnect, Monitoring, TypeOK
  <2>1. ASSUME NEW t \in TesteeToken, AddTestee(t) PROVE Owners'
    BY <2>1 DEF AddTestee, AllowToken
  <2>2. ASSUME NEW t \in TesteeToken, RemoveTestee(t) PROVE Owners'
    BY <2>2, TokenAssumption DEF RemoveTestee, DisconnectClients
  <2>3. ASSUME NEW m \in MonitorToken, AddMonitor(m) PROVE Owners'
    <3>1. PICK h \in Group : h \in GroupsOf[m]
      <4>1. GroupsOf[m] \in (SUBSET Group) \ {{}}
        BY DirectoryAssumption
      <4> QED
        BY <4>1
    <3>2. m \in monitors'[h]
      BY <2>3, <3>1 DEF AddMonitor
    <3>3. \A g \in Group : monitors[g] \subseteq monitors'[g] /\ monitors'[g] \subseteq monitors[g] \cup {m}
      BY <2>3 DEF AddMonitor
    <3> QED
      BY <2>3, <3>2, <3>3 DEF AddMonitor, AllowToken
  <2>4. ASSUME NEW m \in MonitorToken, RemoveMonitor(m) PROVE Owners'
    BY <2>4 DEF RemoveMonitor, RemoveRegistrations, DisconnectClients
  <2>5. ASSUME NEW t \in Token, HandleConnection(t) PROVE Owners'
    BY <2>5 DEF HandleConnection
  <2>6. ASSUME NEW t \in Token, Vanish(t) \/ Pong(t) PROVE Owners'
    BY <2>6 DEF Vanish, Pong
  <2>7. ASSUME NEW t \in Token, HandleDisconnect(t) PROVE Owners'
    BY <2>7 DEF HandleDisconnect, RemoveRegistrations, DisconnectClients
  <2>8. CASE Heartbeat
    BY <2>8 DEF Heartbeat, Expired, RemoveRegistrations
  <2>9. ASSUME NEW x \in Test, NEW u \in Unit \cup {NoUnit}, ApplySessionChange(x, u)
        PROVE  Owners'
    BY <2>9 DEF ApplySessionChange
  <2>10. CASE ServerError
    BY <2>10 DEF ServerError, DisconnectClients
  <2>11. CASE Clean
    BY <2>11 DEF Clean, DisconnectClients
  <2>12. CASE UNCHANGED vars
    BY <2>12
  <2> QED
    BY <2>1, <2>2, <2>3, <2>4, <2>5, <2>6, <2>7, <2>8, <2>9, <2>10, <2>11, <2>12 DEF Next
<1> QED
  BY <1>1, <1>2, TypeCorrect, PTL DEF Spec

\* A token that may connect belongs to a registered testee or monitor.
THEOREM AllowedCorrect == Spec => []AllowedHaveOwner
  BY OwnersCorrect, PTL DEF Owners

\* A registered testee or monitor may connect.
THEOREM RegisteredCorrect == Spec => []RegisteredCanConnect
  BY OwnersCorrect, PTL DEF Owners

----------------------------------------------------------------------------------
\* The unit state of a session, shown or not, belongs to the unit named last.
OneUnit(session) == session.unitState \subseteq {session.unitName}
OneUnitEverywhere == \A g \in Group, x \in Test : OneUnit(testSessions[g][x])

LEMMA EmptyCacheOneUnit == \A x \in Test : OneUnit(EmptyCache[x])
  BY DEF EmptyCache, UnknownSession, OneUnit

\* What a change leaves behind names the unit its entries belong to, whatever was there.
LEMMA MergeOneUnit ==
  ASSUME NEW session \in Session, OneUnit(session), NEW u \in Unit \cup {NoUnit}
  PROVE  OneUnit(Merge(session, u, IF u = NoUnit THEN {} ELSE {u}))
  BY DEF OneUnit, Merge

LEMMA RemoveKeepsOneUnit ==
  ASSUME TypeOK, OneUnitEverywhere, NEW T, RemoveRegistrations(T)
  PROVE  OneUnitEverywhere'
  BY EmptyCacheOneUnit DEF OneUnitEverywhere, RemoveRegistrations, OneUnit

\* The unit state shown for a session belongs to one unit, the one named last.
THEOREM OneUnitCorrect == Spec => []OneUnitPerSession
<1>1. Init => OneUnitEverywhere
  BY EmptyCacheOneUnit DEF Init, OneUnitEverywhere
<1>2. TypeOK /\ OneUnitEverywhere /\ [Next]_vars => OneUnitEverywhere'
  <2> SUFFICES ASSUME TypeOK, OneUnitEverywhere, [Next]_vars PROVE OneUnitEverywhere'
    OBVIOUS
  <2>1. ASSUME NEW m \in MonitorToken, RemoveMonitor(m) PROVE OneUnitEverywhere'
    BY <2>1, RemoveKeepsOneUnit DEF RemoveMonitor
  <2>2. ASSUME NEW t \in Token, HandleDisconnect(t) PROVE OneUnitEverywhere'
    BY <2>2, RemoveKeepsOneUnit DEF HandleDisconnect
  <2>3. CASE Heartbeat
    BY <2>3, RemoveKeepsOneUnit DEF Heartbeat
  <2>4. ASSUME NEW x \in Test, NEW u \in Unit \cup {NoUnit}, ApplySessionChange(x, u)
        PROVE  OneUnitEverywhere'
    <3> DEFINE g == GroupOf[x]
               merged == Merge(testSessions[g][x], u, IF u = NoUnit THEN {} ELSE {u})
    <3>1. g \in Group /\ testSessions[g][x] \in Session
      BY DirectoryAssumption DEF TypeOK
    <3>2. OneUnit(merged)
      BY <3>1, MergeOneUnit DEF OneUnitEverywhere
    <3>3. testSessions' = [testSessions EXCEPT ![g] = [@ EXCEPT ![x] = merged]]
      BY <2>4, <3>1 DEF ApplySessionChange, TypeOK
    <3>4. ASSUME NEW h \in Group, NEW y \in Test
          PROVE  \/ testSessions'[h][y] = testSessions[h][y]
                 \/ testSessions'[h][y] = merged
      BY <3>1, <3>3 DEF TypeOK
    <3> HIDE DEF merged
    <3> QED
      BY <3>2, <3>4 DEF OneUnitEverywhere, OneUnit
  <2>5. CASE Clean
    BY <2>5, EmptyCacheOneUnit DEF OneUnitEverywhere, Clean, OneUnit
  <2>6. CASE UNCHANGED testSessions
    BY <2>6 DEF OneUnitEverywhere, OneUnit
  <2> QED
    BY <2>1, <2>2, <2>3, <2>4, <2>5, <2>6
    DEF Next, AddTestee, RemoveTestee, AddMonitor, HandleConnection, Vanish, Pong, ServerError
<1>3. TypeOK /\ OneUnitEverywhere => OneUnitPerSession
  BY DEF TypeOK, OneUnitEverywhere, OneUnitPerSession, OneUnit
<1> QED
  BY <1>1, <1>2, <1>3, TypeCorrect, PTL DEF Spec

----------------------------------------------------------------------------------
\* What a heartbeat knows of a client that went silent: after the first one it is not
\* alive any more and cannot become so, at the second one it is terminated.
Silence ==
  \A t \in Token :
    /\ t \notin vanished => beatsGone[t] = 0
    /\ beatsGone[t] # 0 => t \notin isAlive
    /\ beatsGone[t] = 2 => t \in terminated

LEMMA DisconnectKeepsSilence ==
  ASSUME TypeOK, Silence, NEW T, DisconnectClients(T)
  PROVE  Silence'
  BY DEF TypeOK, Silence, DisconnectClients

\* A silent socket is given up at the second heartbeat.
THEOREM NoticedCorrect == Spec => []NoticedWithinTwoBeats
<1>1. Init => Silence
  BY DEF Init, Silence
<1>2. TypeOK /\ Silence /\ [Next]_vars => Silence'
  <2> SUFFICES ASSUME TypeOK, Silence, [Next]_vars PROVE Silence'
    OBVIOUS
  <2>1. ASSUME NEW t \in TesteeToken, RemoveTestee(t) PROVE Silence'
    BY <2>1, DisconnectKeepsSilence DEF RemoveTestee
  <2>2. ASSUME NEW m \in MonitorToken, RemoveMonitor(m) PROVE Silence'
    BY <2>2, DisconnectKeepsSilence DEF RemoveMonitor
  <2>3. ASSUME NEW t \in Token, HandleConnection(t) PROVE Silence'
    BY <2>3 DEF HandleConnection, Silence, TypeOK
  <2>4. ASSUME NEW t \in Token, Vanish(t) PROVE Silence'
    BY <2>4 DEF Vanish, Silence, TypeOK
  <2>5. ASSUME NEW t \in Token, Pong(t) PROVE Silence'
    BY <2>5 DEF Pong, Silence, TypeOK
  <2>6. ASSUME NEW t \in Token, HandleDisconnect(t) PROVE Silence'
    BY <2>6, DisconnectKeepsSilence DEF HandleDisconnect
  <2>7. CASE Heartbeat
    <3> SUFFICES ASSUME NEW t \in Token
                 PROVE  /\ t \notin vanished' => beatsGone'[t] = 0
                        /\ beatsGone'[t] # 0 => t \notin isAlive'
                        /\ beatsGone'[t] = 2 => t \in terminated'
      BY DEF Silence
    <3>1. CASE t \notin vanished
      BY <2>7, <3>1 DEF Heartbeat, Silence, TypeOK
    <3>2. CASE t \in vanished /\ beatsGone[t] = 0
      BY <2>7, <3>2 DEF Heartbeat, TypeOK
    <3>3. CASE t \in vanished /\ beatsGone[t] # 0
      BY <2>7, <3>3 DEF Heartbeat, Silence, TypeOK
    <3> QED
      BY <3>1, <3>2, <3>3
  <2>8. CASE ServerError
    BY <2>8, DisconnectKeepsSilence DEF ServerError
  <2>9. CASE Clean
    BY <2>9, DisconnectKeepsSilence DEF Clean
  <2>10. CASE UNCHANGED <<vanished, beatsGone, isAlive, terminated>>
    BY <2>10 DEF Silence
  <2> QED
    BY <2>1, <2>2, <2>3, <2>4, <2>5, <2>6, <2>7, <2>8, <2>9, <2>10
    DEF Next, AddTestee, AddMonitor, AllowToken, ApplySessionChange
<1>3. TypeOK /\ Silence => NoticedWithinTwoBeats
  BY DEF TypeOK, Silence, NoticedWithinTwoBeats, Token
<1> QED
  BY <1>1, <1>2, <1>3, TypeCorrect, PTL DEF Spec

----------------------------------------------------------------------------------
\* A connection-lost signal is never posted for a test that has another live socket.
THEOREM SignalCorrect == Spec => NoSignalWhileConnected
<1> DEFINE Quiet == \A t \in lostSignals' \ lostSignals :
                      \A o \in clients' \cap testees' : TestOf[o] # TestOf[t]
<1>1. [Next]_vars => [Quiet]_vars
  <2> SUFFICES ASSUME Next PROVE Quiet
    OBVIOUS
  <2>1. ASSUME NEW t \in Token, HandleDisconnect(t) PROVE Quiet
    <3>1. clients' = clients \ {t} /\ testees' = testees \ {t}
      BY <2>1 DEF HandleDisconnect, RemoveRegistrations, DisconnectClients
    <3>2. CASE IsTestConnectedElsewhere(t)
      BY <2>1, <3>2 DEF HandleDisconnect
    <3>3. CASE ~IsTestConnectedElsewhere(t)
      BY <2>1, <3>1, <3>3 DEF HandleDisconnect, IsTestConnectedElsewhere
    <3> QED
      BY <3>2, <3>3
  <2>2. CASE UNCHANGED lostSignals
    BY <2>2
  <2> QED
    BY <2>1, <2>2
    DEF Next, AddTestee, RemoveTestee, AddMonitor, RemoveMonitor, HandleConnection, Vanish, Pong,
        Heartbeat, ApplySessionChange, ServerError, Clean
<1> QED
  BY <1>1, PTL DEF Spec, NoSignalWhileConnected

----------------------------------------------------------------------------------
\* The registers of the gateway and of the services agree about who is there.
THEOREM RegistersCorrect == Spec => []RegistersAgree
BY TypeCorrect, CacheCorrect, AllowedCorrect, RegisteredCorrect, PTL DEF RegistersAgree
=============================================================================
