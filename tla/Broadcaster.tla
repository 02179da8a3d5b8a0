------------------------------- MODULE Broadcaster -------------------------------
(* The broadcaster (src/broadcaster): the WebSocket gateway, the register of     *)
(* testees and the register of monitors with its cache of test sessions.  All    *)
(* three live in one Node process and call each other synchronously, so every    *)
(* HTTP request, socket event and timer tick is one atomic step here.            *)
EXTENDS Naturals, FiniteSets

CONSTANTS
  TesteeToken,    \* tokens the backend draws for testees (Random::string: never reused)
  MonitorToken,   \* tokens the backend draws for monitors
  Test, Group, Unit,
  TestOf,         \* testee token -> the test it was registered for
  GroupsOf,       \* monitor token -> the groups it was registered for
  GroupOf,        \* test -> the group of its session
  MaxConnections  \* WebsocketGateway.MAX_CONNECTIONS

Token == TesteeToken \cup MonitorToken

NoUnit == "no unit"

\* What the cache knows of one test session: the unit named last and the units
\* whose unit-state entries are in the record.  known is FALSE before the first change.
Session == [known : BOOLEAN, unitName : Unit \cup {NoUnit}, unitState : SUBSET Unit]
UnknownSession == [known |-> FALSE, unitName |-> NoUnit, unitState |-> {}]

ASSUME TokenAssumption == TesteeToken \cap MonitorToken = {}
ASSUME DirectoryAssumption == /\ TestOf \in [TesteeToken -> Test]
                              /\ GroupsOf \in [MonitorToken -> (SUBSET Group) \ {{}}]
                              /\ GroupOf \in [Test -> Group]
ASSUME UnitAssumption == NoUnit \notin Unit
ASSUME MaxConnectionsAssumption == MaxConnections \in Nat

VARIABLES
  issued,         \* tokens that were registered at some time
  allowedTokens,  \* WebsocketGateway.allowedTokens
  overdue,        \* ... those registered before the last heartbeat (TOKEN_CONNECT_TIMEOUT)
  clients,        \* tokens in WebsocketGateway.clients
  isAlive,        \* clients whose socket carries isAlive = true
  terminated,     \* clients whose socket was terminated, its close event still to come
  vanished,       \* clients whose browser is gone without closing the socket
  beatsGone,      \* heartbeats since the client vanished, at most 2
  testees,        \* TesteeService.testees
  monitors,       \* TestSessionService.monitors
  cachedGroups,   \* groups with an entry in TestSessionService.testSessions
  testSessions,   \* ... and the sessions of these entries
  lostSignals,    \* tokens whose connection-lost signal was posted to the backend
  stranded,       \* tokens that were allowed but not connected when the system was cleaned
  cutOff,         \* tokens whose socket the error handler closed
  released        \* tokens removed on request, by unregistering or by a clean

gateway == <<allowedTokens, overdue, clients, isAlive, terminated, vanished, beatsGone>>
services == <<testees, monitors, cachedGroups, testSessions>>
history == <<lostSignals, stranded, cutOff, released>>
vars == <<issued, gateway, services, history>>

Monitoring == UNION {monitors[g] : g \in Group}
EmptyCache == [x \in Test |-> UnknownSession]

TypeOK ==
  /\ issued \subseteq Token
  /\ allowedTokens \subseteq issued
  /\ overdue \subseteq allowedTokens
  /\ clients \subseteq issued
  /\ isAlive \subseteq clients
  /\ terminated \subseteq clients
  /\ vanished \subseteq clients
  /\ beatsGone \in [Token -> 0..2]
  /\ testees \subseteq issued \cap TesteeToken
  /\ monitors \in [Group -> SUBSET (issued \cap MonitorToken)]
  /\ cachedGroups \subseteq Group
  /\ testSessions \in [Group -> [Test -> Session]]
  /\ lostSignals \subseteq TesteeToken
  /\ stranded \subseteq issued
  /\ cutOff \subseteq issued
  /\ released \subseteq issued

Init ==
  /\ issued = {} /\ allowedTokens = {} /\ overdue = {} /\ clients = {}
  /\ isAlive = {} /\ terminated = {} /\ vanished = {}
  /\ beatsGone = [t \in Token |-> 0]
  /\ testees = {}
  /\ monitors = [g \in Group |-> {}]
  /\ cachedGroups = {}
  /\ testSessions = [g \in Group |-> EmptyCache]
  /\ lostSignals = {} /\ stranded = {} /\ cutOff = {} /\ released = {}

----------------------------------------------------------------------------------
\* WebsocketGateway.disconnectClient for every token of a set: the token is no longer
\* allowed and its socket leaves the map before its close event, which therefore
\* finds nothing to report.
DisconnectClients(T) ==
  /\ allowedTokens' = allowedTokens \ T
  /\ overdue' = overdue \ T
  /\ clients' = clients \ T
  /\ isAlive' = isAlive \ T
  /\ terminated' = terminated \ T
  /\ vanished' = vanished \ T
  /\ beatsGone' = [t \in Token |-> IF t \in T THEN 0 ELSE beatsGone[t]]

\* TesteeService.removeTestee and TestSessionService.removeMonitor: both run for every
\* lost or expired token, whichever kind it is.
RemoveRegistrationsKeepingCache(T) ==
  /\ testees' = testees \ T
  /\ monitors' = [g \in Group |-> monitors[g] \ T]
  /\ UNCHANGED <<cachedGroups, testSessions>>

RemoveRegistrations(T) ==
  /\ testees' = testees \ T
  /\ monitors' = [g \in Group |-> monitors[g] \ T]
  /\ LET orphaned == {g \in Group : monitors[g] \cap T # {} /\ monitors[g] \subseteq T} IN
     /\ cachedGroups' = cachedGroups \ orphaned
     /\ testSessions' = [g \in Group |-> IF g \in orphaned THEN EmptyCache ELSE testSessions[g]]

AllowToken(t) ==
  /\ issued' = issued \cup {t}
  /\ allowedTokens' = allowedTokens \cup {t}
  /\ UNCHANGED <<overdue, clients, isAlive, terminated, vanished, beatsGone>>

\* POST /testee/register
AddTestee(t) ==
  /\ t \in TesteeToken \ issued
  /\ testees' = testees \cup {t}
  /\ AllowToken(t)
  /\ UNCHANGED <<monitors, cachedGroups, testSessions, history>>

\* POST /testee/unregister
RemoveTestee(t) ==
  /\ t \in TesteeToken \cap issued
  /\ testees' = testees \ {t}
  /\ DisconnectClients({t})
  /\ released' = released \cup {t}
  /\ UNCHANGED <<issued, monitors, cachedGroups, testSessions, lostSignals, stranded, cutOff>>

\* POST /monitor/register: a group without monitors starts with an empty cache.
AddMonitor(m) ==
  /\ m \in MonitorToken \ issued
  /\ monitors' = [g \in Group |-> IF g \in GroupsOf[m] THEN monitors[g] \cup {m} ELSE monitors[g]]
  /\ cachedGroups' = cachedGroups \cup GroupsOf[m]
  /\ AllowToken(m)
  /\ UNCHANGED <<testees, testSessions, history>>

\* POST /monitor/unregister
RemoveMonitor(m) ==
  /\ m \in MonitorToken \cap issued
  /\ RemoveRegistrations({m})
  /\ DisconnectClients({m})
  /\ released' = released \cup {m}
  /\ UNCHANGED <<issued, lostSignals, stranded, cutOff>>

----------------------------------------------------------------------------------
\* A browser opens its socket.  A rejected one changes nothing in the gateway.
HandleConnection(t) ==
  /\ Cardinality(clients) < MaxConnections
  /\ t \in allowedTokens \ clients
  /\ clients' = clients \cup {t}
  /\ isAlive' = isAlive \cup {t}
  /\ UNCHANGED <<issued, allowedTokens, overdue, terminated, vanished, beatsGone, services, history>>

\* The network of a connected browser is gone; no close frame reaches the server.
Vanish(t) ==
  /\ t \in clients \ vanished
  /\ vanished' = vanished \cup {t}
  /\ UNCHANGED <<issued, allowedTokens, overdue, clients, isAlive, terminated, beatsGone,
                 services, history>>

Pong(t) ==
  /\ t \in clients \ (vanished \cup terminated \cup isAlive)
  /\ isAlive' = isAlive \cup {t}
  /\ UNCHANGED <<issued, allowedTokens, overdue, clients, terminated, vanished, beatsGone,
                 services, history>>

\* The tokens expireUnconnectedTokens drops: registered for a whole interval, never connected.
Expired == overdue \ clients

HeartbeatTrustingPongs ==
  /\ terminated' = terminated \cup (clients \ isAlive)
  /\ beatsGone' = [t \in Token |-> IF t \in vanished /\ beatsGone[t] < 2
                                   THEN beatsGone[t] + 1 ELSE beatsGone[t]]
  /\ UNCHANGED <<issued, allowedTokens, overdue, clients, isAlive, vanished, services, history>>

\* setInterval callback of startHeartbeat, including expireUnconnectedTokens
Heartbeat ==
  /\ terminated' = terminated \cup (clients \ isAlive)
  /\ isAlive' = {}
  /\ allowedTokens' = allowedTokens \ Expired
  /\ overdue' = allowedTokens \ Expired
  /\ beatsGone' = [t \in Token |-> IF t \in vanished /\ beatsGone[t] < 2
                                   THEN beatsGone[t] + 1 ELSE beatsGone[t]]
  /\ RemoveRegistrations(Expired)
  /\ UNCHANGED <<issued, clients, vanished, history>>

NeverConnectedElsewhere(t) == FALSE

IsTestConnectedElsewhere(t) ==
  \E o \in (clients \ {t}) \cap testees : TestOf[o] = TestOf[t]

\* The close event of a socket that is still in the map: a terminated one, or one the
\* browser closed.  The testee service looks for other sockets of the test, posts the
\* signal and removes the registration.
HandleDisconnectSilently(t) ==
  /\ t \in clients
  /\ t \in vanished => t \in terminated
  /\ RemoveRegistrations({t})
  /\ DisconnectClients({t})
  /\ UNCHANGED <<issued, history>>

HandleDisconnect(t) ==
  /\ t \in clients
  /\ t \in vanished => t \in terminated
  /\ lostSignals' = IF t \in testees /\ ~IsTestConnectedElsewhere(t)
                    THEN lostSignals \cup {t} ELSE lostSignals
  /\ RemoveRegistrations({t})
  /\ DisconnectClients({t})
  /\ UNCHANGED <<issued, stranded, cutOff, released>>

----------------------------------------------------------------------------------
\* mergeSessionChanges: naming another unit empties the unit state first.
MergeKeepingUnitState(session, unitName, unitState) ==
  [known     |-> TRUE,
   unitName  |-> IF unitName = NoUnit THEN session.unitName ELSE unitName,
   unitState |-> session.unitState \cup unitState]

Merge(session, unitName, unitState) ==
  [known     |-> TRUE,
   unitName  |-> IF unitName = NoUnit THEN session.unitName ELSE unitName,
   unitState |-> IF unitName = NoUnit \/ unitName = session.unitName
                 THEN session.unitState \cup unitState ELSE unitState]

\* POST /push/session-change.  A change of the test state names no unit; a change of the
\* unit state names the unit it belongs to (SessionChangeMessage).
ApplySessionChange(x, unitName) ==
  /\ GroupOf[x] \in cachedGroups
  /\ LET unitState == IF unitName = NoUnit THEN {} ELSE {unitName} IN
     testSessions' = [testSessions EXCEPT ![GroupOf[x]][x] = Merge(@, unitName, unitState)]
  /\ UNCHANGED <<issued, gateway, testees, monitors, cachedGroups, history>>

\* A request ends with a status of 500 or more: ErrorHandler.catch closes every socket.
ServerError ==
  /\ clients # {}
  /\ DisconnectClients(clients)
  /\ cutOff' = cutOff \cup clients
  /\ UNCHANGED <<issued, services, lostSignals, stranded, released>>

\* POST /system/clean
Clean ==
  /\ DisconnectClients(clients)
  /\ testees' = {}
  /\ monitors' = [g \in Group |-> {}]
  /\ cachedGroups' = {}
  /\ testSessions' = [g \in Group |-> EmptyCache]
  /\ stranded' = stranded \cup (allowedTokens \ clients)
  /\ released' = released \cup testees \cup Monitoring
  /\ UNCHANGED <<issued, lostSignals, cutOff>>

Next ==
  \/ \E t \in TesteeToken : AddTestee(t) \/ RemoveTestee(t)
  \/ \E m \in MonitorToken : AddMonitor(m) \/ RemoveMonitor(m)
  \/ \E t \in Token : HandleConnection(t) \/ Vanish(t) \/ Pong(t) \/ HandleDisconnect(t)
  \/ Heartbeat
  \/ \E x \in Test, u \in Unit \cup {NoUnit} : ApplySessionChange(x, u)
  \/ ServerError
  \/ Clean

Spec == Init /\ [][Next]_vars

\* The interval timer keeps firing and a terminated socket emits its close event.
Fairness == /\ WF_vars(Heartbeat)
            /\ \A t \in Token : WF_vars(t \in terminated /\ HandleDisconnect(t))
LiveSpec == Spec /\ Fairness

----------------------------------------------------------------------------------
\* A group has a session cache exactly while it has a monitor: a cache that outlives its
\* monitors would be merged into when the next monitor comes, and a monitored group
\* without one would drop every change (addMonitor, removeMonitor, addSessionChange).
CacheIffMonitored ==
  /\ cachedGroups = {g \in Group : monitors[g] # {}}
  /\ \A g \in Group \ cachedGroups : testSessions[g] = EmptyCache

\* The unit state shown for a session belongs to one unit, the one named last, whatever
\* the order in which test-state and unit-state changes arrive (mergeSessionChanges).
OneUnitPerSession ==
  \A g \in cachedGroups, x \in Test :
    testSessions[g][x].unitState \subseteq {testSessions[g][x].unitName}

\* A token that may connect, or is connected, belongs to somebody the services know of;
\* the only ones that do not are those that were waiting to connect during a clean.
AllowedHaveOwner == allowedTokens \cup clients \subseteq testees \cup Monitoring \cup stranded

\* A registered testee or monitor can still connect, or is connected; the only dead
\* registrations are those whose socket the error handler closed.
RegisteredCanConnect == testees \cup Monitoring \subseteq allowedTokens \cup cutOff

\* The gateway and the services, which keep their registers apart from each other, agree
\* about who is there, after any order of registrations, losses, errors and cleans.
RegistersAgree == TypeOK /\ CacheIffMonitored /\ AllowedHaveOwner /\ RegisteredCanConnect

\* A socket that is not answering is given up at the second heartbeat after it went
\* silent: "nach spaetestens einer Minute als verloren" (startHeartbeat).
NoticedWithinTwoBeats == \A t \in vanished : beatsGone[t] = 2 => t \in terminated

\* A connection-lost signal is never posted for a test that has another live socket: a
\* dead socket found late must not mark a test that has already reconnected.
NoSignalWhileConnected ==
  [][\A t \in lostSignals' \ lostSignals :
       \A o \in clients' \cap testees' : TestOf[o] # TestOf[t]]_vars

\* A token that is registered and never used is forgotten, or it connects.
UnusedTokenExpires == \A t \in Token : t \in allowedTokens ~> (t \in clients \/ t \notin allowedTokens)

\* A testee whose network fails is reported lost, unless it was removed on request, its
\* socket was closed by the error handler, or another socket of its test is open.
LossIsReported ==
  \A t \in TesteeToken :
    (t \in vanished /\ t \in testees) ~>
      (t \in lostSignals \cup released \cup cutOff \/ IsTestConnectedElsewhere(t))

\* With a heartbeat that goes on, what is dead does not stay: neither a token nobody uses
\* nor a testee whose network failed.
HeartbeatCleansUp == UnusedTokenExpires /\ LossIsReported
=============================================================================
