--------------------------- MODULE CommandDeliveryProofs ---------------------------
(* Theorems about CommandDelivery, for any tests and commands and any bounds: types, *)
(* the connection of the tab, that commands are marked before they are performed, and *)
(* that none is lost on the way. *)
EXTENDS CommandDelivery, TLAPS, FiniteSetTheorems, SequenceTheorems

USE DEF tab, channel, execution, vars

-----------------------------------------------------------------------------
(* Sequences *)

\* One element less, and no new ones.
LEMMA RemoveAtFacts ==
  ASSUME NEW S, NEW s \in Seq(S), NEW i \in DOMAIN s
  PROVE  /\ RemoveAt(s, i) \in Seq(S)
         /\ Len(RemoveAt(s, i)) = Len(s) - 1
         /\ \A j \in DOMAIN RemoveAt(s, i) : \E k \in DOMAIN s : RemoveAt(s, i)[j] = s[k]
<1> DEFINE before == SubSeq(s, 1, i - 1)
           after == SubSeq(s, i + 1, Len(s))
<1>1. Len(s) \in Nat /\ i \in 1..Len(s)
  OBVIOUS
<1>2. /\ before \in Seq(S) /\ Len(before) = i - 1
      /\ \A j \in 1..(i - 1) : before[j] = s[j]
  BY <1>1
<1>3. /\ after \in Seq(S) /\ Len(after) = Len(s) - i
      /\ \A j \in 1..(Len(s) - i) : after[j] = s[i + j]
  BY <1>1
<1> HIDE DEF before, after
<1>4. /\ before \o after \in Seq(S) /\ Len(before \o after) = Len(s) - 1
      /\ \A j \in 1..(Len(s) - 1) :
           (before \o after)[j] = IF j <= i - 1 THEN before[j] ELSE after[j - (i - 1)]
  <2>1. /\ before \o after \in Seq(S)
        /\ Len(before \o after) = Len(before) + Len(after)
        /\ \A j \in 1..(Len(before) + Len(after)) :
             (before \o after)[j] = IF j <= Len(before) THEN before[j] ELSE after[j - Len(before)]
    BY <1>2, <1>3, ConcatProperties
  <2>2. Len(before) + Len(after) = Len(s) - 1
    BY <1>1, <1>2, <1>3
  <2> QED
    BY <2>1, <2>2, <1>2
<1>5. \A j \in 1..(Len(s) - 1) : \E k \in 1..Len(s) : (before \o after)[j] = s[k]
  <2> SUFFICES ASSUME NEW j \in 1..(Len(s) - 1)
               PROVE  \E k \in 1..Len(s) : (before \o after)[j] = s[k]
    OBVIOUS
  <2>1. CASE j <= i - 1
    BY <2>1, <1>1, <1>2, <1>4
  <2>2. CASE ~(j <= i - 1)
    <3>1. j - (i - 1) \in 1..(Len(s) - i) /\ i + (j - (i - 1)) = j + 1 /\ j + 1 \in 1..Len(s)
      BY <2>2, <1>1
    <3>2. (before \o after)[j] = s[j + 1]
      BY <2>2, <3>1, <1>3, <1>4
    <3> QED
      BY <3>1, <3>2
  <2> QED
    BY <2>1, <2>2
<1>6. DOMAIN (before \o after) = 1..(Len(s) - 1) /\ DOMAIN s = 1..Len(s)
  BY <1>1, <1>4
<1>7. \A j \in DOMAIN (before \o after) : \E k \in DOMAIN s : (before \o after)[j] = s[k]
  BY <1>5, <1>6
<1>8. RemoveAt(s, i) = before \o after
  BY DEF RemoveAt, before, after
<1> QED
  BY <1>4, <1>7, <1>8, Zenon

\* An answer, in any order, is a sequence of commands.
LEMMA InOrderType ==
  ASSUME NEW S \in SUBSET Command, NEW s \in InOrder(S)
  PROVE  s \in Seq(Command)
<1>1. IsFiniteSet(S)
  BY CommandAssumption, FS_Subset
<1>2. Cardinality(S) \in Nat
  BY <1>1, FS_CardinalityType
<1> QED
  BY <1>2 DEF InOrder

LEMMA ReceiveType ==
  ASSUME queue \in Seq(Command), NEW S \in SUBSET Command, Receive(S)
  PROVE  queue' \in Seq(Command)
<1>1. CASE alive
  <2>1. PICK s \in InOrder(S \ executedCommandIds) : queue' = queue \o s
    BY <1>1 DEF Receive
  <2>2. s \in Seq(Command)
    BY <2>1, InOrderType
  <2> QED
    BY <2>1, <2>2
<1>2. CASE ~alive
  BY <1>2 DEF Receive
<1> QED
  BY <1>1, <1>2

-----------------------------------------------------------------------------
(* Types *)

\* What is asked of the backend names a test: fetches that of the running test, PATCHes
\* that of tcs.testId.
AddressOK ==
  /\ listening => running # NoTest
  /\ running # NoTest \/ queue # <<>> => testId # NoTest

Typed == TypeOK /\ AddressOK /\ ConnectionEndsWithTest

LEMMA NewFetchType ==
  ASSUME NEW t \in Test
  PROVE  [test |-> t, read |-> FALSE, commands |-> {}, token |-> FALSE] \in Fetch
  BY DEF Fetch

LEMMA SocketType ==
  /\ NoSocket \in Socket
  /\ \A t \in Test : [at |-> "connecting", test |-> t] \in Socket
  BY DEF NoSocket, TestOrNone, Socket

LEMMA CutType ==
  ASSUME CutConnection
  PROVE  /\ ~listening' /\ ~sleeping' /\ ~subscribed' /\ socket' = NoSocket
         /\ listening' \in BOOLEAN /\ sleeping' \in BOOLEAN /\ subscribed' \in BOOLEAN
         /\ socket' \in Socket /\ wire' \in Seq(Command)
<1>1. /\ ~listening' /\ ~sleeping' /\ ~subscribed'
      /\ listening' \in BOOLEAN /\ sleeping' \in BOOLEAN /\ subscribed' \in BOOLEAN
  BY DEF CutConnection
<1>2. socket' = NoSocket /\ socket' \in Socket
  BY SocketType DEF CutConnection
<1>3. wire' \in Seq(Command)
  BY EmptySeq DEF CutConnection
<1> QED
  BY <1>1, <1>2, <1>3

LEMMA AbandonType ==
  ASSUME TypeOK, NEW P, Abandon(P)
  PROVE  rows' \in [Command -> [Test -> {"none", "open", "executed"}]]
  BY DEF TypeOK, Abandon

LEMMA FetchAnsweredType ==
  ASSUME Typed, NEW i \in DOMAIN fetches, FetchAnswered(i)
  PROVE  Typed'
<1> USE DEF Typed
<1>0. fetches \in Seq(Fetch) /\ queue \in Seq(Command) /\ fetches[i] \in Fetch
  BY DEF TypeOK
<1>1. fetches' \in Seq(Fetch)
  BY <1>0, RemoveAtFacts DEF FetchAnswered
<1>2. fetches[i].commands \in SUBSET Command /\ fetches[i].test \in Test
  BY <1>0 DEF Fetch
<1>3. CASE listening
  <2>1. Receive(fetches[i].commands) /\ SubscribeOrPoll(fetches[i].token, fetches[i].test)
    BY <1>3 DEF FetchAnswered, AnswerExpected, TakeAnswer
  <2>2. queue' \in Seq(Command)
    BY <1>0, <1>2, <2>1, ReceiveType
  <2>3. /\ sleeping' \in BOOLEAN /\ subscribed' \in BOOLEAN
        /\ socket' \in Socket
    BY <1>2, <2>1, SocketType
    DEF TypeOK, SubscribeOrPoll, SubScribeToWsChannel, ScheduleNextPoll
  <2>4. AddressOK' /\ ConnectionEndsWithTest'
    BY <1>3 DEF FetchAnswered, AddressOK, ConnectionEndsWithTest
  <2> QED
    BY <1>1, <2>2, <2>3, <2>4 DEF TypeOK, FetchAnswered
<1>4. CASE ~listening
  <2>1. UNCHANGED <<queue, sleeping, subscribed, socket>>
    BY <1>4 DEF FetchAnswered, AnswerExpected
  <2> QED
    BY <1>1, <2>1 DEF TypeOK, FetchAnswered, AddressOK, ConnectionEndsWithTest
<1> QED
  BY <1>3, <1>4 DEF TypeOK

LEMMA PatchFailedType ==
  ASSUME Typed, NEW i \in DOMAIN patching, PatchFailed(i)
  PROVE  Typed'
<1> USE DEF Typed
<1>1. rows' \in [Command -> [Test -> {"none", "open", "executed"}]]
  BY AbandonType DEF PatchFailed
<1>2. failures' \in 0..MaxFailures
  BY BoundAssumption DEF PatchFailed, TypeOK
<1>3. /\ sleeping' \in BOOLEAN /\ subscribed' \in BOOLEAN /\ listening' \in BOOLEAN
      /\ socket' \in Socket
      /\ wire' \in Seq(Command)
  BY CutType DEF PatchFailed, TypeOK
<1>4. AddressOK' /\ ConnectionEndsWithTest'
  BY CutType DEF PatchFailed, AddressOK, ConnectionEndsWithTest
<1>5. queue' \in Seq(Command) /\ patching' \in Seq(Patch) /\ alive' \in BOOLEAN
  BY EmptySeq DEF PatchFailed
<1> QED
  BY <1>1, <1>2, <1>3, <1>4, <1>5 DEF PatchFailed, TypeOK

\* Types, and that every fetch and every PATCH names a test.
THEOREM TypedInvariant == Spec => []Typed
<1>1. Init => Typed
  <2> SUFFICES ASSUME Init PROVE Typed
    OBVIOUS
  <2>1. fetches \in Seq(Fetch) /\ wire \in Seq(Command) /\ queue \in Seq(Command) /\ patching \in Seq(Patch)
    BY EmptySeq DEF Init
  <2>2. opens \in 0..MaxOpens /\ failures \in 0..MaxFailures
    BY BoundAssumption DEF Init
  <2>3. /\ rows \in [Command -> [Test -> {"none", "open", "executed"}]]
        /\ performed \in [Command -> [Test -> 0..2]]
    BY DEF Init
  <2>4. AddressOK /\ ConnectionEndsWithTest
    BY DEF Init, AddressOK, ConnectionEndsWithTest
  <2> QED
    BY <2>1, <2>2, <2>3, <2>4, SocketType DEF Init, Typed, TypeOK, TestOrNone
<1>2. Typed /\ [Next]_vars => Typed'
  <2> SUFFICES ASSUME Typed, [Next]_vars PROVE Typed'
    OBVIOUS
  <2> USE DEF Typed
  <2>1. ASSUME NEW c \in Command, NEW tests \in (SUBSET Test) \ {{}}, PutCommand(c, tests)
        PROVE  Typed'
    BY <2>1 DEF PutCommand, TypeOK, AddressOK, ConnectionEndsWithTest
  <2>2. ASSUME NEW c \in Command, PushCommand(c) PROVE Typed'
    BY <2>2 DEF PushCommand, TypeOK, AddressOK, ConnectionEndsWithTest
  <2>3. ASSUME NEW t \in Test, OpenTest(t) PROVE Typed'
    <3>1. fetches' \in Seq(Fetch)
      BY <2>3, NewFetchType DEF OpenTest, PollEndpointAndSubscribeWs, TypeOK
    <3>2. t # NoTest /\ opens' \in 0..MaxOpens
      BY <2>3, TestAssumption, BoundAssumption DEF OpenTest, TypeOK
    <3> QED
      BY <2>3, <3>1, <3>2
      DEF OpenTest, PollEndpointAndSubscribeWs, TypeOK, AddressOK, ConnectionEndsWithTest, TestOrNone
  <2>4. CASE LeaveTest
    BY <2>4, CutType DEF LeaveTest, LeftTestId, TypeOK, AddressOK, ConnectionEndsWithTest, TestOrNone
  <2>5. CASE Reload
    <3>1. rows' \in [Command -> [Test -> {"none", "open", "executed"}]]
      BY <2>5, AbandonType DEF Reload
    <3>2. fetches' \in Seq(Fetch) /\ opens' \in 0..MaxOpens
      BY <2>5, NewFetchType, BoundAssumption DEF Reload, TypeOK, TestOrNone
    <3>3. wire' \in Seq(Command) /\ queue' \in Seq(Command) /\ patching' \in Seq(Patch)
      BY <2>5, EmptySeq DEF Reload
    <3>4. AddressOK' /\ ConnectionEndsWithTest'
      BY <2>5 DEF Reload, AddressOK, ConnectionEndsWithTest
    <3> QED
      BY <2>5, <3>1, <3>2, <3>3, <3>4, SocketType DEF Reload, TypeOK
  <2>6. CASE Poll
    <3>1. running \in Test
      BY <2>6 DEF Poll, TypeOK, AddressOK, ConnectionEndsWithTest, TestOrNone
    <3>2. fetches' \in Seq(Fetch)
      BY <2>6, <3>1, NewFetchType DEF Poll, PollEndpointAndSubscribeWs, TypeOK
    <3> QED
      BY <2>6, <3>2 DEF Poll, PollEndpointAndSubscribeWs, TypeOK, AddressOK, ConnectionEndsWithTest
  <2>7. CASE SocketOpened
    <3>1. socket' \in Socket
      BY <2>7 DEF SocketOpened, TypeOK, Socket
    <3>2. socket # NoSocket
      BY <2>7 DEF SocketOpened, NoSocket
    <3> QED
      BY <2>7, <3>1, <3>2 DEF SocketOpened, TypeOK, AddressOK, ConnectionEndsWithTest
  <2>8. CASE SocketLost
    <3>1. wire' \in Seq(Command) /\ failures' \in 0..MaxFailures /\ socket' \in Socket
      BY <2>8, EmptySeq, SocketType, BoundAssumption DEF SocketLost, TypeOK
    <3>2. sleeping' \in BOOLEAN
      BY <2>8 DEF SocketLost, ObserveDisconnection, ScheduleNextPoll, TypeOK
    <3>3. AddressOK' /\ ConnectionEndsWithTest'
      BY <2>8 DEF SocketLost, AddressOK, ConnectionEndsWithTest
    <3> QED
      BY <2>8, <3>1, <3>2, <3>3 DEF SocketLost, TypeOK
  <2>9. CASE CommandPushed
    <3>1. Head(wire) \in Command /\ wire' \in Seq(Command)
      BY <2>9 DEF CommandPushed, TypeOK
    <3>2. queue' \in Seq(Command)
      BY <2>9, <3>1, ReceiveType DEF CommandPushed, NextPushed, TypeOK
    <3>3. AddressOK'
      BY <2>9 DEF CommandPushed, NextPushed, AddressOK, ConnectionEndsWithTest
    <3> QED
      BY <2>9, <3>1, <3>2, <3>3 DEF CommandPushed, TypeOK, ConnectionEndsWithTest
  <2>10. CASE MarkAsExecuted
    <3>1. Head(queue) \in Command /\ queue' \in Seq(Command) /\ testId \in Test
      BY <2>10 DEF MarkAsExecuted, TypeOK, AddressOK, TestOrNone
    <3>2. patching' \in Seq(Patch)
      BY <2>10, <3>1 DEF MarkAsExecuted, PatchOf, Patch, TypeOK
    <3> QED
      BY <2>10, <3>1, <3>2, TestAssumption DEF MarkAsExecuted, TypeOK, AddressOK, ConnectionEndsWithTest
  <2>11. ASSUME NEW i \in DOMAIN fetches, GetCommands(i) PROVE Typed'
    <3>1. fetches[i] \in Fetch /\ \A t : OpenCommands(t) \subseteq Command
      BY DEF TypeOK, OpenCommands
    <3>2. PICK token \in TokenGiven :
            fetches' = [fetches EXCEPT ![i] = [fetches[i] EXCEPT !.read = TRUE, !.token = token,
                                                 !.commands = OpenCommands(fetches[i].test)]]
      BY <2>11 DEF GetCommands
    <3>3. [fetches[i] EXCEPT !.read = TRUE, !.token = token,
             !.commands = OpenCommands(fetches[i].test)] \in Fetch
      BY <3>1, TestAssumption DEF Fetch
    <3>4. fetches' \in Seq(Fetch)
      BY <3>2, <3>3, ExceptSeq DEF TypeOK
    <3> QED
      BY <2>11, <3>4 DEF GetCommands, TypeOK, AddressOK, ConnectionEndsWithTest
  <2>12. ASSUME NEW i \in DOMAIN fetches, FetchAnswered(i) PROVE Typed'
    BY <2>12, FetchAnsweredType
  <2>13. ASSUME NEW i \in DOMAIN fetches, FetchFailed(i) PROVE Typed'
    <3>1. fetches' \in Seq(Fetch) /\ failures' \in 0..MaxFailures
      BY <2>13, RemoveAtFacts, BoundAssumption DEF FetchFailed, TypeOK
    <3> QED
      BY <2>13, <3>1, CutType DEF FetchFailed, TypeOK, AddressOK, ConnectionEndsWithTest
  <2>14. ASSUME NEW i \in DOMAIN patching, PatchCommandExecuted(i) PROVE Typed'
    <3>1. patching[i] \in Patch
      BY DEF TypeOK
    <3>2. [patching[i] EXCEPT !.marked = TRUE] \in Patch
      BY <3>1 DEF Patch
    <3>4. patching' \in Seq(Patch)
      BY <2>14, <3>2, ExceptSeq DEF PatchCommandExecuted, TypeOK
    <3>3. rows' \in [Command -> [Test -> {"none", "open", "executed"}]]
      BY <2>14, <3>1 DEF PatchCommandExecuted, TypeOK, Patch
    <3> QED
      BY <2>14, <3>3, <3>4 DEF PatchCommandExecuted, TypeOK, AddressOK, ConnectionEndsWithTest
  <2>15. ASSUME NEW i \in DOMAIN patching, Perform(i) PROVE Typed'
    <3>0. patching[i] \in Patch
      BY DEF TypeOK
    <3>1. patching[i].command \in Command
      BY <3>0 DEF Patch
    <3>2. patching' \in Seq(Patch)
      BY <2>15, RemoveAtFacts DEF Perform, TypeOK
    <3>3. performed' \in [Command -> [Test -> 0..2]]
      <4> DEFINE c == patching[i].command
      <4>1. CASE running = NoTest \/ c = last \/ performed[c][running] = 2
        BY <4>1, <2>15 DEF Perform, TypeOK
      <4>2. CASE ~(running = NoTest \/ c = last \/ performed[c][running] = 2)
        <5>1. running \in Test /\ performed[c][running] \in 0..1
          BY <4>2, <3>1 DEF TypeOK, TestOrNone
        <5>2. performed' = [performed EXCEPT ![c][running] = performed[c][running] + 1]
          BY <4>2, <2>15 DEF Perform
        <5> QED
          BY <5>1, <5>2, <3>1 DEF TypeOK
      <4> QED
        BY <4>1, <4>2
    <3> QED
      BY <2>15, <3>1, <3>2, <3>3 DEF Perform, TypeOK, AddressOK, ConnectionEndsWithTest
  <2>16. ASSUME NEW i \in DOMAIN patching, PatchFailed(i) PROVE Typed'
    BY <2>16, PatchFailedType
  <2>17. CASE UNCHANGED vars
    BY <2>17 DEF TypeOK, AddressOK, ConnectionEndsWithTest
  <2> QED
    BY <2>1, <2>2, <2>3, <2>4, <2>5, <2>6, <2>7, <2>8, <2>9, <2>10, <2>11, <2>12, <2>13,
       <2>14, <2>15, <2>16, <2>17 DEF Next
<1> QED
  BY <1>1, <1>2, PTL DEF Spec

\* The type invariant.
THEOREM TypeCorrect == Spec => []TypeOK
<1>1. Typed => TypeOK
  BY DEF Typed
<1> QED
  BY <1>1, TypedInvariant, PTL

\* A test that is left is neither polled nor listened to.
THEOREM ConnectionEndsCorrect == Spec => []ConnectionEndsWithTest
<1>1. Typed => ConnectionEndsWithTest
  BY DEF Typed
<1> QED
  BY <1>1, TypedInvariant, PTL

-----------------------------------------------------------------------------
(* The connection of the tab *)

\* A tab that subscribed to a socket that is gone has scheduled a poll: this is what
\* keeps a late answer from ending the chain, as it finds the subscription still set.
Connection ==
  /\ NeverDeaf
  /\ subscribed /\ socket = NoSocket => sleeping
  /\ PollsDoNotMultiply

Polling == IF sleeping THEN 1 ELSE 0
Connected == IF subscribed /\ socket # NoSocket THEN 1 ELSE 0

LEMMA PollsAsSum ==
  /\ PollsDoNotMultiply <=> Len(fetches) + Polling + Connected <= opens
  /\ PollsDoNotMultiply' <=> Len(fetches') + Polling' + Connected' <= opens'
  BY DEF PollsDoNotMultiply, Polling, Connected

LEMMA SumValues ==
  /\ sleeping => Polling = 1
  /\ ~sleeping => Polling = 0
  /\ subscribed /\ socket # NoSocket => Connected = 1
  /\ ~(subscribed /\ socket # NoSocket) => Connected = 0
  /\ sleeping' => Polling' = 1
  /\ ~sleeping' => Polling' = 0
  /\ subscribed' /\ socket' # NoSocket' => Connected' = 1
  /\ ~(subscribed' /\ socket' # NoSocket') => Connected' = 0
  /\ NoSocket' = NoSocket
  BY DEF Polling, Connected, NoSocket

\* Actions that leave the connection as it is.
LEMMA ConnectionUntouched ==
  ASSUME Connection, UNCHANGED <<listening, sleeping, subscribed, socket, opens>>,
         Len(fetches') = Len(fetches), fetches = <<>> <=> fetches' = <<>>
  PROVE  Connection'
  BY DEF Connection, NeverDeaf, PollsDoNotMultiply

\* A fetch begins in place of the poll, or of nothing when the test is opened.
LEMMA AppendFetch ==
  ASSUME fetches \in Seq(Fetch), NEW t \in Test, PollEndpointAndSubscribeWs(t)
  PROVE  Len(fetches') = Len(fetches) + 1 /\ Len(fetches) \in Nat /\ fetches' # <<>> /\ ~subscribed'
<1>1. [test |-> t, read |-> FALSE, commands |-> {}, token |-> FALSE] \in Fetch
  BY NewFetchType
<1> QED
  BY <1>1 DEF PollEndpointAndSubscribeWs

LEMMA RemoveFetch ==
  ASSUME fetches \in Seq(Fetch), NEW i \in DOMAIN fetches, fetches' = RemoveAt(fetches, i)
  PROVE  Len(fetches') = Len(fetches) - 1 /\ Len(fetches) \in Nat /\ Len(fetches') \in Nat
<1>1. fetches' \in Seq(Fetch) /\ Len(fetches') = Len(fetches) - 1
  BY RemoveAtFacts
<1> QED
  BY <1>1

LEMMA CutKeepsConnection ==
  ASSUME TypeOK, Connection, CutConnection, opens' = opens,
         Len(fetches') \in Nat, Len(fetches') <= Len(fetches)
  PROVE  Connection'
<1>1. Len(fetches) \in Nat /\ opens \in Nat
  BY BoundAssumption DEF TypeOK
<1>2. Len(fetches) <= opens
  BY <1>1, PollsAsSum, SumValues DEF Connection
<1>3. PollsDoNotMultiply'
  BY <1>1, <1>2, CutType, PollsAsSum, SumValues
<1> QED
  BY <1>3, CutType DEF Connection, NeverDeaf

LEMMA FetchAnsweredKeepsConnection ==
  ASSUME Typed, Connection, NEW i \in DOMAIN fetches, FetchAnswered(i)
  PROVE  Connection'
<1>1. Len(fetches') = Len(fetches) - 1 /\ Len(fetches) \in Nat /\ opens \in Nat /\ opens' = opens
  BY RemoveFetch, BoundAssumption DEF FetchAnswered, Typed, TypeOK
<1>2. Len(fetches) + Polling + Connected <= opens
  BY PollsAsSum DEF Connection
<1>3. CASE ~listening
  <2>1. UNCHANGED <<listening, sleeping, subscribed, socket>>
    BY <1>3 DEF FetchAnswered, AnswerExpected
  <2>2. PollsDoNotMultiply'
    BY <1>1, <1>2, <2>1, PollsAsSum, SumValues
  <2> QED
    BY <1>3, <2>1, <2>2 DEF Connection, NeverDeaf
<1>4. CASE listening /\ ~fetches[i].token
  <2>1. sleeping' = TRUE /\ UNCHANGED <<subscribed, socket>>
    BY <1>4 DEF FetchAnswered, AnswerExpected, TakeAnswer, SubscribeOrPoll, ScheduleNextPoll
  <2>2. PollsDoNotMultiply'
    BY <1>1, <1>2, <2>1, PollsAsSum, SumValues
  <2> QED
    BY <2>1, <2>2 DEF Connection, NeverDeaf
<1>5. CASE listening /\ fetches[i].token
  <2>1. /\ sleeping' = sleeping /\ subscribed' = TRUE
        /\ socket' = IF subscribed \/ socket # NoSocket THEN socket
                     ELSE [at |-> "connecting", test |-> fetches[i].test]
    BY <1>5 DEF FetchAnswered, AnswerExpected, TakeAnswer, SubscribeOrPoll, SubScribeToWsChannel
  <2>2. PollsDoNotMultiply'
    BY <1>1, <1>2, <2>1, PollsAsSum, SumValues
  <2>3. socket' = NoSocket => sleeping'
    BY <2>1 DEF NoSocket, Connection
  <2> QED
    BY <2>1, <2>2, <2>3 DEF Connection, NeverDeaf
<1> QED
  BY <1>3, <1>4, <1>5

\* While a test runs something brings its commands, and each time it is opened begins
\* one chain of polls at most.
THEOREM ConnectionInvariant == Spec => []Connection
<1>1. Init => Connection
  BY BoundAssumption DEF Init, Connection, NeverDeaf, PollsDoNotMultiply
<1>2. Typed /\ Connection /\ [Next]_vars => Connection'
  <2> SUFFICES ASSUME Typed, Connection, [Next]_vars PROVE Connection'
    OBVIOUS
  <2>0. TypeOK /\ fetches \in Seq(Fetch) /\ Len(fetches) \in Nat /\ opens \in Nat
    BY BoundAssumption DEF Typed, TypeOK
  <2>a. Len(fetches) + Polling + Connected <= opens
    BY PollsAsSum DEF Connection
  <2>1. ASSUME NEW c \in Command, NEW tests \in (SUBSET Test) \ {{}}, PutCommand(c, tests)
        PROVE  Connection'
    BY <2>1, ConnectionUntouched DEF PutCommand
  <2>2. ASSUME NEW c \in Command, PushCommand(c) PROVE Connection'
    BY <2>2, ConnectionUntouched DEF PushCommand
  <2>3. ASSUME NEW t \in Test, OpenTest(t) PROVE Connection'
    <3>1. Len(fetches') = Len(fetches) + 1 /\ fetches' # <<>> /\ ~subscribed'
      BY <2>0, <2>3, AppendFetch DEF OpenTest
    <3>2. PollsDoNotMultiply'
      BY <2>0, <2>a, <2>3, <3>1, PollsAsSum, SumValues DEF OpenTest
    <3> QED
      BY <3>1, <3>2 DEF Connection, NeverDeaf
  <2>4. CASE LeaveTest
    BY <2>0, <2>4, CutKeepsConnection DEF LeaveTest
  <2>5. CASE Reload
    <3>1. Len(fetches') = 1 /\ fetches' # <<>>
      BY <2>5 DEF Reload
    <3>2. PollsDoNotMultiply'
      BY <2>0, <2>5, <3>1, PollsAsSum, SumValues DEF Reload
    <3> QED
      BY <2>5, <3>1, <3>2 DEF Connection, NeverDeaf, Reload
  <2>6. CASE Poll
    <3>1. running \in Test
      BY <2>6 DEF Poll, Typed, TypeOK, AddressOK, ConnectionEndsWithTest, TestOrNone
    <3>2. Len(fetches') = Len(fetches) + 1 /\ fetches' # <<>> /\ ~subscribed'
      BY <2>0, <2>6, <3>1, AppendFetch DEF Poll
    <3>3. PollsDoNotMultiply'
      BY <2>0, <2>a, <2>6, <3>2, PollsAsSum, SumValues DEF Poll
    <3> QED
      BY <3>2, <3>3 DEF Connection, NeverDeaf
  <2>7. CASE SocketOpened
    <3>1. socket # NoSocket /\ socket' # NoSocket
      BY <2>0, <2>7 DEF SocketOpened, NoSocket, Socket, TypeOK
    <3>2. PollsDoNotMultiply'
      BY <2>0, <2>a, <2>7, <3>1, PollsAsSum, SumValues DEF SocketOpened
    <3> QED
      BY <2>7, <3>1, <3>2 DEF SocketOpened, Connection, NeverDeaf
  <2>8. CASE SocketLost
    <3>1. /\ socket # NoSocket /\ socket' = NoSocket
          /\ UNCHANGED <<listening, subscribed, fetches, opens>>
          /\ sleeping' = IF subscribed THEN TRUE ELSE sleeping
      BY <2>8 DEF SocketLost, ObserveDisconnection, ScheduleNextPoll
    <3>2. PollsDoNotMultiply'
      BY <2>0, <2>a, <3>1, PollsAsSum, SumValues
    <3> QED
      BY <3>1, <3>2 DEF Connection, NeverDeaf
  <2>9. CASE CommandPushed
    BY <2>9, ConnectionUntouched DEF CommandPushed
  <2>10. CASE MarkAsExecuted
    BY <2>10, ConnectionUntouched DEF MarkAsExecuted
  <2>11. ASSUME NEW i \in DOMAIN fetches, GetCommands(i) PROVE Connection'
    <3>1. Len(fetches') = Len(fetches) /\ fetches # <<>> /\ fetches' # <<>>
      BY <2>0, <2>11 DEF GetCommands
    <3> QED
      BY <2>11, <3>1, ConnectionUntouched DEF GetCommands
  <2>12. ASSUME NEW i \in DOMAIN fetches, FetchAnswered(i) PROVE Connection'
    BY <2>12, FetchAnsweredKeepsConnection
  <2>13. ASSUME NEW i \in DOMAIN fetches, FetchFailed(i) PROVE Connection'
    <3>1. Len(fetches') = Len(fetches) - 1 /\ Len(fetches') \in Nat /\ opens' = opens
      BY <2>0, <2>13, RemoveFetch DEF FetchFailed
    <3>2. CASE running # NoTest
      BY <2>0, <2>13, <3>1, <3>2, CutKeepsConnection DEF FetchFailed
    <3>3. CASE running = NoTest
      <4>1. ~listening /\ UNCHANGED <<listening, sleeping, subscribed, socket>>
        BY <2>13, <3>3 DEF FetchFailed, Typed, AddressOK
      <4>2. PollsDoNotMultiply'
        BY <2>0, <2>a, <3>1, <4>1, PollsAsSum, SumValues
      <4> QED
        BY <4>1, <4>2 DEF Connection, NeverDeaf
    <3> QED
      BY <3>2, <3>3
  <2>14. ASSUME NEW i \in DOMAIN patching, PatchCommandExecuted(i) PROVE Connection'
    BY <2>14, ConnectionUntouched DEF PatchCommandExecuted
  <2>15. ASSUME NEW i \in DOMAIN patching, Perform(i) PROVE Connection'
    BY <2>15, ConnectionUntouched DEF Perform
  <2>16. ASSUME NEW i \in DOMAIN patching, PatchFailed(i) PROVE Connection'
    <3>1. CASE running # NoTest
      BY <2>0, <2>16, <3>1, CutKeepsConnection DEF PatchFailed
    <3>2. CASE running = NoTest
      BY <2>16, <3>2, ConnectionUntouched DEF PatchFailed, Typed, AddressOK
    <3> QED
      BY <3>1, <3>2
  <2>17. CASE UNCHANGED vars
    BY <2>17, ConnectionUntouched
  <2> QED
    BY <2>1, <2>2, <2>3, <2>4, <2>5, <2>6, <2>7, <2>8, <2>9, <2>10, <2>11, <2>12, <2>13,
       <2>14, <2>15, <2>16, <2>17 DEF Next
<1> QED
  BY <1>1, <1>2, TypedInvariant, PTL DEF Spec

\* While a test runs something will bring its commands.
THEOREM NeverDeafCorrect == Spec => []NeverDeaf
<1>1. Connection => NeverDeaf
  BY DEF Connection
<1> QED
  BY <1>1, ConnectionInvariant, PTL

\* Broken sockets and late answers do not multiply the polling.
THEOREM PollsCorrect == Spec => []PollsDoNotMultiply
<1>1. Connection => PollsDoNotMultiply
  BY DEF Connection
<1> QED
  BY <1>1, ConnectionInvariant, PTL

-----------------------------------------------------------------------------
(* Marking *)

IsMarked(c) == \E t \in Test : rows[c][t] = "executed"

\* A PATCH that the backend has answered has marked its row; the tab takes its command
\* as executed no earlier.
Marking ==
  /\ \A i \in DOMAIN patching : patching[i].marked
       => rows[patching[i].command][patching[i].test] = "executed"
  /\ \A c \in Command : c \in executedCommandIds => IsMarked(c)
  /\ \A c \in Command, t \in Test : performed[c][t] > 0 => IsMarked(c)

\* No action takes the mark from a row.
LEMMA MarksStay ==
  ASSUME Typed, [Next]_vars
  PROVE  \A c \in Command, t \in Test : rows[c][t] = "executed" => rows'[c][t] = "executed"
<1> SUFFICES ASSUME NEW d \in Command, NEW x \in Test, rows[d][x] = "executed"
             PROVE  rows'[d][x] = "executed"
  OBVIOUS
<1>0. rows \in [Command -> [Test -> {"none", "open", "executed"}]] /\ patching \in Seq(Patch)
  BY DEF Typed, TypeOK
<1>1. ASSUME NEW c \in Command, NEW tests \in (SUBSET Test) \ {{}}, PutCommand(c, tests)
      PROVE  rows'[d][x] = "executed"
  <2>1. c # d
    BY <1>1 DEF PutCommand, Addressed
  <2> QED
    BY <1>0, <1>1, <2>1 DEF PutCommand
<1>2. ASSUME NEW P, Abandon(P) PROVE rows'[d][x] = "executed"
  BY <1>2 DEF Abandon
<1>3. ASSUME NEW i \in DOMAIN patching, PatchCommandExecuted(i) PROVE rows'[d][x] = "executed"
  BY <1>0, <1>3 DEF PatchCommandExecuted
<1>4. ASSUME rows' = rows PROVE rows'[d][x] = "executed"
  BY <1>4
<1> QED
  BY <1>1, <1>2, <1>3, <1>4
  DEF Next, PushCommand, OpenTest, LeaveTest, Reload, Poll, SocketOpened, SocketLost, CommandPushed,
      MarkAsExecuted, GetCommands, FetchAnswered, FetchFailed, Perform, PatchFailed

\* Actions that take nothing as executed keep Marking.
LEMMA MarkingUntouched ==
  ASSUME Typed, Marking, [Next]_vars,
         \A c \in Command : c \in executedCommandIds' => c \in executedCommandIds,
         performed' = performed,
         \A i \in DOMAIN patching' : patching'[i].marked
           => \E k \in DOMAIN patching : patching'[i] = patching[k]
  PROVE  Marking'
<1>1. \A c \in Command : IsMarked(c) => IsMarked(c)'
  BY MarksStay DEF IsMarked
<1>2. \A i \in DOMAIN patching : patching[i].command \in Command /\ patching[i].test \in Test
  <2> SUFFICES ASSUME NEW i \in DOMAIN patching
               PROVE  patching[i].command \in Command /\ patching[i].test \in Test
    OBVIOUS
  <2>1. patching[i] \in Patch
    BY DEF Typed, TypeOK
  <2> QED
    BY <2>1 DEF Patch
<1>3. \A i \in DOMAIN patching' : patching'[i].marked
        => rows'[patching'[i].command][patching'[i].test] = "executed"
  BY <1>2, MarksStay DEF Marking
<1> QED
  BY <1>1, <1>3 DEF Marking

\* What the tab performs was marked as executed before.
THEOREM MarkedCorrect == Spec => []PerformedIsMarked
<1>1. Init => Marking
  BY EmptySeq DEF Init, Marking
<1>2. Typed /\ Marking /\ [Next]_vars => Marking'
  <2> SUFFICES ASSUME Typed, Marking, [Next]_vars PROVE Marking'
    OBVIOUS
  <2>0. patching \in Seq(Patch) /\ performed \in [Command -> [Test -> 0..2]]
    BY DEF Typed, TypeOK
  <2>1. ASSUME UNCHANGED <<executedCommandIds, performed, patching>> PROVE Marking'
    BY <2>1, MarkingUntouched
  <2>2. CASE MarkAsExecuted
    <3>1. ~PatchOf(Head(queue)).marked
      BY DEF PatchOf
    <3>2. patching' = Append(patching, PatchOf(Head(queue)))
      BY <2>2 DEF MarkAsExecuted
    <3>3. \A i \in DOMAIN patching' : patching'[i].marked
            => \E k \in DOMAIN patching : patching'[i] = patching[k]
      <4> DEFINE p == PatchOf(Head(queue))
      <4> HIDE DEF p
      <4>1. \A i \in DOMAIN Append(patching, p) :
              \/ i \in DOMAIN patching /\ Append(patching, p)[i] = patching[i]
              \/ Append(patching, p)[i] = p
        BY <2>0
      <4> QED
        BY <3>1, <3>2, <4>1 DEF p
    <3> QED
      BY <2>2, <3>3, MarkingUntouched DEF MarkAsExecuted
  <2>3. ASSUME patching' = <<>>, performed' = performed, executedCommandIds' \subseteq executedCommandIds
        PROVE  Marking'
    <3>1. DOMAIN patching' = {}
      BY <2>3
    <3> QED
      BY <2>3, <3>1, MarkingUntouched
  <2>4. ASSUME NEW i \in DOMAIN patching, PatchCommandExecuted(i) PROVE Marking'
    <3>1. patching[i] \in Patch
      BY <2>0
    <3>2. patching' = [patching EXCEPT ![i] = [patching[i] EXCEPT !.marked = TRUE]]
      BY <2>4 DEF PatchCommandExecuted
    <3>3. DOMAIN patching' = DOMAIN patching /\ \A k \in DOMAIN patching : k # i => patching'[k] = patching[k]
      BY <2>0, <3>2
    <3>4. patching'[i].command = patching[i].command /\ patching'[i].test = patching[i].test
      BY <2>0, <3>1, <3>2 DEF Patch
    <3>5. rows'[patching[i].command][patching[i].test] = "executed"
      BY <2>4, <3>1 DEF PatchCommandExecuted, Patch, Typed, TypeOK
    <3>6. \A k \in DOMAIN patching : patching[k].command \in Command /\ patching[k].test \in Test
      <4> SUFFICES ASSUME NEW k \in DOMAIN patching
                   PROVE  patching[k].command \in Command /\ patching[k].test \in Test
        OBVIOUS
      <4>1. patching[k] \in Patch
        BY <2>0
      <4> QED
        BY <4>1 DEF Patch
    <3>7. \A k \in DOMAIN patching' : patching'[k].marked
            => rows'[patching'[k].command][patching'[k].test] = "executed"
      BY <3>3, <3>4, <3>5, <3>6, MarksStay DEF Marking
    <3>8. \A c \in Command : IsMarked(c) => IsMarked(c)'
      BY MarksStay DEF IsMarked
    <3> QED
      BY <2>4, <3>7, <3>8 DEF PatchCommandExecuted, Marking
  <2>5. ASSUME NEW i \in DOMAIN patching, Perform(i) PROVE Marking'
    <3> DEFINE c == patching[i].command
    <3>1. patching[i] \in Patch /\ rows' = rows
      BY <2>0, <2>5 DEF Perform
    <3>2. c \in Command /\ patching[i].test \in Test
      BY <3>1 DEF Patch
    <3>3. IsMarked(c)
      BY <2>5, <3>2 DEF Perform, Marking, IsMarked
    <3>4. \A k \in DOMAIN patching' : \E j \in DOMAIN patching : patching'[k] = patching[j]
      BY <2>0, <2>5, RemoveAtFacts DEF Perform
    <3>5. executedCommandIds' = executedCommandIds \cup {c}
      BY <2>5 DEF Perform
    <3>6. \A d \in Command, t \in Test : d # c => performed'[d][t] = performed[d][t]
      BY <2>0, <2>5, <3>2 DEF Perform
    <3>7. \A d \in Command : IsMarked(d)' <=> IsMarked(d)
      BY <3>1 DEF IsMarked
    <3>8. \A k \in DOMAIN patching' : patching'[k].marked
            => rows'[patching'[k].command][patching'[k].test] = "executed"
      BY <3>1, <3>4 DEF Marking
    <3>9. \A d \in Command : d \in executedCommandIds' => IsMarked(d)'
      BY <3>2, <3>3, <3>5, <3>7 DEF Marking
    <3>10. \A d \in Command, t \in Test : performed'[d][t] > 0 => IsMarked(d)'
      BY <3>2, <3>3, <3>6, <3>7 DEF Marking
    <3> QED
      BY <3>8, <3>9, <3>10 DEF Marking
  <2> QED
    BY <2>1, <2>2, <2>3, <2>4, <2>5
    DEF Next, PutCommand, PushCommand, OpenTest, LeaveTest, Reload, Poll, SocketOpened, SocketLost,
        CommandPushed, GetCommands, FetchAnswered, FetchFailed, PatchFailed
<1>3. Marking => PerformedIsMarked
  BY DEF Marking, PerformedIsMarked, IsMarked
<1> QED
  BY <1>1, <1>2, <1>3, TypedInvariant, PTL DEF Spec

-----------------------------------------------------------------------------
(* Nothing is lost *)

\* Every element of a sequence but the removed one stays.
LEMMA RemoveAtKeeps ==
  ASSUME NEW S, NEW s \in Seq(S), NEW i \in DOMAIN s, NEW k \in DOMAIN s, k # i
  PROVE  \E j \in DOMAIN RemoveAt(s, i) : RemoveAt(s, i)[j] = s[k]
<1> DEFINE before == SubSeq(s, 1, i - 1)
           after == SubSeq(s, i + 1, Len(s))
<1>1. Len(s) \in Nat /\ i \in 1..Len(s) /\ k \in 1..Len(s)
  OBVIOUS
<1>2. /\ before \in Seq(S) /\ Len(before) = i - 1
      /\ \A j \in 1..(i - 1) : before[j] = s[j]
  BY <1>1
<1>3. /\ after \in Seq(S) /\ Len(after) = Len(s) - i
      /\ \A j \in 1..(Len(s) - i) : after[j] = s[i + j]
  BY <1>1
<1> HIDE DEF before, after
<1>4. /\ before \o after \in Seq(S) /\ Len(before \o after) = Len(s) - 1
      /\ \A j \in 1..(Len(s) - 1) :
           (before \o after)[j] = IF j <= i - 1 THEN before[j] ELSE after[j - (i - 1)]
  <2>1. /\ before \o after \in Seq(S)
        /\ Len(before \o after) = Len(before) + Len(after)
        /\ \A j \in 1..(Len(before) + Len(after)) :
             (before \o after)[j] = IF j <= Len(before) THEN before[j] ELSE after[j - Len(before)]
    BY <1>2, <1>3, ConcatProperties
  <2>2. Len(before) + Len(after) = Len(s) - 1
    BY <1>1, <1>2, <1>3
  <2> QED
    BY <2>1, <2>2, <1>2
<1>5. \E j \in 1..(Len(s) - 1) : (before \o after)[j] = s[k]
  <2>1. CASE k < i
    BY <2>1, <1>1, <1>2, <1>4
  <2>2. CASE k > i
    <3>1. /\ k - 1 \in 1..(Len(s) - 1) /\ ~(k - 1 <= i - 1)
          /\ (k - 1) - (i - 1) \in 1..(Len(s) - i) /\ i + ((k - 1) - (i - 1)) = k
      BY <2>2, <1>1
    <3> QED
      BY <3>1, <1>3, <1>4
  <2>3. k < i \/ k > i
    BY <1>1
  <2> QED
    BY <2>1, <2>2, <2>3
<1>6. DOMAIN (before \o after) = 1..(Len(s) - 1)
  BY <1>1, <1>4
<1>7. RemoveAt(s, i) = before \o after
  BY DEF RemoveAt, before, after
<1> QED
  BY <1>5, <1>6, <1>7

\* An answer that is ordered by time stamps holds every command of the answer.
LEMMA InOrderAll ==
  ASSUME NEW S \in SUBSET Command, NEW s \in InOrder(S), NEW c \in S
  PROVE  \E k \in DOMAIN s : s[k] = c
<1> DEFINE n == Cardinality(S)
<1>1. IsFiniteSet(S) /\ n \in Nat
  BY CommandAssumption, FS_Subset, FS_CardinalityType
<1>2. s \in [1..n -> S] /\ \A i, j \in 1..n : i < j => s[i] < s[j]
  BY DEF InOrder
<1>3. \A i \in 1..n : s[i] \in Nat
  BY <1>2, CommandAssumption
<1>4. \A i, j \in 1..n : s[i] = s[j] => i = j
  <2> HIDE DEF n
  <2> SUFFICES ASSUME NEW i \in 1..n, NEW j \in 1..n, s[i] = s[j] PROVE i = j
    OBVIOUS
  <2>1. i < j => s[i] < s[j]
    BY <1>2
  <2>2. j < i => s[j] < s[i]
    BY <1>2
  <2> QED
    BY <2>1, <2>2, <1>1, <1>3
<1>5. s \in Injection(1..n, S)
  BY <1>2, <1>4 DEF Injection, IsInjective
<1>6. Cardinality(1..n) = n
  <2> HIDE DEF n
  <2>1. Cardinality(1..n) = IF 1 > n THEN 0 ELSE n - 1 + 1
    BY <1>1, FS_Interval
  <2> QED
    BY <2>1, <1>1
<1>7. s \in Surjection(1..n, S)
  BY <1>1, <1>5, <1>6, FS_Injection
<1> QED
  BY <1>2, <1>7 DEF Surjection

\* What the tab receives waits, is known as executed, or the execution has ended; what
\* waited goes on waiting.
LEMMA ReceiveAll ==
  ASSUME queue \in Seq(Command), NEW S \in SUBSET Command, Receive(S)
  PROVE  /\ \A c \in ToSet(queue) : c \in ToSet(queue')
         /\ \A c \in S : c \in ToSet(queue') \/ c \in executedCommandIds \/ ~alive
<1>1. CASE alive
  <2>1. PICK s \in InOrder(S \ executedCommandIds) : queue' = queue \o s
    BY <1>1 DEF Receive
  <2>2. s \in Seq(Command) /\ Len(s) \in Nat /\ Len(queue) \in Nat
    BY <2>1, InOrderType
  <2>3. /\ Len(queue \o s) = Len(queue) + Len(s)
        /\ \A j \in 1..(Len(queue) + Len(s)) :
             (queue \o s)[j] = IF j <= Len(queue) THEN queue[j] ELSE s[j - Len(queue)]
    BY <2>2, ConcatProperties
  <2>4. DOMAIN (queue \o s) = 1..(Len(queue) + Len(s))
    BY <2>2, <2>3
  <2>5. ASSUME NEW k \in DOMAIN queue PROVE queue[k] \in ToSet(queue')
    <3>1. k \in 1..Len(queue) /\ k \in 1..(Len(queue) + Len(s)) /\ k <= Len(queue)
      BY <2>2
    <3> QED
      BY <3>1, <2>1, <2>3, <2>4 DEF ToSet
  <2>6. ASSUME NEW c \in S \ executedCommandIds PROVE c \in ToSet(queue')
    <3>1. PICK k \in DOMAIN s : s[k] = c
      BY InOrderAll
    <3>2. k \in 1..Len(s) /\ k + Len(queue) \in 1..(Len(queue) + Len(s))
          /\ ~(k + Len(queue) <= Len(queue)) /\ (k + Len(queue)) - Len(queue) = k
      BY <2>2
    <3> QED
      BY <3>1, <3>2, <2>1, <2>3, <2>4 DEF ToSet
  <2> QED
    BY <2>5, <2>6 DEF ToSet
<1>2. CASE ~alive
  BY <1>2 DEF Receive
<1> QED
  BY <1>1, <1>2

Asked(c) == \E i \in DOMAIN fetches : c \in fetches[i].commands
Pushed(c) == subscribed /\ c \in ToSet(wire)
InTab(c) == c \in ToSet(queue) \/ \E i \in DOMAIN patching : patching[i].command = c

\* A fetch that the backend has not read has no commands yet; a command in a socket that
\* nobody listens to is brought by a fetch, as the command itself is never taken from it.
NotLost(c) == c \in unpushed \/ WillRead \/ Asked(c) \/ Pushed(c) \/ InTab(c) \/ GivenUp(c)
Unread == \A i \in DOMAIN fetches : ~fetches[i].read => fetches[i].commands = {}
Tracked == Unread /\ (running # NoTest => \A c \in OpenCommands(running) : NotLost(c))

\* A fetch of the running test begins: it will read all that is open.
LEMMA FetchBegins ==
  ASSUME TypeOK, Unread, NEW t \in Test, running' = t, PollEndpointAndSubscribeWs(t)
  PROVE  Unread' /\ WillRead'
<1> DEFINE f == [test |-> t, read |-> FALSE, commands |-> {}, token |-> FALSE]
<1>1. f \in Fetch /\ f.test = t /\ f.commands = {} /\ ~f.read
  BY NewFetchType
<1>2. fetches \in Seq(Fetch) /\ fetches' = Append(fetches, f)
  BY DEF TypeOK, PollEndpointAndSubscribeWs
<1> HIDE DEF f
<1>3. /\ Len(fetches) + 1 \in DOMAIN fetches' /\ fetches'[Len(fetches) + 1] = f
      /\ \A k \in DOMAIN fetches' : (k \in DOMAIN fetches /\ fetches'[k] = fetches[k]) \/ fetches'[k] = f
  BY <1>1, <1>2
<1> QED
  BY <1>1, <1>3 DEF Unread, WillRead

\* A fetch ends that is not the one that will read.
LEMMA FetchEnds ==
  ASSUME TypeOK, NEW i \in DOMAIN fetches, fetches' = RemoveAt(fetches, i)
  PROVE  /\ Unread => Unread'
         /\ \A k \in DOMAIN fetches : k # i => \E j \in DOMAIN fetches' : fetches'[j] = fetches[k]
<1>1. fetches \in Seq(Fetch)
  BY DEF TypeOK
<1>2. \A j \in DOMAIN fetches' : \E k \in DOMAIN fetches : fetches'[j] = fetches[k]
  BY <1>1, RemoveAtFacts
<1>3. \A k \in DOMAIN fetches : k # i => \E j \in DOMAIN fetches' : fetches'[j] = fetches[k]
  BY <1>1, RemoveAtKeeps
<1>4. Unread => Unread'
  BY <1>2 DEF Unread
<1> QED
  BY <1>3, <1>4

\* Steps that leave the running test and its fetches: what they keep on its way is tracked.
LEMMA TrackedStays ==
  ASSUME Tracked, running' = running, Unread',
         OpenCommands(running)' \subseteq OpenCommands(running),
         \A c \in OpenCommands(running) : NotLost(c) => NotLost(c)'
  PROVE  Tracked'
  BY DEF Tracked

LEMMA GetCommandsTracked ==
  ASSUME Typed, Tracked, NEW i \in DOMAIN fetches, GetCommands(i)
  PROVE  Tracked'
<1>1. fetches \in Seq(Fetch) /\ fetches[i] \in Fetch
  BY DEF Typed, TypeOK
<1>2. PICK token \in TokenGiven :
        fetches' = [fetches EXCEPT ![i] = [fetches[i] EXCEPT !.read = TRUE, !.token = token,
                                             !.commands = OpenCommands(fetches[i].test)]]
  BY DEF GetCommands
<1>3. /\ DOMAIN fetches' = DOMAIN fetches
      /\ \A k \in DOMAIN fetches : k # i => fetches'[k] = fetches[k]
      /\ fetches'[i].read = TRUE
      /\ fetches'[i].commands = OpenCommands(fetches[i].test)
  BY <1>1, <1>2 DEF Fetch
<1>4. /\ UNCHANGED <<rows, unpushed, running, listening, sleeping, subscribed, wire, queue,
                     patching, alive, executedCommandIds>>
      /\ missed' = IF fetches[i].test = running THEN missed \ OpenCommands(running) ELSE missed
  BY DEF GetCommands
<1>5. Unread'
  BY <1>3 DEF Tracked, Unread
<1>6. fetches[i].commands = {}
  BY DEF GetCommands, Tracked, Unread
<1>7. OpenCommands(running)' = OpenCommands(running)
  BY <1>4 DEF OpenCommands
<1>8. ASSUME NEW c \in OpenCommands(running), NotLost(c) PROVE NotLost(c)'
  <2>1. CASE fetches[i].test = running
    <3>1. c \in fetches'[i].commands
      BY <2>1, <1>3
    <3> QED
      BY <3>1, <1>3 DEF NotLost, Asked
  <2>2. CASE fetches[i].test # running
    <3>1. WillRead => WillRead'
      BY <2>2, <1>3, <1>4 DEF WillRead
    <3>2. Asked(c) => Asked(c)'
      BY <1>3, <1>6 DEF Asked
    <3>3. Pushed(c)' = Pushed(c) /\ InTab(c)' = InTab(c) /\ GivenUp(c)' = GivenUp(c)
      BY <2>2, <1>4 DEF Pushed, InTab, GivenUp
    <3> QED
      BY <1>8, <1>4, <3>1, <3>2, <3>3 DEF NotLost
  <2> QED
    BY <2>1, <2>2
<1> QED
  BY <1>4, <1>5, <1>7, <1>8, TrackedStays

LEMMA PushCommandTracked ==
  ASSUME Typed, Tracked, NEW d \in Command, PushCommand(d)
  PROVE  Tracked'
<1>1. UNCHANGED <<rows, running, listening, sleeping, fetches, socket, subscribed, queue, patching,
                  alive, executedCommandIds>>
  BY DEF PushCommand
<1>2. wire \in Seq(Command) /\ Unread' /\ OpenCommands(running)' = OpenCommands(running)
  BY <1>1 DEF Typed, TypeOK, Tracked, Unread, OpenCommands
<1>3. /\ WillRead' <=> WillRead
      /\ \A c : Asked(c)' <=> Asked(c)
      /\ \A c : InTab(c)' <=> InTab(c)
  BY <1>1 DEF WillRead, Asked, InTab
<1>4. \A c \in ToSet(wire) : c \in ToSet(wire')
  <2>1. \A k \in DOMAIN wire : k \in DOMAIN Append(wire, d) /\ Append(wire, d)[k] = wire[k]
    BY <1>2
  <2> QED
    BY <2>1 DEF PushCommand, ToSet
<1>5. missed \subseteq missed'
  BY DEF PushCommand
<1>6. ASSUME NEW c \in OpenCommands(running), NotLost(c), running # NoTest PROVE NotLost(c)'
  <2>1. CASE c # d
    <3>1. c \in unpushed => c \in unpushed'
      BY <2>1 DEF PushCommand
    <3>2. (Pushed(c) => Pushed(c)') /\ (GivenUp(c) => GivenUp(c)')
      BY <1>1, <1>4, <1>5 DEF Pushed, GivenUp
    <3> QED
      BY <1>3, <1>6, <3>1, <3>2 DEF NotLost
  <2>2. CASE c = d
    <3>1. running \in Test /\ running \in Addressed(d)
      BY <1>6, <2>2 DEF Typed, TypeOK, TestOrNone, OpenCommands, Addressed
    <3>2. CASE ~listening \/ WillRead
      BY <3>2, <1>1, <1>3 DEF NotLost, GivenUp
    <3>3. CASE listening /\ ~WillRead /\ subscribed /\ Hears(running)
      <4>1. wire' = Append(wire, d)
        BY <3>1, <3>3 DEF PushCommand
      <4>2. Len(wire) + 1 \in DOMAIN wire' /\ wire'[Len(wire) + 1] = d
        BY <4>1, <1>2
      <4> QED
        BY <4>2, <2>2, <3>3, <1>1 DEF NotLost, Pushed, ToSet
    <3>4. CASE listening /\ ~WillRead /\ ~(subscribed /\ Hears(running))
      <4>1. d \in missed'
        BY <3>1, <3>4 DEF PushCommand
      <4> QED
        BY <4>1, <2>2 DEF NotLost, GivenUp
    <3> QED
      BY <3>2, <3>3, <3>4
  <2> QED
    BY <2>1, <2>2
<1> QED
  BY <1>1, <1>2, <1>6 DEF Tracked

LEMMA FetchAnsweredTracked ==
  ASSUME Typed, Tracked, NEW i \in DOMAIN fetches, FetchAnswered(i)
  PROVE  Tracked'
<1>1. UNCHANGED <<rows, unpushed, running, listening, wire, patching, alive, executedCommandIds, missed>>
  BY DEF FetchAnswered
<1>2. /\ TypeOK /\ queue \in Seq(Command) /\ fetches[i] \in Fetch
      /\ fetches' = RemoveAt(fetches, i) /\ fetches[i].read
  BY DEF Typed, TypeOK, FetchAnswered
<1>3. /\ Unread' /\ OpenCommands(running)' = OpenCommands(running)
      /\ \A k \in DOMAIN fetches : k # i => \E j \in DOMAIN fetches' : fetches'[j] = fetches[k]
  BY <1>1, <1>2, FetchEnds DEF Tracked, OpenCommands
<1>4. ASSUME NEW c \in OpenCommands(running), NotLost(c) PROVE NotLost(c)'
  <2>1. CASE ~listening
    BY <2>1, <1>1 DEF NotLost, GivenUp
  <2>2. CASE listening
    <3> DEFINE S == fetches[i].commands
    <3>1. S \in SUBSET Command /\ Receive(S) /\ SubscribeOrPoll(fetches[i].token, fetches[i].test)
      BY <2>2, <1>2 DEF FetchAnswered, AnswerExpected, TakeAnswer, Fetch
    <3>2. /\ \A d \in ToSet(queue) : d \in ToSet(queue')
          /\ \A d \in S : d \in ToSet(queue') \/ d \in executedCommandIds \/ ~alive
      BY <1>2, <3>1, ReceiveAll
    <3>3. (sleeping => sleeping') /\ (subscribed => subscribed')
      BY <3>1 DEF SubscribeOrPoll, SubScribeToWsChannel, ScheduleNextPoll
    <3>4. WillRead => WillRead'
      BY <1>1, <1>2, <1>3, <3>3 DEF WillRead
    <3>5. Asked(c) => Asked(c)' \/ c \in S
      BY <1>3 DEF Asked
    <3>6. c \in S => InTab(c)' \/ GivenUp(c)'
      BY <1>1, <3>2 DEF InTab, GivenUp
    <3>7. (Pushed(c) => Pushed(c)') /\ (InTab(c) => InTab(c)') /\ (GivenUp(c) => GivenUp(c)')
      BY <1>1, <3>2, <3>3 DEF Pushed, InTab, GivenUp
    <3> QED
      BY <1>1, <1>4, <3>4, <3>5, <3>6, <3>7 DEF NotLost
  <2> QED
    BY <2>1, <2>2
<1> QED
  BY <1>1, <1>3, <1>4, TrackedStays

LEMMA CommandPushedTracked ==
  ASSUME Typed, Tracked, CommandPushed
  PROVE  Tracked'
<1>1. UNCHANGED <<rows, unpushed, running, listening, sleeping, fetches, subscribed, patching, alive,
                  executedCommandIds, missed>>
  BY DEF CommandPushed
<1>2. wire \in Seq(Command) /\ wire # <<>> /\ wire' = Tail(wire) /\ queue \in Seq(Command)
  BY DEF Typed, TypeOK, CommandPushed
<1>3. Unread' /\ OpenCommands(running)' = OpenCommands(running) /\ (WillRead' <=> WillRead)
  BY <1>1 DEF Tracked, Unread, OpenCommands, WillRead
<1>4. \A c \in ToSet(wire) : c = Head(wire) \/ c \in ToSet(wire')
  <2>1. \A k \in DOMAIN wire : k = 1 \/ (k - 1 \in DOMAIN wire' /\ wire'[k - 1] = wire[k])
    BY <1>2
  <2>2. wire[1] = Head(wire)
    BY <1>2
  <2> QED
    BY <2>1, <2>2 DEF ToSet
<1>5. ASSUME NEW c \in OpenCommands(running), NotLost(c) PROVE NotLost(c)'
  <2>1. CASE ~subscribed
    <3>1. queue' = queue /\ ~Pushed(c)
      BY <2>1 DEF CommandPushed, NextPushed, Pushed
    <3>2. InTab(c) = InTab(c)' /\ Asked(c) = Asked(c)' /\ GivenUp(c) = GivenUp(c)'
      BY <1>1, <3>1 DEF InTab, Asked, GivenUp
    <3> QED
      BY <1>1, <1>3, <1>5, <3>1, <3>2 DEF NotLost
  <2>2. CASE subscribed
    <3>1. Receive({Head(wire)}) /\ {Head(wire)} \in SUBSET Command
      BY <2>2, <1>2 DEF CommandPushed, NextPushed
    <3>2. /\ \A d \in ToSet(queue) : d \in ToSet(queue')
          /\ Head(wire) \in ToSet(queue') \/ Head(wire) \in executedCommandIds \/ ~alive
      BY <1>2, <3>1, ReceiveAll
    <3>3. Pushed(c) => Pushed(c)' \/ InTab(c)' \/ GivenUp(c)'
      BY <1>1, <1>4, <3>2 DEF Pushed, InTab, GivenUp
    <3>4. (InTab(c) => InTab(c)') /\ Asked(c) = Asked(c)' /\ GivenUp(c) = GivenUp(c)'
      BY <1>1, <3>2 DEF InTab, Asked, GivenUp
    <3> QED
      BY <1>1, <1>3, <1>5, <3>3, <3>4 DEF NotLost
  <2> QED
    BY <2>1, <2>2
<1> QED
  BY <1>1, <1>3, <1>5, TrackedStays

LEMMA MarkAsExecutedTracked ==
  ASSUME Typed, Tracked, MarkAsExecuted
  PROVE  Tracked'
<1>1. UNCHANGED <<rows, unpushed, running, listening, sleeping, fetches, subscribed, wire, alive,
                  executedCommandIds, missed>>
  BY DEF MarkAsExecuted
<1>2. /\ queue \in Seq(Command) /\ queue # <<>> /\ queue' = Tail(queue)
      /\ patching \in Seq(Patch) /\ patching' = Append(patching, PatchOf(Head(queue)))
  BY DEF Typed, TypeOK, MarkAsExecuted
<1>3. Unread' /\ OpenCommands(running)' = OpenCommands(running) /\ (WillRead' <=> WillRead)
  BY <1>1 DEF Tracked, Unread, OpenCommands, WillRead
<1>4. \A c \in ToSet(queue) : c = Head(queue) \/ c \in ToSet(queue')
  <2>1. \A k \in DOMAIN queue : k = 1 \/ (k - 1 \in DOMAIN queue' /\ queue'[k - 1] = queue[k])
    BY <1>2
  <2>2. queue[1] = Head(queue)
    BY <1>2
  <2> QED
    BY <2>1, <2>2 DEF ToSet
<1>5. /\ \A k \in DOMAIN patching : k \in DOMAIN patching' /\ patching'[k] = patching[k]
      /\ \E k \in DOMAIN patching' : patching'[k].command = Head(queue)
  <2> DEFINE p == PatchOf(Head(queue))
  <2>1. p.command = Head(queue)
    BY DEF PatchOf
  <2> HIDE DEF p
  <2>2. patching' = Append(patching, p)
    BY <1>2 DEF p
  <2>3. Len(patching) + 1 \in DOMAIN patching' /\ patching'[Len(patching) + 1] = p
    BY <1>2, <2>2
  <2>4. \A k \in DOMAIN patching : k \in DOMAIN patching' /\ patching'[k] = patching[k]
    BY <1>2, <2>2
  <2> QED
    BY <2>1, <2>3, <2>4
<1>6. \A c : InTab(c) => InTab(c)'
  BY <1>4, <1>5 DEF InTab
<1>7. \A c : Asked(c) = Asked(c)' /\ Pushed(c) = Pushed(c)' /\ GivenUp(c) = GivenUp(c)'
  BY <1>1 DEF Asked, Pushed, GivenUp
<1>8. \A c \in OpenCommands(running) : NotLost(c) => NotLost(c)'
  BY <1>1, <1>3, <1>6, <1>7 DEF NotLost
<1> QED
  BY <1>1, <1>3, <1>8, TrackedStays

LEMMA PerformTracked ==
  ASSUME Typed, Tracked, NEW i \in DOMAIN patching, Perform(i)
  PROVE  Tracked'
<1>1. UNCHANGED <<rows, unpushed, running, listening, sleeping, fetches, subscribed, wire, queue, alive,
                  missed>>
  BY DEF Perform
<1>2. /\ patching \in Seq(Patch) /\ patching' = RemoveAt(patching, i)
      /\ executedCommandIds' = executedCommandIds \cup {patching[i].command}
  BY DEF Typed, TypeOK, Perform
<1>3. Unread' /\ OpenCommands(running)' = OpenCommands(running) /\ (WillRead' <=> WillRead)
  BY <1>1 DEF Tracked, Unread, OpenCommands, WillRead
<1>4. \A k \in DOMAIN patching : k # i => \E j \in DOMAIN patching' : patching'[j] = patching[k]
  BY <1>2, RemoveAtKeeps
<1>5. \A c : InTab(c) => InTab(c)' \/ GivenUp(c)'
  BY <1>1, <1>2, <1>4 DEF InTab, GivenUp
<1>6. \A c : Asked(c) = Asked(c)' /\ Pushed(c) = Pushed(c)' /\ (GivenUp(c) => GivenUp(c)')
  BY <1>1, <1>2 DEF Asked, Pushed, GivenUp
<1>7. \A c \in OpenCommands(running) : NotLost(c) => NotLost(c)'
  BY <1>1, <1>3, <1>5, <1>6 DEF NotLost
<1> QED
  BY <1>1, <1>3, <1>7, TrackedStays

LEMMA FetchFailedTracked ==
  ASSUME Typed, Tracked, NEW i \in DOMAIN fetches, FetchFailed(i)
  PROVE  Tracked'
<1>1. Unread' /\ running' = running
  BY FetchEnds DEF Typed, Tracked, FetchFailed
<1>2. running # NoTest => ~listening'
  BY CutType DEF FetchFailed
<1> QED
  BY <1>1, <1>2 DEF Tracked, NotLost, GivenUp

\* An open command of the running test is on its way, or given up for a known reason.
THEOREM NothingIsLostCorrect == Spec => []NothingIsLost
<1>1. Init => Tracked
  BY EmptySeq DEF Init, Tracked, Unread
<1>2. Typed /\ Tracked /\ [Next]_vars => Tracked'
  <2> SUFFICES ASSUME Typed, Tracked, [Next]_vars PROVE Tracked'
    OBVIOUS
  <2>0. TypeOK /\ Unread
    BY DEF Typed, Tracked
  <2>1. ASSUME NEW c \in Command, NEW tests \in (SUBSET Test) \ {{}}, PutCommand(c, tests)
        PROVE  Tracked'
    <3>1. /\ UNCHANGED <<running, listening, sleeping, fetches, subscribed, wire, queue, patching, alive,
                          executedCommandIds, missed>>
          /\ unpushed' = unpushed \cup {c}
      BY <2>1 DEF PutCommand
    <3>2. Unread' /\ OpenCommands(running)' \subseteq OpenCommands(running) \cup {c}
      BY <2>0, <2>1, <3>1 DEF Unread, OpenCommands, PutCommand, TypeOK
    <3>3. \A d : NotLost(d) => NotLost(d)'
      BY <3>1 DEF NotLost, WillRead, Asked, Pushed, InTab, GivenUp
    <3>4. NotLost(c)'
      BY <3>1 DEF NotLost
    <3> QED
      BY <3>1, <3>2, <3>3, <3>4 DEF Tracked
  <2>2. ASSUME NEW c \in Command, PushCommand(c) PROVE Tracked'
    BY <2>2, PushCommandTracked
  <2>3. ASSUME NEW t \in Test, OpenTest(t) PROVE Tracked'
    BY <2>0, <2>3, FetchBegins DEF OpenTest, Tracked, NotLost
  <2>4. CASE LeaveTest
    BY <2>4 DEF LeaveTest, Tracked, Unread
  <2>5. CASE Reload
    <3>1. /\ DOMAIN fetches' = {1} /\ fetches'[1].test = running' /\ ~fetches'[1].read
          /\ fetches'[1].commands = {}
      BY <2>5 DEF Reload
    <3> QED
      BY <3>1 DEF Tracked, Unread, NotLost, WillRead
  <2>6. CASE Poll
    <3>1. running \in Test /\ running' = running
      BY <2>6 DEF Poll, Typed, TypeOK, AddressOK, ConnectionEndsWithTest, TestOrNone
    <3> QED
      BY <2>0, <2>6, <3>1, FetchBegins DEF Poll, Tracked, NotLost
  <2>7. ASSUME UNCHANGED <<rows, unpushed, running, listening, sleeping, fetches, subscribed, wire,
                           queue, patching, alive, executedCommandIds, missed>>
        PROVE  Tracked'
    <3>1. Unread' /\ OpenCommands(running)' = OpenCommands(running)
      BY <2>0, <2>7 DEF Unread, OpenCommands
    <3>2. \A d : NotLost(d) => NotLost(d)'
      BY <2>7 DEF NotLost, WillRead, Asked, Pushed, InTab, GivenUp
    <3> QED
      BY <2>7, <3>1, <3>2 DEF Tracked
  <2>8. CASE SocketLost
    <3>1. /\ UNCHANGED <<rows, unpushed, running, listening, fetches, subscribed, queue, patching, alive,
                          executedCommandIds, missed>>
          /\ sleeping' = IF subscribed THEN TRUE ELSE sleeping
      BY <2>8 DEF SocketLost, ObserveDisconnection, ScheduleNextPoll
    <3>2. Unread' /\ OpenCommands(running)' = OpenCommands(running)
      BY <2>0, <3>1 DEF Unread, OpenCommands
    <3>3. (WillRead => WillRead') /\ (subscribed => WillRead')
      BY <3>1 DEF WillRead
    <3>4. \A d : NotLost(d) => NotLost(d)'
      BY <3>1, <3>3 DEF NotLost, Asked, Pushed, InTab, GivenUp
    <3> QED
      BY <3>1, <3>2, <3>4 DEF Tracked
  <2>9. CASE CommandPushed
    BY <2>9, CommandPushedTracked
  <2>10. CASE MarkAsExecuted
    BY <2>10, MarkAsExecutedTracked
  <2>11. ASSUME NEW i \in DOMAIN fetches, GetCommands(i) PROVE Tracked'
    BY <2>11, GetCommandsTracked
  <2>12. ASSUME NEW i \in DOMAIN fetches, FetchAnswered(i) PROVE Tracked'
    BY <2>12, FetchAnsweredTracked
  <2>13. ASSUME NEW i \in DOMAIN fetches, FetchFailed(i) PROVE Tracked'
    BY <2>13, FetchFailedTracked
  <2>14. ASSUME NEW i \in DOMAIN patching, PatchCommandExecuted(i) PROVE Tracked'
    <3>1. /\ UNCHANGED <<unpushed, running, listening, sleeping, fetches, subscribed, wire, queue, alive,
                          executedCommandIds, missed>>
          /\ patching' = [patching EXCEPT ![i] = [patching[i] EXCEPT !.marked = TRUE]]
      BY <2>14 DEF PatchCommandExecuted
    <3>2. patching \in Seq(Patch) /\ patching[i] \in Patch
      BY <2>0 DEF TypeOK
    <3>3. DOMAIN patching' = DOMAIN patching
          /\ \A k \in DOMAIN patching : patching'[k].command = patching[k].command
      BY <3>1, <3>2 DEF Patch
    <3>4. Unread' /\ OpenCommands(running)' \subseteq OpenCommands(running)
      BY <2>0, <2>14, <3>1, <3>2 DEF Unread, OpenCommands, PatchCommandExecuted, TypeOK, Patch
    <3>5. \A d : InTab(d) => InTab(d)'
      BY <3>1, <3>3 DEF InTab
    <3>6. \A d : NotLost(d) => NotLost(d)'
      BY <3>1, <3>5 DEF NotLost, WillRead, Asked, Pushed, GivenUp
    <3> QED
      BY <3>1, <3>4, <3>6, TrackedStays
  <2>15. ASSUME NEW i \in DOMAIN patching, Perform(i) PROVE Tracked'
    BY <2>15, PerformTracked
  <2>16. ASSUME NEW i \in DOMAIN patching, PatchFailed(i) PROVE Tracked'
    <3>1. UNCHANGED <<running, fetches>> /\ alive' = FALSE
      BY <2>16 DEF PatchFailed
    <3> QED
      BY <2>0, <3>1 DEF Tracked, Unread, NotLost, GivenUp
  <2>17. CASE SocketOpened
    BY <2>7, <2>17 DEF SocketOpened
  <2>18. CASE UNCHANGED vars
    BY <2>7, <2>18
  <2> QED
    BY <2>1, <2>2, <2>3, <2>4, <2>5, <2>6, <2>8, <2>9, <2>10, <2>11, <2>12, <2>13,
       <2>14, <2>15, <2>16, <2>17, <2>18 DEF Next
<1>3. Tracked => NothingIsLost
  BY DEF Tracked, NothingIsLost, NotLost, UnderWay, Asked, Pushed, InTab
<1> QED
  BY <1>1, <1>2, <1>3, TypedInvariant, PTL DEF Spec

-----------------------------------------------------------------------------
\* The tab has one connection for the test that runs, and none when none does.
THEOREM ConnectionCorrect == Spec => []OneConnectionPerTest
BY TypeCorrect, NeverDeafCorrect, ConnectionEndsCorrect, PollsCorrect, PTL DEF OneConnectionPerTest
=============================================================================
