------------------------------ MODULE CommandDelivery ------------------------------
(* How the commands of a group monitor reach the browser tab of a testee: the rows  *)
(* in test_commands, the push through the broadcaster, the fetch and the polling of *)
(* the CommandService, its queue, and the PATCH that marks a command as executed    *)
(* before the tab performs it.  What performing a command does is in TestController.*)
EXTENDS Naturals, FiniteSets, SequencesExt

CONSTANTS
  Test,         \* the tests of the testee who uses the tab
  Command,      \* commands, numbered in the order of their time stamps
  NoTest, NoCommand,
  TokenGiven,   \* whether a fetch gets a SubscribeToken: {TRUE}, {FALSE} or BOOLEAN
  MaxOpens,     \* bound: times a test is opened in the tab
  MaxFailures,  \* bound: requests that fail for good and sockets that break
  MaxPending    \* bound: commands between their arrival in the tab and their end

ASSUME CommandAssumption == Command \subseteq Nat /\ IsFiniteSet(Command) /\ NoCommand \notin Command
ASSUME TestAssumption == NoTest \notin Test /\ TokenGiven \subseteq BOOLEAN /\ TokenGiven # {}
ASSUME BoundAssumption == MaxOpens \in Nat /\ MaxFailures \in Nat /\ MaxPending \in Nat

VARIABLES
  rows,         \* test_commands
  unpushed,     \* stored, the push by the broadcaster still to come
  running,      \* test whose TestControllerComponent is shown, or NoTest
  testId,       \* tcs.testId, which outlives the component
  listening,    \* CommandService.data$ is set: pollingEndpoint is the running test's
  sleeping,     \* pollingTimeoutId: the next poll is scheduled
  fetches,      \* GETs under way
  socket,       \* the WebSocket and the test its token was registered for
  subscribed,   \* wsDataSubscription is set
  wire,         \* commands pushed into the socket and not yet received
  queue,        \* commands that wait in concatMap
  patching,     \* PATCHes under way
  alive,        \* commandSubscription has not been ended by an error
  executedCommandIds,
  last,         \* distinctUntilChanged of the component
  performed,    \* how often the tab performed a command in a test, at most 2 (history)
  missed,       \* commands pushed while nothing would bring them to the tab (history)
  opens, failures

tab == <<running, testId, listening, sleeping>>
channel == <<fetches, socket, subscribed, wire>>
execution == <<queue, patching, alive, executedCommandIds, last, performed>>
vars == <<rows, unpushed, tab, channel, execution, missed, opens, failures>>

TestOrNone == Test \cup {NoTest}
Fetch == [test : Test, read : BOOLEAN, commands : SUBSET Command, token : BOOLEAN]
Patch == [command : Command, test : Test, marked : BOOLEAN]
Socket == [at : {"none", "connecting", "open"}, test : TestOrNone]
NoSocket == [at |-> "none", test |-> NoTest]

TypeOK ==
  /\ rows \in [Command -> [Test -> {"none", "open", "executed"}]]
  /\ unpushed \subseteq Command
  /\ running \in TestOrNone /\ testId \in TestOrNone
  /\ listening \in BOOLEAN /\ sleeping \in BOOLEAN
  /\ fetches \in Seq(Fetch)
  /\ socket \in Socket
  /\ subscribed \in BOOLEAN
  /\ wire \in Seq(Command) /\ queue \in Seq(Command) /\ patching \in Seq(Patch)
  /\ alive \in BOOLEAN
  /\ executedCommandIds \subseteq Command
  /\ last \in Command \cup {NoCommand}
  /\ performed \in [Command -> [Test -> 0..2]]
  /\ missed \subseteq Command
  /\ opens \in 0..MaxOpens /\ failures \in 0..MaxFailures

Init ==
  /\ rows = [c \in Command |-> [t \in Test |-> "none"]] /\ unpushed = {}
  /\ running = NoTest /\ testId = NoTest /\ listening = FALSE /\ sleeping = FALSE
  /\ fetches = <<>> /\ socket = NoSocket /\ subscribed = FALSE /\ wire = <<>>
  /\ queue = <<>> /\ patching = <<>> /\ alive = TRUE /\ executedCommandIds = {}
  /\ last = NoCommand /\ performed = [c \in Command |-> [t \in Test |-> 0]]
  /\ missed = {} /\ opens = 0 /\ failures = 0

-----------------------------------------------------------------------------
(* The backend and the broadcaster *)

OpenCommands(t) == {c \in Command : rows[c][t] = "open"}
Addressed(c) == {t \in Test : rows[c][t] # "none"}

\* The tab will fetch the open commands of its test anew.
WillRead == sleeping \/ \E i \in DOMAIN fetches : fetches[i].test = running /\ ~fetches[i].read
Hears(t) == socket.at = "open" /\ socket.test = t

\* MonitorController::putCommand: one row for each of the tests, in one statement.
PutCommand(c, tests) ==
  /\ Addressed(c) = {}
  /\ rows' = [rows EXCEPT ![c] = [t \in Test |-> IF t \in tests THEN "open" ELSE "none"]]
  /\ unpushed' = unpushed \cup {c}
  /\ UNCHANGED <<tab, channel, execution, missed, opens, failures>>

\* BroadcastService::send: the broadcaster pushes to the open sockets of these tests.
PushCommand(c) ==
  /\ c \in unpushed
  /\ unpushed' = unpushed \ {c}
  /\ wire' = IF \E t \in Addressed(c) : Hears(t) THEN Append(wire, c) ELSE wire
  /\ missed' = IF listening /\ running \in Addressed(c) /\ ~WillRead
                    /\ ~(subscribed /\ Hears(running))
                 THEN missed \cup {c} ELSE missed
  /\ UNCHANGED <<rows, tab, fetches, socket, subscribed, execution, opens, failures>>

\* TestController::getCommands; there is no token while the broadcaster does not answer.
GetCommands(i) ==
  /\ ~fetches[i].read
  /\ \E token \in TokenGiven :
       fetches' = [fetches EXCEPT ![i] =
                     [@ EXCEPT !.read = TRUE, !.token = token, !.commands = OpenCommands(fetches[i].test)]]
  /\ missed' = IF fetches[i].test = running THEN missed \ OpenCommands(running) ELSE missed
  /\ UNCHANGED <<rows, unpushed, tab, socket, subscribed, wire, execution, opens, failures>>

\* TestController::patchCommandExecuted, also when it is repeated.
PatchCommandExecuted(i) ==
  /\ ~patching[i].marked
  /\ rows[patching[i].command][patching[i].test] # "none"
  /\ rows' = [rows EXCEPT ![patching[i].command][patching[i].test] = "executed"]
  /\ patching' = [patching EXCEPT ![i].marked = TRUE]
  /\ UNCHANGED <<unpushed, tab, channel, queue, alive, executedCommandIds, last, performed,
                 missed, opens, failures>>

-----------------------------------------------------------------------------
(* The connection of the tab *)

PollEndpointAndSubscribeWs(t) ==
  /\ subscribed' = FALSE
  /\ fetches' = Append(fetches, [test |-> t, read |-> FALSE, commands |-> {}, token |-> FALSE])

CutConnection ==
  /\ listening' = FALSE /\ sleeping' = FALSE
  /\ subscribed' = FALSE /\ socket' = NoSocket /\ wire' = <<>>

\* A test is opened and gets RUNNING or PAUSED; the tab had no endpoint before.
OpenTest(t) ==
  /\ running = NoTest /\ opens < MaxOpens
  /\ running' = t /\ testId' = t /\ last' = NoCommand
  /\ listening' = TRUE
  /\ PollEndpointAndSubscribeWs(t)
  /\ opens' = opens + 1
  /\ UNCHANGED <<rows, unpushed, sleeping, socket, wire, queue, patching, alive,
                 executedCommandIds, performed, missed, failures>>

LeftTestId == testId

\* The test ends, which cuts the connection, and its component goes.
LeaveTest ==
  /\ running # NoTest
  /\ running' = NoTest /\ testId' = LeftTestId
  /\ CutConnection
  /\ missed' = {}
  /\ UNCHANGED <<rows, unpushed, fetches, execution, opens, failures>>

\* The backend may or may not get to the PATCHes that the tab forgets.
Abandon(patches) ==
  \E sent \in SUBSET ToSet(patches) :
    rows' = [c \in Command |-> [t \in Test |->
               IF rows[c][t] # "none" /\ (\E p \in sent : p.command = c /\ p.test = t)
                 THEN "executed" ELSE rows[c][t]]]

\* The page is reloaded: the CommandService starts anew, and the test with it.
Reload ==
  /\ running # NoTest /\ opens < MaxOpens
  /\ Abandon(patching)
  /\ listening' = TRUE /\ sleeping' = FALSE
  /\ fetches' = <<[test |-> running, read |-> FALSE, commands |-> {}, token |-> FALSE]>>
  /\ socket' = NoSocket /\ subscribed' = FALSE /\ wire' = <<>>
  /\ queue' = <<>> /\ patching' = <<>> /\ alive' = TRUE /\ executedCommandIds' = {}
  /\ last' = NoCommand
  /\ opens' = opens + 1
  /\ UNCHANGED <<unpushed, running, testId, performed, missed, failures>>

\* The timeout of scheduleNextPoll.
Poll ==
  /\ sleeping
  /\ sleeping' = FALSE
  /\ PollEndpointAndSubscribeWs(running)
  /\ UNCHANGED <<rows, unpushed, running, testId, listening, socket, wire, execution, missed,
                 opens, failures>>

\* "order by timestamp"
InOrder(S) == {s \in [1..Cardinality(S) -> S] : \A i, j \in DOMAIN s : i < j => s[i] < s[j]}

\* Commands pass the filter of subscribeReceivedCommands before they wait.
Receive(commands) ==
  IF alive THEN \E s \in InOrder(commands \ executedCommandIds) : queue' = queue \o s
  ELSE queue' = queue

ScheduleNextPoll == sleeping' = TRUE

\* A socket that is still there is used again, whichever test its token is for.
SubScribeToWsChannel(t) ==
  /\ subscribed' = TRUE
  /\ socket' = IF subscribed \/ socket # NoSocket THEN socket ELSE [at |-> "connecting", test |-> t]

SubscribeOrPollOn(token, t) == SubScribeToWsChannel(t) /\ ScheduleNextPoll
SubscribeOrPoll(token, t) ==
  IF token THEN SubScribeToWsChannel(t) /\ sleeping' = sleeping
  ELSE ScheduleNextPoll /\ UNCHANGED <<subscribed, socket>>

TakeAnswerUnlessToken(f) ==
  Receive(IF f.token THEN {} ELSE f.commands) /\ SubscribeOrPoll(f.token, f.test)
TakeAnswer(f) == Receive(f.commands) /\ SubscribeOrPoll(f.token, f.test)

\* data$ is gone once the connection was cut.
AnswerExpected == listening

\* The answer to a fetch: to any fetch, also to one of a test that was left since.
FetchAnswered(i) ==
  /\ fetches[i].read
  /\ Len(queue) + Len(patching) + Cardinality(fetches[i].commands) <= MaxPending
  /\ fetches' = RemoveAt(fetches, i)
  /\ IF AnswerExpected THEN TakeAnswer(fetches[i])
     ELSE UNCHANGED <<queue, sleeping, subscribed, socket>>
  /\ UNCHANGED <<rows, unpushed, running, testId, listening, wire, patching, alive,
                 executedCommandIds, last, performed, missed, opens, failures>>

\* A fetch fails for good: AppErrorHandler, errorOut and the state ERROR.
FetchFailed(i) ==
  /\ failures < MaxFailures
  /\ failures' = failures + 1
  /\ fetches' = RemoveAt(fetches, i)
  /\ IF running # NoTest THEN CutConnection
     ELSE UNCHANGED <<listening, sleeping, subscribed, socket, wire>>
  /\ UNCHANGED <<rows, unpushed, running, testId, execution, missed, opens>>

SocketOpened ==
  /\ socket.at = "connecting"
  /\ socket' = [socket EXCEPT !.at = "open"]
  /\ UNCHANGED <<rows, unpushed, tab, fetches, subscribed, wire, execution, missed, opens,
                 failures>>

ObserveDisconnection == IF subscribed THEN ScheduleNextPoll ELSE sleeping' = sleeping

\* The socket is refused, breaks or is closed by the server: wsConnected$ is
\* "disconnected", and the tab that observes it goes back to polling.
SocketLost ==
  /\ socket # NoSocket /\ failures < MaxFailures
  /\ failures' = failures + 1
  /\ socket' = NoSocket /\ wire' = <<>>
  /\ ObserveDisconnection
  /\ UNCHANGED <<rows, unpushed, running, testId, listening, fetches, subscribed, execution,
                 missed, opens>>

NextUnlessFetching(c) == IF subscribed /\ fetches = <<>> THEN Receive({c}) ELSE queue' = queue
NextPushed(c) == IF subscribed THEN Receive({c}) ELSE queue' = queue

CommandPushed ==
  /\ wire # <<>>
  /\ Len(queue) + Len(patching) < MaxPending
  /\ wire' = Tail(wire)
  /\ NextPushed(Head(wire))
  /\ UNCHANGED <<rows, unpushed, tab, fetches, socket, subscribed, patching, alive,
                 executedCommandIds, last, performed, missed, opens, failures>>

-----------------------------------------------------------------------------
(* The execution in the tab *)

PatchOf(c) == [command |-> c, test |-> testId, marked |-> FALSE]

\* concatMap lets the next command pass, at the earliest a second after the last one.
MarkAsExecuted ==
  /\ queue # <<>>
  /\ queue' = Tail(queue)
  /\ patching' = Append(patching, PatchOf(Head(queue)))
  /\ UNCHANGED <<rows, unpushed, tab, channel, alive, executedCommandIds, last, performed,
                 missed, opens, failures>>

\* The PATCH is answered, and the component performs the command in its own test.
Perform(i) ==
  LET c == patching[i].command IN
  /\ patching[i].marked
  /\ patching' = RemoveAt(patching, i)
  /\ executedCommandIds' = executedCommandIds \cup {c}
  /\ last' = IF running = NoTest THEN last ELSE c
  /\ performed' = IF running = NoTest \/ c = last \/ performed[c][running] = 2 THEN performed
                  ELSE [performed EXCEPT ![c][running] = @ + 1]
  /\ UNCHANGED <<rows, unpushed, tab, channel, queue, alive, missed, opens, failures>>

\* A PATCH fails for good, or the test it names has no such command: the error ends
\* commandSubscription, for the rest of the tab's life, and is an AppError.
PatchFailed(i) ==
  /\ \/ failures < MaxFailures /\ failures' = failures + 1
     \/ rows[patching[i].command][patching[i].test] = "none" /\ failures' = failures
  /\ Abandon(patching)
  /\ patching' = <<>> /\ queue' = <<>> /\ alive' = FALSE
  /\ IF running # NoTest THEN CutConnection
     ELSE UNCHANGED <<listening, sleeping, subscribed, socket, wire>>
  /\ UNCHANGED <<unpushed, running, testId, fetches, executedCommandIds, last, performed,
                 missed, opens>>

Next ==
  \/ \E c \in Command, tests \in (SUBSET Test) \ {{}} : PutCommand(c, tests)
  \/ \E c \in Command : PushCommand(c)
  \/ \E t \in Test : OpenTest(t)
  \/ LeaveTest \/ Reload \/ Poll
  \/ SocketOpened \/ SocketLost \/ CommandPushed \/ MarkAsExecuted
  \/ \E i \in DOMAIN fetches : GetCommands(i)
  \/ \E i \in DOMAIN fetches : FetchAnswered(i)
  \/ \E i \in DOMAIN fetches : FetchFailed(i)
  \/ \E i \in DOMAIN patching : PatchCommandExecuted(i)
  \/ \E i \in DOMAIN patching : Perform(i)
  \/ \E i \in DOMAIN patching : PatchFailed(i)

Spec == Init /\ [][Next]_vars

(* The broadcaster pushes what it is sent, requests are read and answered, timeouts   *)
(* and the queue go on.  Nothing is assumed of the testee, the monitor or failures.   *)
Fairness ==
  /\ \A c \in Command : WF_vars(PushCommand(c))
  /\ WF_vars(Poll) /\ WF_vars(SocketOpened) /\ WF_vars(CommandPushed) /\ WF_vars(MarkAsExecuted)
  /\ WF_vars(fetches # <<>> /\ GetCommands(1)) /\ WF_vars(fetches # <<>> /\ FetchAnswered(1))
  /\ WF_vars(patching # <<>> /\ PatchCommandExecuted(1)) /\ WF_vars(patching # <<>> /\ Perform(1))

LiveSpec == Spec /\ Fairness

-----------------------------------------------------------------------------
(* Properties *)

(* The tab performs, and counts as performed, only what the backend has marked as   *)
(* executed: a command that was performed is not handed out again for its test.     *)
PerformedIsMarked ==
  \A c \in Command :
    c \in executedCommandIds \/ (\E t \in Test : performed[c][t] > 0)
      => \E t \in Test : rows[c][t] = "executed"

(* While a test runs something will bring its commands: a poll that is scheduled, a  *)
(* fetch under way or a socket.  No order of answers, broken sockets and late        *)
(* answers of an earlier test ends the chain of WebsocketBackendService.             *)
NeverDeaf == listening => sleeping \/ fetches # <<>> \/ (subscribed /\ socket # NoSocket)

(* A test that is left is neither polled nor listened to, even when the answer to    *)
(* its fetch comes late.                                                             *)
ConnectionEndsWithTest == ~listening => ~sleeping /\ ~subscribed /\ socket = NoSocket

(* Broken sockets and late answers do not multiply the polling: each time a test is  *)
(* opened begins one chain.                                                          *)
PollsDoNotMultiply ==
  Len(fetches) + (IF sleeping THEN 1 ELSE 0) + (IF subscribed /\ socket # NoSocket THEN 1 ELSE 0)
    <= opens

\* However answers, sockets and openings of tests interleave, the tab has one connection for
\* the test that runs, and none when none does.
OneConnectionPerTest == TypeOK /\ NeverDeaf /\ ConnectionEndsWithTest /\ PollsDoNotMultiply

\* On the way to the tab, or in it.
UnderWay(c) ==
  \/ c \in unpushed \/ WillRead
  \/ \E i \in DOMAIN fetches : c \in fetches[i].commands
  \/ c \in ToSet(wire) \/ c \in ToSet(queue) \/ \E i \in DOMAIN patching : patching[i].command = c

\* The tab filters the command as known, or it fell into the gap between the fetch
\* and the opening of the socket, or an error ended the execution of commands.
GivenUp(c) == c \in executedCommandIds \/ c \in missed \/ ~alive \/ ~listening

(* An open command of the running test is on its way, unless it is given up for one  *)
(* of the known reasons: no other loss is possible.                                  *)
NothingIsLost == running # NoTest => \A c \in OpenCommands(running) : UnderWay(c) \/ GivenUp(c)

(* ... and it does not stay on its way: it is executed, or the test is left.          *)
OpenCommandIsExecuted ==
  \A c \in Command, t \in Test :
    running = t /\ rows[c][t] = "open"
      ~> rows[c][t] = "executed" \/ running # t \/ GivenUp(c)
=============================================================================
