------------------------------ MODULE TestController ------------------------------
(* A testee's browser tab with a running test: the TestControllerService, the      *)
(* router with its guards, the dialogs they show, navigation requests that wait    *)
(* for the buffers, the timer, the commands of a group monitor, and what of the    *)
(* test state reached the backend.                                                 *)
EXTENDS TestControllerService, Sequences

CONSTANTS
  GivenTime,    \* remaining times the group monitor gives to a closed block
  MaxCommands,  \* bound: commands the group monitor sends
  MaxLoads      \* bound: times the test is loaded (started, reloaded or entered again)

ASSUME BoundAssumption == GivenTime \subseteq Nat \ {0} /\ MaxCommands \in Nat /\ MaxLoads \in Nat

VARIABLES
  tc,          \* the TestControllerService
  page,        \* what the router shows; "loading" before the first unit is opened
  redirect,    \* unit an activation guard has redirected the router to, or NoUnit
  requests,    \* setUnitNavigationRequests that wait for closeAllBuffers
  dialogs,     \* open confirm dialogs; live while the navigation that asked still waits
  saved,       \* the backend's record of the test
  ending,      \* terminateTest waits for the buffers to be saved, and will lock the test or not
  testLocked,  \* the backend has locked the test
  movedBy,     \* who caused the last navigation (history)
  reopened,    \* units the group monitor has sent the testee to (history)
  commands, loads

vars == <<tc, page, redirect, requests, dialogs, saved, ending, testLocked, movedBy,
          reopened, commands, loads>>
outside == <<saved, testLocked, reopened, loads>>

Page == {"loading", "unit", "status", "starter"}
Mover == {"nobody", "testee", "timer", "monitor", "loader"}
RelativeTarget == {"NEXT", "PREVIOUS", "FIRST", "LAST"}
Request == [by : Mover, target : RelativeTarget \cup {"PAUSE"}, force : BOOLEAN]
Dialog == [asks : {"timer", "lock", "end"}, unit : UnitOrNone, to : UnitOrNone,
           exit : BOOLEAN, endsTest : BOOLEAN, live : BOOLEAN]

TypeOK ==
  /\ tc \in ServiceState
  /\ page \in Page
  /\ redirect \in UnitOrNone
  /\ requests \in Seq(Request)
  /\ dialogs \subseteq Dialog
  /\ saved \in TestState
  /\ ending \in {"no", "leave", "lock"}
  /\ testLocked \in BOOLEAN
  /\ movedBy \in Mover
  /\ reopened \subseteq Unit
  /\ commands \in 0..MaxCommands
  /\ loads \in 0..MaxLoads

Init ==
  /\ tc = RestoreLastState(NewTestState, {})
  /\ page = "starter"
  /\ redirect = NoUnit /\ requests = <<>> /\ dialogs = {}
  /\ saved = NewTestState
  /\ ending = "no" /\ testLocked = FALSE /\ movedBy = "nobody" /\ reopened = {}
  /\ commands = 0 /\ loads = 0

----------------------------------------------------------------------------------
\* Navigations of the router.  A new one supersedes the one before it; a dialog that asked
\* for the superseded one stays open, and its answer still has its effect.
Superseded == {[d EXCEPT !.live = FALSE] : d \in dialogs}

Stay(s) == tc' = s /\ page' = page /\ redirect' = NoUnit

\* The activation guards, and the unit host that opens the unit.
Activate(s, to, from) ==
  \/ /\ ActivationBlocked(s) \/ (to = NoUnit /\ Detour(s, to) = NoUnit)
     /\ tc' = s /\ page' = from /\ redirect' = NoUnit
  \/ /\ ~ActivationBlocked(s) /\ Detour(s, to) # NoUnit
     /\ tc' = s /\ page' = from /\ redirect' = Detour(s, to)
  \/ /\ ~ActivationBlocked(s) /\ to # NoUnit /\ Detour(s, to) = NoUnit
     /\ tc' = Open(s, to) /\ page' = "unit" /\ redirect' = NoUnit

Checked(s, force) == page = "unit" /\ ~FreeToLeave(s) /\ ~force
LeftUnchecked(s) == IF page # "unit" \/ FreeToLeave(s) THEN s ELSE InterruptTimer(s)

\* A check asks before the unit is left: the navigation waits for the answer.
Ask(s, to, exit) ==
  LET endsTest == exit /\ SaveResponses /\ IsTestOngoing(s)
      dialog(asks) == [asks |-> asks, unit |-> s.current, to |-> to, exit |-> exit,
                       endsTest |-> endsTest, live |-> TRUE] IN
  \/ AsksForTimer(s, to) /\ Stay(s) /\ dialogs' = Superseded \cup {dialog("timer")}
  \/ AsksForLock(s, to) /\ Stay(SolveTimer(s, to)) /\ dialogs' = Superseded \cup {dialog("lock")}

\* The router follows a redirect in the same task, before anything else happens.
Quiet == redirect = NoUnit

\* router.navigate to a unit.  The address shown is no navigation at all.
Go(s, to, force) ==
  \/ page = "unit" /\ to # NoUnit /\ to = s.current /\ Stay(s) /\ dialogs' = Superseded
  \/ /\ page # "unit" \/ to # s.current
     /\ \/ ~Checked(s, force) /\ Activate(LeftUnchecked(s), to, page) /\ dialogs' = Superseded
        \/ Checked(s, force) /\ Denies(s, to) /\ Stay(s) /\ dialogs' = Superseded
        \/ Checked(s, force) /\ Ask(s, to, FALSE)
        \/ /\ Checked(s, force) /\ Allows(s, to)
           /\ Activate(SolveLeave(s, to), to, page) /\ dialogs' = Superseded

\* A unit is asked for by its number: the current one is opened again, without any guard.
GoToUnit(s, u, force) ==
  IF page = "unit" /\ u = s.current
  THEN Stay(Open(s, u)) /\ dialogs' = Superseded
  ELSE Go(s, u, force)

FollowRedirect ==
  /\ redirect # NoUnit
  /\ Go(tc, redirect, FALSE)
  /\ UNCHANGED <<requests, ending, movedBy, commands, outside>>

----------------------------------------------------------------------------------
\* Leaving the test for the starter page, and ending it.
BeginEnding(s) ==
  /\ Stay(Terminate(s))
  /\ ending' = IF s.state = "TERMINATED" THEN ending
               ELSE IF LockTestOnTermination THEN "lock" ELSE "leave"

\* confirmEndTestIfNeeded
ConfirmEnd(s, open) ==
  IF ~SaveResponses \/ ~IsTestOngoing(s)
  THEN /\ tc' = s /\ page' = "starter" /\ redirect' = NoUnit
       /\ dialogs' = open /\ ending' = ending
  ELSE IF ~ShouldShowConfirmationUI /\ ~LockTestOnTermination
  THEN BeginEnding(s) /\ dialogs' = open
  ELSE /\ Stay(s) /\ ending' = ending
       /\ dialogs' = open \cup {[asks |-> "end", unit |-> s.current, to |-> NoUnit,
                                 exit |-> TRUE, endsTest |-> TRUE, live |-> TRUE]}

\* requestTestEnd, the logo, and an END request of the player
RequestTestEnd ==
  /\ Quiet
  /\ page \in {"unit", "status"} /\ dialogs = {} /\ ending = "no"
  /\ \/ ~Checked(tc, FALSE) /\ ConfirmEnd(tc, {})
     \/ Checked(tc, FALSE) /\ Denies(tc, NoUnit) /\ Stay(tc) /\ UNCHANGED <<dialogs, ending>>
     \/ Checked(tc, FALSE) /\ Ask(tc, NoUnit, TRUE) /\ UNCHANGED ending
     \/ Checked(tc, FALSE) /\ Allows(tc, NoUnit) /\ ConfirmEnd(SolveLeave(tc, NoUnit), {})
  /\ movedBy' = "testee"
  /\ UNCHANGED <<requests, commands, outside>>

\* terminateTest after its wait: everything is saved, the test is locked if it has to be,
\* and the forced navigation to the starter passes the guards.
LeaveEnded ==
  /\ testLocked' = (testLocked \/ ending = "lock")
  /\ ending' = "no"
  /\ tc' = LeftUnchecked(tc) /\ page' = "starter" /\ redirect' = NoUnit
  /\ requests' = <<>> /\ dialogs' = {}
  /\ UNCHANGED <<movedBy, reopened, commands, loads>>

FinishEndingUnsaved == Quiet /\ ending # "no" /\ LeaveEnded /\ saved' = saved
FinishEnding ==
  /\ Quiet /\ ending # "no" /\ LeaveEnded
  /\ saved' = IF SaveResponses THEN tc.testState ELSE saved

\* The answer to a dialog.  Only its cancel button leaves; a click beside it stays.
AnswerStay(d) ==
  /\ dialogs' = dialogs \ {d}
  /\ UNCHANGED <<tc, page, redirect, requests, ending, movedBy, commands, outside>>

OnConfirmed(d) ==
  CASE d.asks = "timer" -> CancelTimer(tc)
    [] d.asks = "lock" -> LeaveLock(tc, d.unit)
    [] OTHER -> tc

AnswerLeave(d) ==
  /\ LET s == OnConfirmed(d)
         others == dialogs \ {d} IN
     \/ d.endsTest /\ BeginEnding(s) /\ dialogs' = others
     \/ ~d.endsTest /\ d.exit /\ d.live /\ ConfirmEnd(s, others)
     \/ /\ ~d.exit /\ d.live
        /\ Activate(s, d.to, page) /\ dialogs' = others /\ ending' = ending
     \/ ~d.endsTest /\ ~d.live /\ Stay(s) /\ dialogs' = others /\ ending' = ending
  /\ movedBy' = "testee"
  /\ UNCHANGED <<requests, commands, outside>>

Answer == Quiet /\ \E d \in dialogs : page # "starter" /\ (AnswerStay(d) \/ AnswerLeave(d))

----------------------------------------------------------------------------------
\* The testee.  A dialog covers everything else.
Active == Quiet /\ page = "unit" /\ dialogs = {}

Waiting(by) == \E i \in 1..Len(requests) : requests[i].by = by
Enqueue(by, target, force) ==
  requests' = Append(requests, [by |-> by, target |-> target, force |-> force])

SelectUnit(u) ==
  /\ Active
  /\ GoToUnit(tc, u, FALSE)
  /\ movedBy' = "testee"
  /\ UNCHANGED <<requests, ending, commands, outside>>

RequestNavigation(target) ==
  /\ Active /\ ~Waiting("testee")
  /\ Enqueue("testee", target, FALSE)
  /\ UNCHANGED <<tc, page, redirect, dialogs, ending, movedBy, commands, outside>>

SubmitCode ==
  /\ Active /\ tc.current # NoUnit /\ LockedByCode(tc, tc.current)
  /\ tc' = RunUnit(ClearCodeLock(tc, LockedThrough(tc, tc.current)))
  /\ UNCHANGED <<page, redirect, requests, dialogs, ending, movedBy, commands, outside>>

\* The player of the current unit reports its progress.
ReportProgress(done) ==
  /\ Quiet /\ page = "unit" /\ ~Locked(tc, tc.current)
  /\ DenyIncomplete[ParentOf[tc.current]] # "OFF"
  /\ LET complete == IF done THEN tc.complete \cup {tc.current} ELSE tc.complete \ {tc.current} IN
     tc' = [tc EXCEPT !.complete = complete, !.testState.complete = complete]
  /\ UNCHANGED <<page, redirect, requests, dialogs, ending, movedBy, commands, outside>>

\* A buffer of responses is closed and conditions have other values than before.
EvaluateConditions(shown) ==
  /\ Quiet /\ page = "unit" /\ tc.show # Conditional \ shown
  /\ tc' = UpdateAllShowLocks(tc, shown)
  /\ UNCHANGED <<page, redirect, requests, dialogs, ending, movedBy, commands, outside>>

----------------------------------------------------------------------------------
\* A request whose closeAllBuffers is done.
CarryOut(r) ==
  /\ \/ /\ r.target = "PAUSE"
        /\ tc' = LeftUnchecked(tc) /\ page' = "status" /\ redirect' = NoUnit
        /\ dialogs' = Superseded
     \/ r.target = "NEXT" /\ Go(tc, tc.navigation.next, r.force)
     \/ r.target = "PREVIOUS" /\ Go(tc, tc.navigation.previous, r.force)
     \/ r.target = "FIRST" /\ Go(tc, tc.navigation.first, r.force)
     \/ r.target = "LAST" /\ Go(tc, tc.navigation.last, r.force)
  /\ movedBy' = r.by /\ requests' = Tail(requests)
  /\ UNCHANGED <<ending, commands, outside>>

ProcessRequestUnlessAsked == Quiet /\ requests # <<>> /\ dialogs = {} /\ CarryOut(Head(requests))

ProcessRequest == Quiet /\ requests # <<>> /\ CarryOut(Head(requests))

\* The ticker of the running timer; the last event before ENDED says that no time is left.
TickToOne ==
  /\ Quiet /\ page # "starter" /\ tc.timerId # NoTimer
  /\ tc.timers[tc.timerId] > 1
  /\ tc' = SetTimeLeft(tc, tc.timerId, tc.timers[tc.timerId] - 1)
  /\ UNCHANGED <<page, redirect, requests, dialogs, ending, movedBy, commands, outside>>

Tick ==
  /\ Quiet /\ page # "starter" /\ tc.timerId # NoTimer
  /\ tc.timers[tc.timerId] > 0
  /\ tc' = SetTimeLeft(tc, tc.timerId, tc.timers[tc.timerId] - 1)
  /\ UNCHANGED <<page, redirect, requests, dialogs, ending, movedBy, commands, outside>>

TimerEnded ==
  /\ Quiet /\ page # "starter" /\ tc.timerId # NoTimer
  /\ tc.timers[tc.timerId] <= 0
  /\ tc' = CloseTimedBlock(tc)
  /\ IF ForceTimeRestrictions THEN Enqueue("timer", "NEXT", TRUE) ELSE UNCHANGED requests
  /\ UNCHANGED <<page, redirect, dialogs, ending, movedBy, commands, outside>>

----------------------------------------------------------------------------------
\* Commands of the group monitor.  They come a second apart and end with the test.
Commanded ==
  /\ Quiet
  /\ commands < MaxCommands /\ commands' = commands + 1
  /\ page \in {"unit", "status"} /\ IsTestOngoing(tc)
  /\ ~Waiting("monitor")

Pause ==
  /\ Commanded
  /\ tc' = SetState(InterruptTimer(tc), "PAUSED")
  /\ Enqueue("monitor", "PAUSE", TRUE)
  /\ UNCHANGED <<page, redirect, dialogs, ending, movedBy, outside>>

Resume ==
  /\ Commanded
  /\ LET s == SetState(tc, "RUNNING") IN
     \/ /\ tc.current # NoUnit
        /\ GoToUnit(s, tc.current, TRUE)
        /\ movedBy' = "monitor" /\ UNCHANGED requests
     \/ /\ tc.current = NoUnit
        /\ tc' = s /\ Enqueue("monitor", "FIRST", TRUE)
        /\ UNCHANGED <<page, redirect, dialogs, movedBy>>
  /\ UNCHANGED <<ending, outside>>

TerminateCommand(lock) ==
  /\ Commanded
  /\ tc' = Terminate(tc)
  /\ ending' = IF lock THEN "lock" ELSE "leave"
  /\ UNCHANGED <<page, redirect, requests, dialogs, movedBy, outside>>

\* What goto does before it navigates.
PrepareGoto(s, u, given) ==
  LET t == ParentOf[u]
      timed == IF s.current = NoUnit \/ TimerOf(t) # TimerOfUnit(s.current)
               THEN RestoreTime(CancelTimer(s), t, given) ELSE s
      unlocked == UpdateNavigationState([timed EXCEPT !.afterLeave = @ \ {t}]) IN
  ClearCodeLock([unlocked EXCEPT !.lockedUnits = @ \ {u}], t)

Goto(u, given) ==
  /\ Commanded
  /\ GoToUnit(PrepareGoto(SetState(tc, "RUNNING"), u, given), u, TRUE)
  /\ movedBy' = "monitor" /\ reopened' = reopened \cup {u}
  /\ UNCHANGED <<requests, ending, saved, testLocked, loads>>

----------------------------------------------------------------------------------
\* An error ends the test in this tab.
ErrorOut ==
  /\ Quiet /\ page = "unit" /\ tc.state # "ERROR"
  /\ tc' = SetState(tc, "ERROR")
  /\ UNCHANGED <<page, redirect, requests, dialogs, ending, movedBy, commands, outside>>

\* The buffers are flushed and their patches arrive.  Bound: not when no load follows any more.
SaveBuffers ==
  /\ Quiet
  /\ SaveResponses /\ page # "starter" /\ saved # tc.testState /\ loads < MaxLoads
  /\ saved' = tc.testState
  /\ UNCHANGED <<tc, page, redirect, requests, dialogs, ending, testLocked, movedBy,
                 reopened, commands, loads>>

\* The test is entered, or its page is reloaded: what was not saved is lost.
Load(shown) ==
  /\ Quiet
  /\ loads < MaxLoads /\ loads' = loads + 1
  /\ ~testLocked
  /\ LET s == RestoreLastState(saved, shown)
         resumed == IF saved.unit = NoUnit THEN 1 ELSE saved.unit IN
     IF saved.controller \in {"PAUSED", "TERMINATED_PAUSED"}
     THEN /\ tc' = SetState(s, "PAUSED") /\ page' = "loading" /\ redirect' = NoUnit
          /\ requests' = <<[by |-> "loader", target |-> "PAUSE", force |-> FALSE]>>
     ELSE Activate(SetState(s, "RUNNING"), resumed, "loading") /\ requests' = <<>>
  /\ dialogs' = {} /\ ending' = "no" /\ movedBy' = "loader"
  /\ UNCHANGED <<saved, testLocked, reopened, commands>>

Next ==
  \/ FollowRedirect
  \/ \E u \in Unit : SelectUnit(u)
  \/ \E target \in RelativeTarget : RequestNavigation(target)
  \/ SubmitCode \/ RequestTestEnd \/ Answer
  \/ \E done \in BOOLEAN : ReportProgress(done)
  \/ \E shown \in SUBSET Conditional : EvaluateConditions(shown) \/ Load(shown)
  \/ ProcessRequest \/ Tick \/ TimerEnded
  \/ Pause \/ Resume
  \/ \E lock \in BOOLEAN : TerminateCommand(lock)
  \/ \E u \in Unit, given \in GivenTime \cup {NotANumber} : Goto(u, given)
  \/ ErrorOut \/ FinishEnding \/ SaveBuffers

Spec == Init /\ [][Next]_vars

\* Router, buffers and ticker of an open tab go on by themselves.  A redirect is followed in
\* the same task, so it cannot starve the others: they are strongly fair.
Fairness == /\ WF_vars(FollowRedirect)
            /\ SF_vars(ProcessRequest)
            /\ SF_vars(Tick)
            /\ SF_vars(TimerEnded)
            /\ SF_vars(FinishEnding)
LiveSpec == Spec /\ Fairness

----------------------------------------------------------------------------------
\* Nothing of the last navigation is still under way.
Settled == redirect = NoUnit /\ requests = <<>> /\ ending = "no"

\* While a unit is shown, a running timer is the timer of its own block: time is neither
\* taken from a block the testee has left nor does its end lock another one.
RunningTimerIsOfCurrentBlock ==
  page = "unit" /\ tc.timerId # NoTimer => TimerOfUnit(tc.current) = tc.timerId

\* Whoever works on a unit of a timed block spends its time: after a pause, a goto, a code or
\* a dialog too.  Not so where no open unit follows: the forced NEXT at the end of a block,
\* overtaken by a navigation to here, goes nowhere and stops this timer.
TimedUnitRunsTimer ==
     /\ ForceTimeRestrictions /\ Settled /\ page = "unit" /\ tc.state = "RUNNING"
     /\ tc.navigation.next # NoUnit
     /\ TimerOfUnit(tc.current) # NoTimer /\ ~Locked(tc, tc.current)
  => tc.timerId = TimerOfUnit(tc.current)

\* The time of a paused test stands still.
PausedHasNoTimer == page = "status" /\ tc.state = "PAUSED" => tc.timerId = NoTimer

\* Through pauses, gotos, codes, dialogs and reloads, the timer that runs is the one of the
\* block the testee works in, and none runs where nobody works.
TimerFollowsUnit ==
  TypeOK /\ RunningTimerIsOfCurrentBlock /\ TimedUnitRunsTimer /\ PausedHasNoTimer

\* While time is left it only gets less, however often the block is left, paused or
\* entered again (startTimer, restoreTime).
TimeRunsDown ==
  [][\A t \in Testlet : tc.timers[t] > 0 /\ loads' = loads => tc'.timers[t] <= tc.timers[t]]_vars

\* A block or unit that was locked when it was left stays locked, also after the page was
\* reloaded, unless the group monitor has sent the testee there.
LeaveLocksHold ==
  /\ saved.lockedTestlets \ {ParentOf[u] : u \in reopened} \subseteq tc.afterLeave
  /\ saved.lockedUnits \ reopened \subseteq tc.lockedUnits

\* As long as its time runs, a testee does not get out of a block that must not be left,
\* neither to another unit nor by ending the test.
ForbiddenBlockIsNotLeft ==
  [][   /\ ForceTimeRestrictions /\ page = "unit" /\ tc.state = "RUNNING"
        /\ tc.timerId # NoTimer /\ TimerOfUnit(tc.current) = tc.timerId
        /\ Leave[tc.timerId] = "forbidden"
        /\ movedBy' = "testee" /\ commands' = commands /\ \A d \in dialogs : d.live
     => /\ page' = "unit" /\ TimerOfUnit(tc'.current) = tc.timerId
        /\ tc'.state \in {"RUNNING", "ERROR"}]_vars

\* A testee does not get past a unit that is not complete where that is denied, by whatever
\* way; a unit that was complete when a dialog asked may have changed since.
IncompleteUnitIsNotPassed ==
  [][   /\ ForceNaviRestrictions /\ dialogs = {} /\ page = "unit" /\ tc.state = "RUNNING"
        /\ ~Locked(tc, tc.current)
        /\ DenyIncomplete[ParentOf[tc.current]] # "OFF"
        /\ tc.current \notin tc.complete \cup tc.lockedUnits /\ movedBy' = "testee"
     => page' = "unit" /\ tc'.current <= tc.current]_vars

\* When the time of a block is over, its testee is moved to a unit that is open, forward or
\* backward, and is not left in the closed block unless all are closed.  (Opening a closed
\* unit does not compute the navigation targets anew; then the request aims at old ones.)
NotLeftInClosedBlock ==
     /\ Settled /\ dialogs = {} /\ page = "unit" /\ tc.state = "RUNNING" /\ movedBy = "timer"
     /\ tc.navigation = GetNavigationState(tc, tc.current)
     /\ UnitIsInaccessible(tc, tc.current)
  => \A u \in Unit : UnitIsInaccessible(tc, u)

\* A block carries the time lock only when it has a time limit and its time is over.
TimeLockMeansTimeIsOver ==
  \A t \in tc.time : TimerOf(t) # NoTimer /\ tc.timers[TimerOf(t)] <= 0

\* Reloading the page with everything saved does not shut the testee out of the unit that
\* was open, as long as no goto has unlocked anything and no condition has changed since.
ReloadKeepsAccess ==
  [][   /\ loads' # loads /\ page = "unit" /\ saved = tc.testState /\ reopened = {}
        /\ ~UnitIsInaccessible(tc, tc.current) /\ tc'.show \subseteq tc.show
        /\ \A t \in Above[ParentOf[tc.current]] : tc.timers[t] # 0
     => ~UnitIsInaccessible(tc', saved.unit)]_vars

\* A test whose answers count is not left unended, and an ended test has been saved
\* completely (confirmEndTestIfNeeded, terminateTest).  An error leaves it as it is.
LeftTestIsEndedAndSaved ==
     /\ SaveResponses /\ page = "starter" /\ loads > 0 /\ ending = "no" /\ tc.state # "ERROR"
  => tc.state \in {"TERMINATED", "TERMINATED_PAUSED"} /\ saved = tc.testState

\* Where the mode forces nothing and stores nothing, no unit is ever closed for having been
\* left or because its time is over, and nothing reaches the backend (RUN-DEMO, RUN-REVIEW).
UnforcedModeClosesNothing ==
  ~ForceTimeRestrictions /\ ~ForceNaviRestrictions /\ ~SaveResponses =>
    /\ tc.time = {} /\ tc.afterLeave = {} /\ tc.lockedUnits = {}
    /\ saved = NewTestState

\* While the test is on screen a running timer comes to an end, or it is stopped.  (Only
\* after an error the test is left with the ticker still on, with nobody listening.)
TimerStops ==
  \A t \in Testlet : (tc.timerId = t /\ page # "starter") ~> (tc.timerId # t \/ page = "starter")

\* What was requested while the buffers were closing is carried out or superseded.
RequestsAreDone == requests # <<>> ~> requests = <<>>
\* A test that is being ended is left.
EndedTestIsLeft == ending # "no" ~> ending = "no"
\* Nothing that waits for the buffers waits for ever.
WaitingComesToAnEnd == RequestsAreDone /\ EndedTestIsLeft
=============================================================================
