-------------------------- MODULE TestControllerService --------------------------
(* The TestControllerService of the frontend as operators on its own state: a     *)
(* record tc of the fields the service keeps for a running test, and one operator *)
(* per method, which returns the record the method leaves behind.  TestController *)
(* composes them with the router, the dialogs, the buffers and the commands.      *)
(* Time is counted in ticks of 15 seconds, the distance of two saved times.       *)
EXTENDS Integers

CONSTANTS
  UnitCount,       \* the units of the booklet are numbered 1..UnitCount
  Testlet,         \* the testlets (blocks), the root among them
  Above,           \* testlet -> the testlet itself and all it is contained in
  ParentOf,        \* unit -> its testlet
  FirstInBlock,    \* units that are the first child unit of their testlet
  MaxTime,         \* testlet -> ticks of timeMax, 0 when it has none
  Leave,           \* testlet -> timeMax.leave
  Coded,           \* testlets with codeToEnter
  LockScope,       \* testlet -> lockAfterLeaving.scope or "none"
  LockConfirm,     \* testlets with lockAfterLeaving.confirm
  Conditional,     \* testlets with show
  DenyIncomplete,  \* testlet -> denyNavigationOnIncomplete, the booklet's value inherited
  ForceTimeRestrictions, ForceNaviRestrictions, SaveResponses,  \* the test mode
  LockTestOnTermination, SilentMode                             \* the booklet's config

Unit == 1..UnitCount
NoUnit == 0
NoTimer == "no timer"
NotStarted == -1   \* no entry in timers
NotANumber == -2   \* the number a command without a new remaining time is parsed to

ASSUME BookletAssumption ==
  /\ UnitCount \in Nat \ {0}
  /\ Above \in [Testlet -> SUBSET Testlet]
  /\ \A t \in Testlet : /\ t \in Above[t]
                        /\ \A a \in Above[t] : t \in Above[a] => a = t
                        /\ \A T \in (SUBSET Above[t]) \ {{}} : \E a \in T : \A b \in T : a \in Above[b]
  /\ ParentOf \in [Unit -> Testlet]
  /\ NoTimer \notin Testlet
\* Testlets form a tree, and units are numbered in the order of the document.
ASSUME OrderAssumption ==
  /\ \A t \in Testlet : \A a \in Above[t] : Above[a] \subseteq Above[t]
  /\ \A u, v, w \in Unit : u < v /\ v < w =>
       Above[ParentOf[u]] \cap Above[ParentOf[w]] \subseteq Above[ParentOf[v]]
ASSUME RestrictionAssumption ==
  /\ MaxTime \in [Testlet -> Nat]
  /\ Leave \in [Testlet -> {"forbidden", "allowed", "confirm"}]
  /\ LockScope \in [Testlet -> {"none", "testlet", "unit"}]
  /\ DenyIncomplete \in [Testlet -> {"OFF", "ON", "ALWAYS"}]
  /\ Coded \subseteq Testlet /\ LockConfirm \subseteq Testlet /\ Conditional \subseteq Testlet
  /\ FirstInBlock \subseteq Unit
ASSUME ModeAssumption ==
  /\ ForceTimeRestrictions \in BOOLEAN /\ ForceNaviRestrictions \in BOOLEAN
  /\ SaveResponses \in BOOLEAN
  /\ LockTestOnTermination \in BOOLEAN /\ SilentMode \in BOOLEAN

State == {"INIT", "RUNNING", "PAUSED", "TERMINATED", "TERMINATED_PAUSED", "ERROR"}
UnitOrNone == Unit \cup {NoUnit}
Times == [Testlet -> Int]
NavigationTargets == [next : UnitOrNone, previous : UnitOrNone,
                      first : UnitOrNone, last : UnitOrNone]

\* What the buffers have taken up and the backend holds once they are flushed: the test
\* state entries and the progress of the units.
TestState == [controller : State, unit : UnitOrNone, timeLeft : Times,
              clearedCode : SUBSET Testlet, lockedTestlets : SUBSET Testlet,
              lockedUnits : SUBSET Unit, complete : SUBSET Unit]

\* show, time, code and afterLeave are the testlets that carry the lock of that name.
ServiceState == [state : State, current : UnitOrNone,
                 show : SUBSET Testlet, time : SUBSET Testlet,
                 code : SUBSET Testlet, afterLeave : SUBSET Testlet,
                 lockedUnits : SUBSET Unit, complete : SUBSET Unit,
                 timers : Times, timerId : Testlet \cup {NoTimer},
                 navigation : NavigationTargets, testState : TestState]

----------------------------------------------------------------------------------
\* Of testlets that contain one another, the outermost.
Outermost(T) == CHOOSE a \in T : \A b \in T : a \in Above[b]

\* Testlet.timerId: the outermost timed testlet passes its timer on to all inside.
TimerOf(t) == LET timed == {a \in Above[t] : MaxTime[a] # 0} IN
              IF timed = {} THEN NoTimer ELSE Outermost(timed)
TimerOfUnit(u) == IF u = NoUnit THEN NoTimer ELSE TimerOf(ParentOf[u])

\* Testlet.locked: the testlets above a unit that carry a lock; the outermost one counts,
\* and of its locks the first in the order show, time, code, afterLeave.
LocksAbove(tc, u) ==
  Above[ParentOf[u]] \cap (tc.show \cup tc.time \cup tc.code \cup tc.afterLeave)
Locked(tc, u) == LocksAbove(tc, u) # {}
LockedThrough(tc, u) == Outermost(LocksAbove(tc, u))
LockedByCode(tc, u) == /\ Locked(tc, u)
                       /\ LockedThrough(tc, u) \in tc.code \ (tc.show \cup tc.time)

\* The first unit of a block that waits for its code may be entered, to enter the code.
UnitIsInaccessible(tc, u) ==
  \/ u \in tc.lockedUnits
  \/ Locked(tc, u) /\ ~ /\ LockedByCode(tc, u)
                        /\ u \in FirstInBlock
                        /\ ParentOf[u] \notin tc.show \cup tc.time \cup tc.afterLeave

Lowest(U) == IF U = {} THEN NoUnit ELSE CHOOSE u \in U : \A v \in U : u <= v
Highest(U) == IF U = {} THEN NoUnit ELSE CHOOSE u \in U : \A v \in U : v <= u

GetNavigationState(tc, from) ==
  LET open == {u \in Unit : ~UnitIsInaccessible(tc, u)}
      previous == Highest({u \in open : u < from}) IN
  [next     |-> Lowest({u \in open : u > from}),
   previous |-> previous,
   first    |-> previous,
   last     |-> Highest(open)]

UpdateNavigationState(tc) == [tc EXCEPT !.navigation = GetNavigationState(tc, tc.current)]

\* state$ with its subscriber, which takes every state into the buffer
SetState(tc, state) == [tc EXCEPT !.state = state, !.testState.controller = state]

----------------------------------------------------------------------------------
\* Timers.  Each operator includes what handleTimer does with the event the method emits.
TimeLeftAsJson(timers) == [t \in Testlet |-> IF timers[t] = NotANumber THEN 0 ELSE timers[t]]

SetTimeLeft(tc, t, left) ==
  LET timers == [tc.timers EXCEPT ![t] = left] IN
  [tc EXCEPT !.timers = timers, !.testState.timeLeft = TimeLeftAsJson(timers)]

InterruptTimer(tc) == [tc EXCEPT !.timerId = NoTimer]

\* The events CANCELLED and ENDED: no time is left and the block of the current unit,
\* whichever that is, gets the time lock.
CloseTimedBlockKeepingTime(tc) ==
  InterruptTimer(IF ForceTimeRestrictions /\ tc.current # NoUnit
                 THEN UpdateNavigationState([tc EXCEPT !.time = @ \cup {ParentOf[tc.current]}])
                 ELSE tc)

CloseTimedBlock(tc) ==
  LET stopped == SetTimeLeft(tc, tc.timerId, 0) IN
  InterruptTimer(IF ForceTimeRestrictions /\ tc.current # NoUnit
                 THEN UpdateNavigationState([stopped EXCEPT !.time = @ \cup {ParentOf[tc.current]}])
                 ELSE stopped)

CancelTimer(tc) == IF tc.timerId = NoTimer THEN tc ELSE CloseTimedBlock(tc)

StartTimerAnew(tc, t) == [SetTimeLeft(tc, t, MaxTime[t]) EXCEPT !.timerId = t]

StartTimer(tc, t) ==
  LET left == IF tc.timers[t] > 0 /\ tc.timers[t] < MaxTime[t] THEN tc.timers[t] ELSE MaxTime[t] IN
  [SetTimeLeft(tc, t, left) EXCEPT !.timerId = t]

RestoreTime(tc, t, given) ==
  IF MaxTime[t] = 0 \/ tc.timers[t] = NotStarted \/ tc.timers[t] > 0
  THEN tc
  ELSE UpdateNavigationState([tc EXCEPT !.timers[t] = IF @ = NotANumber THEN @ ELSE given,
                                        !.time = @ \ {t}])

----------------------------------------------------------------------------------
\* Locks
ClearCodeLockUnsaved(tc, t) == UpdateNavigationState([tc EXCEPT !.code = @ \ {t}])

ClearCodeLock(tc, t) ==
  IF t \notin Coded THEN tc
  ELSE UpdateNavigationState([tc EXCEPT !.code = @ \ {t},
                                        !.testState.clearedCode = (Coded \ tc.code) \cup {t}])

ActivateTestletLeaveLock(tc, t) ==
  LET locked == tc.afterLeave \cup {t} IN
  UpdateNavigationState(
    [tc EXCEPT !.afterLeave = locked,
               !.testState.lockedTestlets = {a \in locked : LockScope[a] = "testlet"}])

ActivateUnitLeaveLock(tc, u) ==
  LET locked == tc.lockedUnits \cup {u} IN
  [tc EXCEPT !.lockedUnits = locked,
             !.testState.lockedUnits = {v \in locked : LockScope[ParentOf[v]] = "unit"}]

LeaveLockInAnyMode(tc, u) ==
  CASE LockScope[ParentOf[u]] = "testlet" -> ActivateTestletLeaveLock(tc, ParentOf[u])
    [] LockScope[ParentOf[u]] = "unit" -> ActivateUnitLeaveLock(tc, u)
    [] OTHER -> tc

LeaveLock(tc, u) ==
  CASE ~ForceNaviRestrictions -> tc
    [] ForceNaviRestrictions /\ LockScope[ParentOf[u]] = "testlet" ->
         ActivateTestletLeaveLock(tc, ParentOf[u])
    [] ForceNaviRestrictions /\ LockScope[ParentOf[u]] = "unit" -> ActivateUnitLeaveLock(tc, u)
    [] OTHER -> tc

UpdateAllShowLocks(tc, shown) == UpdateNavigationState([tc EXCEPT !.show = Conditional \ shown])

----------------------------------------------------------------------------------
\* UnithostComponent: a unit is opened.  A locked one only shows why it is locked.
RunUnitStartingOnce(tc) ==
  LET t == TimerOfUnit(tc.current) IN
  IF Locked(tc, tc.current) THEN tc
  ELSE UpdateNavigationState(IF t = NoTimer \/ tc.timers[t] # NotStarted THEN tc ELSE StartTimer(tc, t))

RunUnit(tc) ==
  LET t == TimerOfUnit(tc.current) IN
  IF Locked(tc, tc.current) THEN tc
  ELSE UpdateNavigationState(IF t = NoTimer \/ t = tc.timerId THEN tc ELSE StartTimer(tc, t))

Open(tc, u) == RunUnit([tc EXCEPT !.current = u, !.testState.unit = u])

----------------------------------------------------------------------------------
\* canDeactivateUnit, without force.  to is NoUnit where the target is no unit.
FreeToLeave(tc) == tc.state = "ERROR" \/ tc.current = NoUnit \/ Locked(tc, tc.current)

IncompleteBackward(tc, to) ==
  /\ tc.current \notin tc.complete \cup tc.lockedUnits
  /\ \/ DenyIncomplete[ParentOf[tc.current]] = "ALWAYS"
     \/ DenyIncomplete[ParentOf[tc.current]] = "ON" /\ to < tc.current

Incomplete(tc, to) ==
  /\ tc.current \notin tc.complete \cup tc.lockedUnits
  /\ \/ DenyIncomplete[ParentOf[tc.current]] = "ALWAYS"
     \/ DenyIncomplete[ParentOf[tc.current]] = "ON" /\ (to = NoUnit \/ tc.current < to)

LeavesTimedBlockForUnit(tc, to) ==
  tc.timerId # NoTimer /\ to # NoUnit /\ TimerOfUnit(to) # tc.timerId

LeavesTimedBlock(tc, to) == tc.timerId # NoTimer /\ TimerOfUnit(to) # tc.timerId

Denies(tc, to) ==
  \/ ForceNaviRestrictions /\ Incomplete(tc, to)
  \/ /\ ForceTimeRestrictions
     /\ LeavesTimedBlock(tc, to) /\ Leave[tc.timerId] = "forbidden"

AsksForTimer(tc, to) ==
  /\ ~Denies(tc, to)
  /\ ForceTimeRestrictions
  /\ LeavesTimedBlock(tc, to) /\ Leave[tc.timerId] = "confirm"

\* What the timer's check leaves behind where it neither denies nor asks.
SolveTimer(tc, to) ==
  CASE ~LeavesTimedBlock(tc, to) -> tc
    [] LeavesTimedBlock(tc, to) /\ Leave[tc.timerId] = "allowed" -> CancelTimer(tc)
    [] OTHER -> InterruptTimer(tc)

LeavesLockedArea(tc, to) ==
  LET t == ParentOf[tc.current] IN
  /\ LockScope[t] # "none"
  /\ ~(LockScope[t] = "testlet" /\ to # NoUnit /\ ParentOf[to] = t)

AsksForLock(tc, to) ==
  /\ ~Denies(tc, to) /\ ~AsksForTimer(tc, to)
  /\ LeavesLockedArea(tc, to) /\ ParentOf[tc.current] \in LockConfirm

Allows(tc, to) == ~Denies(tc, to) /\ ~AsksForTimer(tc, to) /\ ~AsksForLock(tc, to)

SolveLeave(tc, to) ==
  LET solved == SolveTimer(tc, to) IN
  IF LeavesLockedArea(tc, to) THEN LeaveLock(solved, tc.current) ELSE solved

----------------------------------------------------------------------------------
\* The guards that activate a unit: whether any unit may be shown at all, and the unit to
\* go to instead of one that does not exist or is not accessible.
ActivationBlocked(tc) == tc.state \in {"ERROR", "TERMINATED", "PAUSED"}

DetourForward(tc, to) ==
  IF to # NoUnit /\ UnitIsInaccessible(tc, to) THEN GetNavigationState(tc, to).next ELSE NoUnit

Detour(tc, to) ==
  IF to = NoUnit
  THEN IF tc.current # NoUnit /\ ~UnitIsInaccessible(tc, tc.current) THEN NoUnit
       ELSE tc.navigation.previous
  ELSE IF UnitIsInaccessible(tc, to) THEN GetNavigationState(tc, to).next ELSE NoUnit

IsTestOngoing(tc) == tc.state \in {"RUNNING", "PAUSED"}
ShouldShowConfirmationUI == ~(SilentMode /\ (ForceTimeRestrictions \/ ForceNaviRestrictions))

Terminate(tc) ==
  IF tc.state = "TERMINATED" THEN tc
  ELSE SetState(InterruptTimer(tc), IF tc.state = "PAUSED" THEN "TERMINATED_PAUSED" ELSE "TERMINATED")

RestoredUnitLocks(laststate) == {t \in laststate.lockedTestlets : LockScope[t] = "unit"}
RestoredLocks(laststate) == {t \in laststate.lockedTestlets : LockScope[t] # "none"}

\* TestLoaderService: the service as restoreLastState leaves it, from what the backend holds.
RestoreLastState(laststate, shown) ==
  UpdateNavigationState(
    [state       |-> "INIT",
     current     |-> NoUnit,
     show        |-> Conditional \ shown,
     time        |-> {t \in Testlet : MaxTime[t] # 0 /\ laststate.timeLeft[t] = 0},
     code        |-> Coded \ laststate.clearedCode,
     afterLeave  |-> RestoredLocks(laststate),
     lockedUnits |-> laststate.lockedUnits,
     complete    |-> laststate.complete,
     timers      |-> laststate.timeLeft,
     timerId     |-> NoTimer,
     navigation  |-> [next |-> NoUnit, previous |-> NoUnit, first |-> NoUnit, last |-> NoUnit],
     testState   |-> laststate])

NewTestState == [controller |-> "INIT", unit |-> NoUnit,
                 timeLeft |-> [t \in Testlet |-> NotStarted],
                 clearedCode |-> {}, lockedTestlets |-> {}, lockedUnits |-> {}, complete |-> {}]
=============================================================================
