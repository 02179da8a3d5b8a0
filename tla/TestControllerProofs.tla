-------------------------- MODULE TestControllerProofs --------------------------
(* Theorems about TestController, for any booklet, mode and number of commands and *)
(* reloads.  The first part has lemmas about the methods of TestControllerService: *)
(* what each of them returns, and that none of them takes back a leave lock; every *)
(* method takes a Step, and Steps compose (sv is the record of the service).  The  *)
(* theorems rest on these.                                                         *)
EXTENDS TestController, TLAPS, WellFoundedInduction

----------------------------------------------------------------------------------
\* Every set of units that is not empty has a lowest and a highest one.
LEMMA LeastNat ==
  ASSUME NEW U \in SUBSET Nat, U # {}
  PROVE  \E n \in U : \A m \in U : n <= m
<1> DEFINE R == {p \in Nat \X Nat : p[1] < p[2]}
<1>1. IsWellFoundedOn(R, Nat)
  BY NatLessThanWellFounded DEF OpToRel
<1>2. PICK n \in U : \A m \in U : ~(<<m, n>> \in R)
  <2> HIDE DEF R
  <2> QED
    BY <1>1, WFMin
<1>3. ASSUME NEW m \in U PROVE n <= m
  <2>1. m \in Nat /\ n \in Nat
    OBVIOUS
  <2>2. <<m, n>> \in Nat \X Nat /\ <<m, n>>[1] = m /\ <<m, n>>[2] = n
    BY <2>1
  <2>3. ~(m < n)
    BY <1>2, <2>2
  <2> QED
    BY <2>1, <2>3
<1> QED
  BY <1>3

LEMMA LowestExists ==
  ASSUME NEW U \in SUBSET Unit
  PROVE  Lowest(U) \in U \cup {NoUnit} /\ (U # {} => Lowest(U) \in U)
<1>1. CASE U = {}
  BY <1>1 DEF Lowest
<1>2. CASE U # {}
  <2>1. \E n \in U : \A m \in U : n <= m
    BY <1>2, LeastNat, BookletAssumption DEF Unit
  <2> QED
    BY <1>2, <2>1 DEF Lowest
<1> QED
  BY <1>1, <1>2

LEMMA HighestExists ==
  ASSUME NEW U \in SUBSET Unit
  PROVE  Highest(U) \in U \cup {NoUnit} /\ (U # {} => Highest(U) \in U)
<1>1. CASE U = {}
  BY <1>1 DEF Highest
<1>2. CASE U # {}
  <2> DEFINE D == {UnitCount - u : u \in U}
  <2>1. \A u \in U : u \in Nat /\ UnitCount - u \in Nat
    BY BookletAssumption DEF Unit
  <2>2. D \in SUBSET Nat /\ D # {}
    BY <1>2, <2>1
  <2>3. PICK d \in D : \A e \in D : d <= e
    <3> HIDE DEF D
    <3> QED
      BY <2>2, LeastNat
  <2>4. PICK n \in U : d = UnitCount - n
    BY <2>3
  <2>5. ASSUME NEW m \in U PROVE m <= n
    <3>1. UnitCount - m \in D
      OBVIOUS
    <3>2. UnitCount - n <= UnitCount - m
      BY <2>3, <2>4, <3>1
    <3>3. m \in Nat /\ n \in Nat /\ UnitCount \in Nat
      BY <2>1, BookletAssumption
    <3> QED
      BY <3>2, <3>3
  <2> QED
    BY <1>2, <2>5 DEF Highest
<1> QED
  BY <1>1, <1>2

\* A timer is the timer of a testlet.
LEMMA OutermostExists ==
  ASSUME NEW t \in Testlet, NEW T \in SUBSET Above[t], T # {}
  PROVE  Outermost(T) \in T
<1>1. \E a \in T : \A b \in T : a \in Above[b]
  BY BookletAssumption
<1> QED
  BY <1>1 DEF Outermost

LEMMA TimerOfType ==
  ASSUME NEW t \in Testlet
  PROVE  TimerOf(t) \in Testlet \cup {NoTimer}
<1> DEFINE timed == {a \in Above[t] : MaxTime[a] # 0}
<1>1. CASE timed = {}
  BY <1>1 DEF TimerOf
<1>2. CASE timed # {}
  <2>1. timed \in SUBSET Above[t] /\ Above[t] \in SUBSET Testlet
    BY BookletAssumption
  <2>2. Outermost(timed) \in timed
    <3> HIDE DEF timed
    <3> QED
      BY <1>2, <2>1, OutermostExists
  <2>3. TimerOf(t) = Outermost(timed)
    BY <1>2 DEF TimerOf
  <2> QED
    BY <2>1, <2>2, <2>3
<1> QED
  BY <1>1, <1>2

LEMMA TimerOfUnitType ==
  ASSUME NEW u \in UnitOrNone
  PROVE  TimerOfUnit(u) \in Testlet \cup {NoTimer}
  BY TimerOfType, BookletAssumption DEF TimerOfUnit, UnitOrNone

LEMMA LockedThroughType ==
  ASSUME NEW sv \in ServiceState, NEW u \in Unit, Locked(sv, u)
  PROVE  LockedThrough(sv, u) \in Testlet
<1>1. ParentOf[u] \in Testlet /\ Above[ParentOf[u]] \in SUBSET Testlet
  BY BookletAssumption
<1>2. LocksAbove(sv, u) \in SUBSET Above[ParentOf[u]] /\ LocksAbove(sv, u) # {}
  BY DEF Locked, LocksAbove
<1>3. Outermost(LocksAbove(sv, u)) \in LocksAbove(sv, u)
  BY <1>1, <1>2, OutermostExists
<1> QED
  BY <1>1, <1>2, <1>3 DEF LockedThrough

----------------------------------------------------------------------------------
\* From s to r no leave lock is lost, the buffer takes up only locks that hold, and once a
\* unit is opened there is a current unit.
Step(s, r) ==
  /\ r \in ServiceState
  /\ s.current # NoUnit => r.current # NoUnit
  /\ s.afterLeave \subseteq r.afterLeave
  /\ s.lockedUnits \subseteq r.lockedUnits
  /\ r.testState.lockedTestlets \subseteq s.testState.lockedTestlets \cup
                                          {t \in r.afterLeave : LockScope[t] = "testlet"}
  /\ r.testState.lockedUnits \subseteq s.testState.lockedUnits \cup r.lockedUnits

LEMMA StepStays == ASSUME NEW s \in ServiceState PROVE Step(s, s)
  BY DEF Step

LEMMA StepChain ==
  ASSUME NEW s, NEW r, NEW q, Step(s, r), Step(r, q)
  PROVE  Step(s, q)
  BY DEF Step

LEMMA GetNavigationStateType ==
  ASSUME NEW sv, NEW from \in UnitOrNone
  PROVE  GetNavigationState(sv, from) \in NavigationTargets
<1> DEFINE open == {u \in Unit : ~UnitIsInaccessible(sv, u)}
           before == {u \in open : u < from}
           after == {u \in open : u > from}
<1>1. open \in SUBSET Unit /\ before \in SUBSET Unit /\ after \in SUBSET Unit
  OBVIOUS
<1>2. /\ Highest(before) \in UnitOrNone /\ Lowest(after) \in UnitOrNone
      /\ Highest(open) \in UnitOrNone
  <2> HIDE DEF open, before, after
  <2> QED
    BY <1>1, HighestExists, LowestExists DEF UnitOrNone
<1> QED
  BY <1>2 DEF GetNavigationState, NavigationTargets

LEMMA UpdateNavigationStateStep ==
  ASSUME NEW sv \in ServiceState
  PROVE  Step(sv, UpdateNavigationState(sv))
<1>1. GetNavigationState(sv, sv.current) \in NavigationTargets
  BY GetNavigationStateType DEF ServiceState
<1> QED
  BY <1>1 DEF UpdateNavigationState, Step, ServiceState

LEMMA SetStateStep ==
  ASSUME NEW sv \in ServiceState, NEW state \in State
  PROVE  Step(sv, SetState(sv, state))
  BY DEF SetState, Step, ServiceState, TestState

----------------------------------------------------------------------------------
\* Timers
LEMMA SetTimeLeftStep ==
  ASSUME NEW sv \in ServiceState, NEW t \in Testlet, NEW left \in Int
  PROVE  Step(sv, SetTimeLeft(sv, t, left)) /\ SetTimeLeft(sv, t, left).current = sv.current
<1> DEFINE timers == [sv.timers EXCEPT ![t] = left]
<1>1. timers \in Times
  BY DEF ServiceState, Times
<1>2. TimeLeftAsJson(timers) \in Times
  BY <1>1 DEF TimeLeftAsJson, Times
<1> HIDE DEF timers
<1>3. [sv EXCEPT !.timers = timers, !.testState.timeLeft = TimeLeftAsJson(timers)] \in ServiceState
  BY <1>1, <1>2 DEF ServiceState, TestState
<1> QED
  BY <1>3 DEF SetTimeLeft, Step, ServiceState, TestState, timers

LEMMA InterruptTimerStep ==
  ASSUME NEW sv \in ServiceState
  PROVE  Step(sv, InterruptTimer(sv))
  BY DEF InterruptTimer, Step, ServiceState

LEMMA TimeLockStep ==
  ASSUME NEW sv \in ServiceState, sv.current # NoUnit
  PROVE  Step(sv, UpdateNavigationState([sv EXCEPT !.time = @ \cup {ParentOf[sv.current]}]))
<1> DEFINE s == [sv EXCEPT !.time = @ \cup {ParentOf[sv.current]}]
<1>1. ParentOf[sv.current] \in Testlet
  BY BookletAssumption DEF ServiceState, UnitOrNone
<1>2. Step(sv, s)
  BY <1>1 DEF Step, ServiceState
<1>3. Step(s, UpdateNavigationState(s))
  BY <1>2, UpdateNavigationStateStep DEF Step
<1> QED
  BY <1>2, <1>3, StepChain

LEMMA CloseTimedBlockStep ==
  ASSUME NEW sv \in ServiceState, sv.timerId # NoTimer
  PROVE  Step(sv, CloseTimedBlock(sv))
<1> DEFINE s == SetTimeLeft(sv, sv.timerId, 0)
           locked == UpdateNavigationState([s EXCEPT !.time = @ \cup {ParentOf[sv.current]}])
           r == IF ForceTimeRestrictions /\ sv.current # NoUnit THEN locked ELSE s
<1>1. Step(sv, s) /\ s.current = sv.current
  BY SetTimeLeftStep DEF ServiceState
<1>2. Step(s, r)
  <2>1. CASE ForceTimeRestrictions /\ sv.current # NoUnit
    <3>1. s \in ServiceState
      BY <1>1 DEF Step
    <3> HIDE DEF s
    <3> QED
      BY <1>1, <2>1, <3>1, TimeLockStep
  <2>2. CASE ~(ForceTimeRestrictions /\ sv.current # NoUnit)
    <3>1. s \in ServiceState
      BY <1>1 DEF Step
    <3> QED
      BY <2>2, <3>1, StepStays
  <2> QED
    BY <2>1, <2>2
<1>3. Step(r, InterruptTimer(r))
  BY <1>2, InterruptTimerStep DEF Step
<1>4. CloseTimedBlock(sv) = InterruptTimer(r)
  BY DEF CloseTimedBlock
<1> HIDE DEF s, locked, r
<1> QED
  BY <1>1, <1>2, <1>3, <1>4, StepChain

LEMMA CancelTimerStep ==
  ASSUME NEW sv \in ServiceState
  PROVE  Step(sv, CancelTimer(sv))
  BY CloseTimedBlockStep, StepStays DEF CancelTimer

LEMMA StartTimerStep ==
  ASSUME NEW sv \in ServiceState, NEW t \in Testlet
  PROVE  Step(sv, StartTimer(sv, t))
<1> DEFINE left == IF sv.timers[t] > 0 /\ sv.timers[t] < MaxTime[t] THEN sv.timers[t] ELSE MaxTime[t]
           s == SetTimeLeft(sv, t, left)
           r == [s EXCEPT !.timerId = t]
<1>1. left \in Int
  BY RestrictionAssumption DEF ServiceState, Times
<1>2. Step(sv, s)
  <2> HIDE DEF left
  <2> QED
    BY <1>1, SetTimeLeftStep
<1>3. Step(s, r)
  <2>1. s \in ServiceState
    BY <1>2 DEF Step
  <2> HIDE DEF s
  <2> QED
    BY <2>1 DEF Step, ServiceState
<1>4. StartTimer(sv, t) = r
  BY DEF StartTimer
<1> HIDE DEF s, r
<1> QED
  BY <1>2, <1>3, <1>4, StepChain

LEMMA RestoreTimeStep ==
  ASSUME NEW sv \in ServiceState, NEW t \in Testlet, NEW given \in Int
  PROVE  Step(sv, RestoreTime(sv, t, given))
<1> DEFINE s == [sv EXCEPT !.timers[t] = IF @ = NotANumber THEN @ ELSE given,
                           !.time = @ \ {t}]
<1>1. Step(sv, s)
  BY DEF Step, ServiceState, Times
<1>2. Step(s, UpdateNavigationState(s))
  BY <1>1, UpdateNavigationStateStep DEF Step
<1>3. Step(sv, UpdateNavigationState(s))
  BY <1>1, <1>2, StepChain
<1> QED
  BY <1>3, StepStays DEF RestoreTime

----------------------------------------------------------------------------------
\* Locks
LEMMA ClearCodeLockStep ==
  ASSUME NEW sv \in ServiceState, NEW t \in Testlet
  PROVE  Step(sv, ClearCodeLock(sv, t))
<1> DEFINE cleared == (Coded \ sv.code) \cup {t}
           s == [sv EXCEPT !.code = @ \ {t}, !.testState.clearedCode = cleared]
<1>1. cleared \in SUBSET Testlet
  BY RestrictionAssumption
<1>2. Step(sv, s)
  <2> HIDE DEF cleared
  <2> QED
    BY <1>1 DEF Step, ServiceState, TestState
<1>3. Step(s, UpdateNavigationState(s))
  BY <1>2, UpdateNavigationStateStep DEF Step
<1>4. Step(sv, UpdateNavigationState(s))
  BY <1>2, <1>3, StepChain
<1> QED
  BY <1>4, StepStays DEF ClearCodeLock

LEMMA ActivateTestletLeaveLockStep ==
  ASSUME NEW sv \in ServiceState, NEW t \in Testlet
  PROVE  Step(sv, ActivateTestletLeaveLock(sv, t))
<1> DEFINE locked == sv.afterLeave \cup {t}
           kept == {a \in locked : LockScope[a] = "testlet"}
           s == [sv EXCEPT !.afterLeave = locked, !.testState.lockedTestlets = kept]
<1>1. locked \in SUBSET Testlet /\ kept \in SUBSET Testlet
  BY DEF ServiceState
<1>2. s \in ServiceState
  <2> HIDE DEF locked, kept
  <2> QED
    BY <1>1 DEF ServiceState, TestState
<1>3. /\ s.afterLeave = locked /\ s.lockedUnits = sv.lockedUnits
      /\ s.testState.lockedTestlets = kept /\ s.testState.lockedUnits = sv.testState.lockedUnits
      /\ s.current = sv.current
  <2> HIDE DEF locked, kept
  <2> QED
    BY DEF ServiceState, TestState
<1>4. Step(sv, s)
  <2>1. sv.afterLeave \subseteq locked /\ kept = {a \in locked : LockScope[a] = "testlet"}
    OBVIOUS
  <2> HIDE DEF s, locked, kept
  <2> QED
    BY <1>2, <1>3, <2>1 DEF Step
<1>5. Step(s, UpdateNavigationState(s))
  BY <1>2, UpdateNavigationStateStep
<1>6. ActivateTestletLeaveLock(sv, t) = UpdateNavigationState(s)
  BY DEF ActivateTestletLeaveLock
<1> HIDE DEF s
<1> QED
  BY <1>4, <1>5, <1>6, StepChain

LEMMA ActivateUnitLeaveLockStep ==
  ASSUME NEW sv \in ServiceState, NEW u \in Unit
  PROVE  Step(sv, ActivateUnitLeaveLock(sv, u))
<1> DEFINE locked == sv.lockedUnits \cup {u}
           kept == {v \in locked : LockScope[ParentOf[v]] = "unit"}
           s == [sv EXCEPT !.lockedUnits = locked, !.testState.lockedUnits = kept]
<1>1. locked \in SUBSET Unit /\ kept \in SUBSET Unit
  BY DEF ServiceState
<1>2. s \in ServiceState
  <2> HIDE DEF locked, kept
  <2> QED
    BY <1>1 DEF ServiceState, TestState
<1>3. /\ s.afterLeave = sv.afterLeave /\ s.lockedUnits = locked
      /\ s.testState.lockedTestlets = sv.testState.lockedTestlets /\ s.testState.lockedUnits = kept
  <2> HIDE DEF locked, kept
  <2> QED
    BY DEF ServiceState, TestState
<1>4. ActivateUnitLeaveLock(sv, u) = s
  BY DEF ActivateUnitLeaveLock
<1> QED
  BY <1>2, <1>3, <1>4 DEF Step

LEMMA LeaveLockStep ==
  ASSUME NEW sv \in ServiceState, NEW u \in Unit
  PROVE  Step(sv, LeaveLock(sv, u))
<1>1. ParentOf[u] \in Testlet
  BY BookletAssumption
<1> QED
  BY <1>1, StepStays, ActivateTestletLeaveLockStep, ActivateUnitLeaveLockStep,
     ModeAssumption DEF LeaveLock

LEMMA UpdateAllShowLocksStep ==
  ASSUME NEW sv \in ServiceState, NEW shown \in SUBSET Conditional
  PROVE  Step(sv, UpdateAllShowLocks(sv, shown))
<1> DEFINE s == [sv EXCEPT !.show = Conditional \ shown]
<1>1. Step(sv, s)
  BY RestrictionAssumption DEF Step, ServiceState
<1>2. Step(s, UpdateNavigationState(s))
  BY <1>1, UpdateNavigationStateStep DEF Step
<1> QED
  BY <1>1, <1>2, StepChain DEF UpdateAllShowLocks

----------------------------------------------------------------------------------
\* Opening and leaving units
LEMMA RunUnitStep ==
  ASSUME NEW sv \in ServiceState
  PROVE  Step(sv, RunUnit(sv))
<1> DEFINE t == TimerOfUnit(sv.current)
           s == IF t = NoTimer \/ t = sv.timerId THEN sv ELSE StartTimer(sv, t)
<1>1. t \in Testlet \cup {NoTimer}
  BY TimerOfUnitType DEF ServiceState
<1>2. Step(sv, s)
  <2> HIDE DEF t
  <2> QED
    BY <1>1, StepStays, StartTimerStep
<1>3. Step(s, UpdateNavigationState(s))
  BY <1>2, UpdateNavigationStateStep DEF Step
<1>4. RunUnit(sv) = IF Locked(sv, sv.current) THEN sv ELSE UpdateNavigationState(s)
  BY DEF RunUnit
<1> HIDE DEF s
<1> QED
  BY <1>2, <1>3, <1>4, StepChain, StepStays

LEMMA OpenStep ==
  ASSUME NEW sv \in ServiceState, NEW u \in Unit
  PROVE  Step(sv, Open(sv, u)) /\ Open(sv, u).current # NoUnit
<1> DEFINE s == [sv EXCEPT !.current = u, !.testState.unit = u]
<1>1. Step(sv, s) /\ s.current # NoUnit
  <2>1. u \in UnitOrNone /\ u # NoUnit
    BY DEF Unit, UnitOrNone, NoUnit
  <2> QED
    BY <2>1 DEF Step, ServiceState, TestState
<1>2. Step(s, RunUnit(s))
  BY <1>1, RunUnitStep DEF Step
<1>3. Open(sv, u) = RunUnit(s)
  BY DEF Open
<1> HIDE DEF s
<1> QED
  BY <1>1, <1>2, <1>3, StepChain DEF Step

LEMMA SolveTimerStep ==
  ASSUME NEW sv \in ServiceState, NEW to
  PROVE  Step(sv, SolveTimer(sv, to)) /\ SolveTimer(sv, to).current = sv.current
<1>1. CancelTimer(sv).current = sv.current
  BY DEF CancelTimer, CloseTimedBlock, InterruptTimer, SetTimeLeft, UpdateNavigationState,
         ServiceState
<1>2. InterruptTimer(sv).current = sv.current
  BY DEF InterruptTimer, ServiceState
<1> QED
  BY <1>1, <1>2, StepStays, CancelTimerStep, InterruptTimerStep DEF SolveTimer

LEMMA SolveLeaveStep ==
  ASSUME NEW sv \in ServiceState, sv.current # NoUnit, NEW to
  PROVE  Step(sv, SolveLeave(sv, to))
<1> DEFINE s == SolveTimer(sv, to)
<1>1. Step(sv, s) /\ s \in ServiceState
  BY SolveTimerStep DEF Step
<1>2. sv.current \in Unit
  BY DEF ServiceState, UnitOrNone
<1> HIDE DEF s
<1>3. Step(s, LeaveLock(s, sv.current))
  BY <1>1, <1>2, LeaveLockStep
<1>4. SolveLeave(sv, to) = IF LeavesLockedArea(sv, to) THEN LeaveLock(s, sv.current) ELSE s
  BY DEF SolveLeave, s
<1> QED
  BY <1>1, <1>3, <1>4, StepChain

LEMMA TerminateStep ==
  ASSUME NEW sv \in ServiceState
  PROVE  Step(sv, Terminate(sv))
<1> DEFINE s == InterruptTimer(sv)
           state == IF sv.state = "PAUSED" THEN "TERMINATED_PAUSED" ELSE "TERMINATED"
<1>1. Step(sv, s)
  BY InterruptTimerStep
<1>2. Step(s, SetState(s, state))
  <2>1. s \in ServiceState /\ state \in State
    BY <1>1 DEF Step, State
  <2> HIDE DEF s, state
  <2> QED
    BY <2>1, SetStateStep
<1>3. Terminate(sv) = IF sv.state = "TERMINATED" THEN sv ELSE SetState(s, state)
  BY DEF Terminate
<1> HIDE DEF s, state
<1> QED
  BY <1>1, <1>2, <1>3, StepChain, StepStays

LEMMA DetourType ==
  ASSUME NEW sv \in ServiceState, NEW to \in UnitOrNone
  PROVE  Detour(sv, to) \in UnitOrNone
<1>1. GetNavigationState(sv, to).next \in UnitOrNone
  BY GetNavigationStateType DEF NavigationTargets
<1>2. sv.navigation.previous \in UnitOrNone
  BY DEF ServiceState, NavigationTargets
<1> QED
  BY <1>1, <1>2 DEF Detour, UnitOrNone

\* What restoreLastState makes of a stored test state: the locks stored are set again.
LEMMA RestoreLastStateType ==
  ASSUME NEW laststate \in TestState, NEW shown \in SUBSET Conditional
  PROVE  LET s == RestoreLastState(laststate, shown) IN
         /\ s \in ServiceState
         /\ s.testState = laststate
         /\ s.afterLeave = RestoredLocks(laststate)
         /\ s.lockedUnits = laststate.lockedUnits
<1> DEFINE none == [next |-> NoUnit, previous |-> NoUnit, first |-> NoUnit, last |-> NoUnit]
           s == [state |-> "INIT", current |-> NoUnit, show |-> Conditional \ shown,
                 time |-> {t \in Testlet : MaxTime[t] # 0 /\ laststate.timeLeft[t] = 0},
                 code |-> Coded \ laststate.clearedCode,
                 afterLeave |-> RestoredLocks(laststate),
                 lockedUnits |-> laststate.lockedUnits, complete |-> laststate.complete,
                 timers |-> laststate.timeLeft, timerId |-> NoTimer,
                 navigation |-> none, testState |-> laststate]
<1>1. none \in NavigationTargets
  BY DEF NavigationTargets, UnitOrNone
<1>2. RestoredLocks(laststate) \in SUBSET Testlet
  BY DEF RestoredLocks, TestState
<1>3. Conditional \ shown \in SUBSET Testlet /\ Coded \ laststate.clearedCode \in SUBSET Testlet
  BY RestrictionAssumption
<1>4. /\ laststate.timeLeft \in Times /\ laststate.lockedUnits \in SUBSET Unit
      /\ laststate.complete \in SUBSET Unit
  BY DEF TestState
<1>5. "INIT" \in State /\ NoUnit \in UnitOrNone
  BY DEF State, UnitOrNone
<1>6. s \in ServiceState
  <2> HIDE DEF none
  <2> QED
    BY <1>1, <1>2, <1>3, <1>4, <1>5 DEF ServiceState
<1>7. RestoreLastState(laststate, shown) = UpdateNavigationState(s)
  BY DEF RestoreLastState
<1>8. GetNavigationState(s, s.current) \in NavigationTargets
  <2> HIDE DEF s
  <2> QED
    BY <1>6, GetNavigationStateType DEF ServiceState
<1>9. UpdateNavigationState(s) \in ServiceState
  <2> HIDE DEF s
  <2> QED
    BY <1>6, <1>8 DEF UpdateNavigationState, ServiceState
<1> QED
  BY <1>7, <1>9 DEF UpdateNavigationState

----------------------------------------------------------------------------------
\* What the methods leave as it was.
SameUnit(s, r) == r.state = s.state /\ r.current = s.current /\ r.complete = s.complete
SameLocks(s, r) == r.show = s.show /\ r.time = s.time /\ r.code = s.code /\ r.afterLeave = s.afterLeave
SameTimes(s, r) == r.timers = s.timers /\ r.timerId = s.timerId

LEMMA UpdateNavigationStateFacts ==
  ASSUME NEW sv \in ServiceState
  PROVE  LET r == UpdateNavigationState(sv) IN
         /\ SameUnit(sv, r) /\ SameLocks(sv, r) /\ SameTimes(sv, r)
         /\ r.lockedUnits = sv.lockedUnits /\ r.testState = sv.testState
  BY DEF UpdateNavigationState, ServiceState, SameUnit, SameLocks, SameTimes

LEMMA SetStateFacts ==
  ASSUME NEW sv \in ServiceState, NEW state \in State
  PROVE  LET r == SetState(sv, state) IN
         /\ r.state = state /\ r.current = sv.current /\ r.complete = sv.complete
         /\ SameLocks(sv, r) /\ SameTimes(sv, r) /\ r.lockedUnits = sv.lockedUnits
  BY DEF SetState, ServiceState, SameLocks, SameTimes

LEMMA SetTimeLeftFacts ==
  ASSUME NEW sv \in ServiceState, NEW t \in Testlet, NEW left \in Int
  PROVE  LET r == SetTimeLeft(sv, t, left) IN
         /\ SameUnit(sv, r) /\ SameLocks(sv, r) /\ r.lockedUnits = sv.lockedUnits
         /\ r.timerId = sv.timerId /\ r.timers = [sv.timers EXCEPT ![t] = left]
  BY DEF SetTimeLeft, ServiceState, SameUnit, SameLocks

LEMMA InterruptTimerFacts ==
  ASSUME NEW sv \in ServiceState
  PROVE  LET r == InterruptTimer(sv) IN
         /\ SameUnit(sv, r) /\ SameLocks(sv, r) /\ r.lockedUnits = sv.lockedUnits
         /\ r.timerId = NoTimer /\ r.timers = sv.timers /\ r.testState = sv.testState
  BY DEF InterruptTimer, ServiceState, SameUnit, SameLocks

LEMMA CloseTimedBlockFacts ==
  ASSUME NEW sv \in ServiceState, sv.timerId # NoTimer
  PROVE  LET r == CloseTimedBlock(sv) IN
         /\ SameUnit(sv, r) /\ r.lockedUnits = sv.lockedUnits
         /\ r.show = sv.show /\ r.code = sv.code /\ r.afterLeave = sv.afterLeave
         /\ r.time = IF ForceTimeRestrictions /\ sv.current # NoUnit
                     THEN sv.time \cup {ParentOf[sv.current]} ELSE sv.time
         /\ r.timerId = NoTimer /\ r.timers = [sv.timers EXCEPT ![sv.timerId] = 0]
<1> DEFINE s == SetTimeLeft(sv, sv.timerId, 0)
           locked == [s EXCEPT !.time = @ \cup {ParentOf[sv.current]}]
           q == IF ForceTimeRestrictions /\ sv.current # NoUnit THEN UpdateNavigationState(locked) ELSE s
<1>1. sv.timerId \in Testlet /\ 0 \in Int
  BY DEF ServiceState
<1>2. /\ s \in ServiceState /\ SameUnit(sv, s) /\ SameLocks(sv, s) /\ s.lockedUnits = sv.lockedUnits
      /\ s.timers = [sv.timers EXCEPT ![sv.timerId] = 0]
  BY <1>1, SetTimeLeftStep, SetTimeLeftFacts DEF Step
<1> HIDE DEF s
<1>3. /\ q \in ServiceState /\ SameUnit(sv, q) /\ q.lockedUnits = sv.lockedUnits
      /\ q.show = sv.show /\ q.code = sv.code /\ q.afterLeave = sv.afterLeave
      /\ q.time = IF ForceTimeRestrictions /\ sv.current # NoUnit
                  THEN sv.time \cup {ParentOf[sv.current]} ELSE sv.time
      /\ q.timers = s.timers
  <2>1. CASE ForceTimeRestrictions /\ sv.current # NoUnit
    <3>1. ParentOf[sv.current] \in Testlet
      BY <2>1, BookletAssumption DEF ServiceState, UnitOrNone
    <3>2. /\ locked \in ServiceState /\ SameUnit(sv, locked) /\ locked.lockedUnits = sv.lockedUnits
          /\ locked.show = sv.show /\ locked.code = sv.code /\ locked.afterLeave = sv.afterLeave
          /\ locked.time = sv.time \cup {ParentOf[sv.current]} /\ locked.timers = s.timers
      BY <1>2, <3>1 DEF ServiceState, SameUnit, SameLocks
    <3> HIDE DEF locked
    <3>3. UpdateNavigationState(locked) \in ServiceState
      BY <3>2, UpdateNavigationStateStep DEF Step
    <3>4. q = UpdateNavigationState(locked)
      BY <2>1
    <3> HIDE DEF q
    <3> QED
      BY <2>1, <3>2, <3>3, <3>4, UpdateNavigationStateFacts DEF SameUnit, SameLocks, SameTimes
  <2>2. CASE ~(ForceTimeRestrictions /\ sv.current # NoUnit)
    BY <1>2, <2>2 DEF SameLocks
  <2> QED
    BY <2>1, <2>2
<1>4. CloseTimedBlock(sv) = InterruptTimer(q)
  BY <1>2 DEF CloseTimedBlock, s
<1> HIDE DEF q
<1> QED
  BY <1>2, <1>3, <1>4, InterruptTimerFacts DEF SameUnit, SameLocks

LEMMA CancelTimerFacts ==
  ASSUME NEW sv \in ServiceState
  PROVE  LET r == CancelTimer(sv) IN
         /\ SameUnit(sv, r) /\ r.lockedUnits = sv.lockedUnits
         /\ r.show = sv.show /\ r.code = sv.code /\ r.afterLeave = sv.afterLeave
         /\ r.time = IF sv.timerId # NoTimer /\ ForceTimeRestrictions /\ sv.current # NoUnit
                     THEN sv.time \cup {ParentOf[sv.current]} ELSE sv.time
         /\ r.timerId = NoTimer
         /\ r.timers = IF sv.timerId = NoTimer THEN sv.timers ELSE [sv.timers EXCEPT ![sv.timerId] = 0]
<1>1. CASE sv.timerId = NoTimer
  BY <1>1 DEF CancelTimer, SameUnit
<1>2. CASE sv.timerId # NoTimer
  BY <1>2, CloseTimedBlockFacts DEF CancelTimer
<1> QED
  BY <1>1, <1>2

LEMMA StartTimerFacts ==
  ASSUME NEW sv \in ServiceState, NEW t \in Testlet
  PROVE  LET r == StartTimer(sv, t)
             left == IF sv.timers[t] > 0 /\ sv.timers[t] < MaxTime[t] THEN sv.timers[t] ELSE MaxTime[t] IN
         /\ SameUnit(sv, r) /\ SameLocks(sv, r) /\ r.lockedUnits = sv.lockedUnits
         /\ r.timerId = t /\ r.timers = [sv.timers EXCEPT ![t] = left]
<1> DEFINE left == IF sv.timers[t] > 0 /\ sv.timers[t] < MaxTime[t] THEN sv.timers[t] ELSE MaxTime[t]
           s == SetTimeLeft(sv, t, left)
<1>1. left \in Int
  BY RestrictionAssumption DEF ServiceState, Times
<1>2. StartTimer(sv, t) = [s EXCEPT !.timerId = t]
  BY DEF StartTimer
<1> HIDE DEF left
<1>3. /\ s \in ServiceState /\ SameUnit(sv, s) /\ SameLocks(sv, s) /\ s.lockedUnits = sv.lockedUnits
      /\ s.timers = [sv.timers EXCEPT ![t] = left]
  BY <1>1, SetTimeLeftStep, SetTimeLeftFacts DEF Step
<1> HIDE DEF s
<1>4. LET r == [s EXCEPT !.timerId = t] IN
      /\ SameUnit(s, r) /\ SameLocks(s, r) /\ r.lockedUnits = s.lockedUnits
      /\ r.timerId = t /\ r.timers = s.timers
  BY <1>3 DEF ServiceState, SameUnit, SameLocks
<1>5. LET r == StartTimer(sv, t) IN
      /\ SameUnit(sv, r) /\ SameLocks(sv, r) /\ r.lockedUnits = sv.lockedUnits
      /\ r.timerId = t /\ r.timers = [sv.timers EXCEPT ![t] = left]
  BY <1>2, <1>3, <1>4 DEF SameUnit, SameLocks
<1> QED
  BY <1>5 DEF left

LEMMA RestoreTimeFacts ==
  ASSUME NEW sv \in ServiceState, NEW t \in Testlet, NEW given \in Int
  PROVE  LET r == RestoreTime(sv, t, given) IN
         /\ SameUnit(sv, r) /\ r.lockedUnits = sv.lockedUnits
         /\ r.show = sv.show /\ r.code = sv.code /\ r.afterLeave = sv.afterLeave
         /\ r.time \subseteq sv.time
         /\ r.timerId = sv.timerId
         /\ \A x \in Testlet : x # t \/ MaxTime[x] = 0 \/ sv.timers[x] > 0 => r.timers[x] = sv.timers[x]
         /\ MaxTime[t] # 0 /\ sv.timers[t] # NotStarted /\ ~(sv.timers[t] > 0) => r.time = sv.time \ {t}
         /\ MaxTime[t] = 0 \/ sv.timers[t] = NotStarted \/ sv.timers[t] > 0 => r = sv
<1> DEFINE s == [sv EXCEPT !.timers[t] = IF @ = NotANumber THEN @ ELSE given,
                           !.time = @ \ {t}]
<1>1. CASE MaxTime[t] = 0 \/ sv.timers[t] = NotStarted \/ sv.timers[t] > 0
  BY <1>1 DEF RestoreTime, SameUnit
<1>2. CASE ~(MaxTime[t] = 0 \/ sv.timers[t] = NotStarted \/ sv.timers[t] > 0)
  <2>1. /\ s \in ServiceState /\ SameUnit(sv, s) /\ s.lockedUnits = sv.lockedUnits
        /\ s.show = sv.show /\ s.code = sv.code /\ s.afterLeave = sv.afterLeave
        /\ s.time = sv.time \ {t} /\ s.timerId = sv.timerId
    BY DEF ServiceState, SameUnit, Times
  <2>2. \A x \in Testlet : x # t => s.timers[x] = sv.timers[x]
    BY DEF ServiceState, Times
  <2>3. RestoreTime(sv, t, given) = UpdateNavigationState(s)
    BY <1>2 DEF RestoreTime
  <2> HIDE DEF s
  <2>4. LET r == UpdateNavigationState(s) IN
        /\ SameUnit(s, r) /\ SameLocks(s, r) /\ SameTimes(s, r) /\ r.lockedUnits = s.lockedUnits
    BY <2>1, UpdateNavigationStateFacts
  <2> QED
    BY <1>2, <2>1, <2>2, <2>3, <2>4 DEF SameUnit, SameLocks, SameTimes
<1> QED
  BY <1>1, <1>2

LEMMA ClearCodeLockFacts ==
  ASSUME NEW sv \in ServiceState, NEW t \in Testlet
  PROVE  LET r == ClearCodeLock(sv, t) IN
         /\ SameUnit(sv, r) /\ SameTimes(sv, r) /\ r.lockedUnits = sv.lockedUnits
         /\ r.show = sv.show /\ r.time = sv.time /\ r.afterLeave = sv.afterLeave
         /\ r.code \subseteq sv.code
<1> DEFINE cleared == (Coded \ sv.code) \cup {t}
           s == [sv EXCEPT !.code = @ \ {t}, !.testState.clearedCode = cleared]
<1>1. CASE t \notin Coded
  BY <1>1 DEF ClearCodeLock, SameUnit, SameTimes
<1>2. CASE t \in Coded
  <2>1. cleared \in SUBSET Testlet
    BY RestrictionAssumption
  <2>2. ClearCodeLock(sv, t) = UpdateNavigationState(s)
    BY <1>2 DEF ClearCodeLock
  <2> HIDE DEF cleared
  <2>3. /\ s \in ServiceState /\ SameUnit(sv, s) /\ SameTimes(sv, s) /\ s.lockedUnits = sv.lockedUnits
        /\ s.show = sv.show /\ s.time = sv.time /\ s.afterLeave = sv.afterLeave
        /\ s.code \subseteq sv.code
    BY <2>1 DEF ServiceState, TestState, SameUnit, SameTimes
  <2> HIDE DEF s
  <2>4. LET r == UpdateNavigationState(s) IN
        /\ SameUnit(s, r) /\ SameLocks(s, r) /\ SameTimes(s, r) /\ r.lockedUnits = s.lockedUnits
    BY <2>3, UpdateNavigationStateFacts
  <2> QED
    BY <2>2, <2>3, <2>4 DEF SameUnit, SameLocks, SameTimes
<1> QED
  BY <1>1, <1>2

LEMMA LeaveLockFacts ==
  ASSUME NEW sv \in ServiceState, NEW u \in Unit
  PROVE  LET r == LeaveLock(sv, u) IN
         /\ SameUnit(sv, r) /\ SameTimes(sv, r)
         /\ r.show = sv.show /\ r.time = sv.time /\ r.code = sv.code
         /\ r.afterLeave = IF ForceNaviRestrictions /\ LockScope[ParentOf[u]] = "testlet"
                           THEN sv.afterLeave \cup {ParentOf[u]} ELSE sv.afterLeave
         /\ r.lockedUnits = IF ForceNaviRestrictions /\ LockScope[ParentOf[u]] = "unit"
                            THEN sv.lockedUnits \cup {u} ELSE sv.lockedUnits
<1> DEFINE t == ParentOf[u]
<1>1. t \in Testlet
  BY BookletAssumption
<1>2. CASE ~ForceNaviRestrictions \/ LockScope[t] \notin {"testlet", "unit"}
  <2>1. LeaveLock(sv, u) = sv
    BY <1>2, ModeAssumption DEF LeaveLock
  <2> QED
    BY <1>2, <2>1 DEF SameUnit, SameTimes
<1>3. CASE ForceNaviRestrictions /\ LockScope[t] = "testlet"
  <2> DEFINE locked == sv.afterLeave \cup {t}
             kept == {a \in locked : LockScope[a] = "testlet"}
             s == [sv EXCEPT !.afterLeave = locked, !.testState.lockedTestlets = kept]
  <2>1. LeaveLock(sv, u) = UpdateNavigationState(s)
    BY <1>3 DEF LeaveLock, ActivateTestletLeaveLock
  <2>2. locked \in SUBSET Testlet /\ kept \in SUBSET Testlet
    BY <1>1 DEF ServiceState
  <2>3. /\ s \in ServiceState /\ SameUnit(sv, s) /\ SameTimes(sv, s) /\ s.lockedUnits = sv.lockedUnits
        /\ s.show = sv.show /\ s.time = sv.time /\ s.code = sv.code /\ s.afterLeave = locked
    <3> HIDE DEF locked, kept
    <3> QED
      BY <2>2 DEF ServiceState, TestState, SameUnit, SameTimes
  <2> HIDE DEF s
  <2>4. LET r == UpdateNavigationState(s) IN
        /\ SameUnit(s, r) /\ SameLocks(s, r) /\ SameTimes(s, r) /\ r.lockedUnits = s.lockedUnits
    BY <2>3, UpdateNavigationStateFacts
  <2> QED
    BY <1>3, <2>1, <2>3, <2>4 DEF SameUnit, SameLocks, SameTimes
<1>4. CASE ForceNaviRestrictions /\ LockScope[t] = "unit"
  <2> DEFINE locked == sv.lockedUnits \cup {u}
             kept == {v \in locked : LockScope[ParentOf[v]] = "unit"}
             s == [sv EXCEPT !.lockedUnits = locked, !.testState.lockedUnits = kept]
  <2>1. LeaveLock(sv, u) = s
    BY <1>4 DEF LeaveLock, ActivateUnitLeaveLock
  <2>2. locked \in SUBSET Unit /\ kept \in SUBSET Unit
    BY DEF ServiceState
  <2>3. /\ SameUnit(sv, s) /\ SameTimes(sv, s) /\ s.lockedUnits = locked
        /\ s.show = sv.show /\ s.time = sv.time /\ s.code = sv.code /\ s.afterLeave = sv.afterLeave
    <3> HIDE DEF locked, kept
    <3> QED
      BY <2>2 DEF ServiceState, SameUnit, SameTimes
  <2> HIDE DEF s
  <2> QED
    BY <1>4, <2>1, <2>3
<1> QED
  BY <1>2, <1>3, <1>4

LEMMA UpdateAllShowLocksFacts ==
  ASSUME NEW sv \in ServiceState, NEW shown \in SUBSET Conditional
  PROVE  LET r == UpdateAllShowLocks(sv, shown) IN
         /\ SameUnit(sv, r) /\ SameTimes(sv, r) /\ r.lockedUnits = sv.lockedUnits
         /\ r.show = Conditional \ shown /\ r.time = sv.time /\ r.code = sv.code
         /\ r.afterLeave = sv.afterLeave
<1> DEFINE s == [sv EXCEPT !.show = Conditional \ shown]
<1>1. UpdateAllShowLocks(sv, shown) = UpdateNavigationState(s)
  BY DEF UpdateAllShowLocks
<1>2. /\ s \in ServiceState /\ SameUnit(sv, s) /\ SameTimes(sv, s) /\ s.lockedUnits = sv.lockedUnits
      /\ s.show = Conditional \ shown /\ s.time = sv.time /\ s.code = sv.code
      /\ s.afterLeave = sv.afterLeave
  BY RestrictionAssumption DEF ServiceState, SameUnit, SameTimes
<1> HIDE DEF s
<1>3. LET r == UpdateNavigationState(s) IN
      /\ SameUnit(s, r) /\ SameLocks(s, r) /\ SameTimes(s, r) /\ r.lockedUnits = s.lockedUnits
  BY <1>2, UpdateNavigationStateFacts
<1> QED
  BY <1>1, <1>2, <1>3 DEF SameUnit, SameLocks, SameTimes

\* RunUnit starts the timer of an open unit, unless it runs, and changes nothing else.
LEMMA RunUnitFacts ==
  ASSUME NEW sv \in ServiceState
  PROVE  LET r == RunUnit(sv)
             t == TimerOfUnit(sv.current) IN
         /\ SameUnit(sv, r) /\ SameLocks(sv, r) /\ r.lockedUnits = sv.lockedUnits
         /\ Locked(sv, sv.current) \/ t = NoTimer \/ t = sv.timerId => SameTimes(sv, r)
         /\ ~Locked(sv, sv.current) /\ t # NoTimer /\ t # sv.timerId
              => /\ t \in Testlet /\ r.timerId = t /\ r.timers = StartTimer(sv, t).timers
<1> DEFINE t == TimerOfUnit(sv.current)
           s == IF t = NoTimer \/ t = sv.timerId THEN sv ELSE StartTimer(sv, t)
<1>1. t \in Testlet \cup {NoTimer}
  BY TimerOfUnitType DEF ServiceState
<1>2. CASE Locked(sv, sv.current)
  BY <1>2 DEF RunUnit, SameUnit, SameLocks, SameTimes
<1>3. CASE ~Locked(sv, sv.current)
  <2>1. RunUnit(sv) = UpdateNavigationState(s)
    BY <1>3 DEF RunUnit
  <2> HIDE DEF t
  <2>2. s \in ServiceState /\ SameUnit(sv, s) /\ SameLocks(sv, s) /\ s.lockedUnits = sv.lockedUnits
        /\ (t = NoTimer \/ t = sv.timerId => SameTimes(sv, s))
        /\ (t # NoTimer /\ t # sv.timerId => s.timerId = t /\ s.timers = StartTimer(sv, t).timers)
    <3>1. CASE t = NoTimer \/ t = sv.timerId
      BY <3>1 DEF SameUnit, SameLocks, SameTimes
    <3>2. CASE ~(t = NoTimer \/ t = sv.timerId)
      BY <1>1, <3>2, StartTimerStep, StartTimerFacts DEF Step
    <3> QED
      BY <3>1, <3>2
  <2> HIDE DEF s
  <2>3. LET r == UpdateNavigationState(s) IN
        /\ SameUnit(s, r) /\ SameLocks(s, r) /\ SameTimes(s, r) /\ r.lockedUnits = s.lockedUnits
    BY <2>2, UpdateNavigationStateFacts
  <2> QED
    BY <1>1, <1>3, <2>1, <2>2, <2>3 DEF SameUnit, SameLocks, SameTimes, t
<1> QED
  BY <1>2, <1>3

\* What Open adds to RunUnit is the new current unit.
LEMMA OpenFacts ==
  ASSUME NEW sv \in ServiceState, NEW u \in Unit
  PROVE  LET r == Open(sv, u)
             t == TimerOfUnit(u) IN
         /\ r.state = sv.state /\ r.current = u /\ r.complete = sv.complete
         /\ SameLocks(sv, r) /\ r.lockedUnits = sv.lockedUnits
         /\ Locked(sv, u) \/ t = NoTimer \/ t = sv.timerId => SameTimes(sv, r)
         /\ ~Locked(sv, u) /\ t # NoTimer /\ t # sv.timerId
              => /\ t \in Testlet /\ r.timerId = t /\ r.timers = StartTimer(sv, t).timers
<1> DEFINE s == [sv EXCEPT !.current = u, !.testState.unit = u]
           t == TimerOfUnit(u)
<1>1. u \in UnitOrNone
  BY DEF UnitOrNone
<1>2. /\ s \in ServiceState /\ s.current = u /\ s.state = sv.state /\ s.complete = sv.complete
      /\ SameLocks(sv, s) /\ SameTimes(sv, s) /\ s.lockedUnits = sv.lockedUnits
  BY <1>1 DEF ServiceState, TestState, SameLocks, SameTimes
<1>3. Open(sv, u) = RunUnit(s)
  BY DEF Open
<1> HIDE DEF s
<1>4. Locked(s, u) <=> Locked(sv, u)
  BY <1>2 DEF Locked, LocksAbove, SameLocks
<1>5. t \in Testlet => StartTimer(s, t).timers = StartTimer(sv, t).timers
  <2> HIDE DEF t
  <2> SUFFICES ASSUME t \in Testlet PROVE StartTimer(s, t).timers = StartTimer(sv, t).timers
    OBVIOUS
  <2>1. s.timers = sv.timers
    BY <1>2 DEF SameTimes
  <2>2. StartTimer(s, t).timers = [s.timers EXCEPT ![t] =
          IF s.timers[t] > 0 /\ s.timers[t] < MaxTime[t] THEN s.timers[t] ELSE MaxTime[t]]
    BY <1>2, StartTimerFacts
  <2>3. StartTimer(sv, t).timers = [sv.timers EXCEPT ![t] =
          IF sv.timers[t] > 0 /\ sv.timers[t] < MaxTime[t] THEN sv.timers[t] ELSE MaxTime[t]]
    BY StartTimerFacts
  <2> QED
    BY <2>1, <2>2, <2>3
<1> QED
  BY <1>2, <1>3, <1>4, <1>5, RunUnitFacts DEF SameUnit, SameLocks, SameTimes

LEMMA SolveTimerFacts ==
  ASSUME NEW sv \in ServiceState, NEW to \in UnitOrNone
  PROVE  LET r == SolveTimer(sv, to) IN
         /\ SameUnit(sv, r) /\ r.lockedUnits = sv.lockedUnits
         /\ r.show = sv.show /\ r.code = sv.code /\ r.afterLeave = sv.afterLeave
         /\ ~LeavesTimedBlock(sv, to) => r = sv
         /\ LeavesTimedBlock(sv, to) => r = CancelTimer(sv) \/ r = InterruptTimer(sv)
         /\ LeavesTimedBlock(sv, to) => r.timerId = NoTimer
         /\ ~ForceTimeRestrictions => r.time = sv.time
<1>1. CASE ~LeavesTimedBlock(sv, to)
  BY <1>1 DEF SolveTimer, SameUnit
<1>2. CASE LeavesTimedBlock(sv, to) /\ Leave[sv.timerId] = "allowed"
  <2>1. SolveTimer(sv, to) = CancelTimer(sv)
    BY <1>2 DEF SolveTimer
  <2> QED
    BY <1>2, <2>1, CancelTimerFacts
<1>3. CASE LeavesTimedBlock(sv, to) /\ Leave[sv.timerId] # "allowed"
  <2>1. SolveTimer(sv, to) = InterruptTimer(sv)
    BY <1>3 DEF SolveTimer
  <2> QED
    BY <1>3, <2>1, InterruptTimerFacts DEF SameLocks
<1> QED
  BY <1>1, <1>2, <1>3

LEMMA SolveLeaveFacts ==
  ASSUME NEW sv \in ServiceState, sv.current # NoUnit, NEW to \in UnitOrNone
  PROVE  LET r == SolveLeave(sv, to)
             s == SolveTimer(sv, to) IN
         /\ s \in ServiceState
         /\ sv.current \in Unit
         /\ r = IF LeavesLockedArea(sv, to) THEN LeaveLock(s, sv.current) ELSE s
         /\ SameUnit(sv, r) /\ SameTimes(s, r) /\ r.show = sv.show /\ r.code = sv.code
         /\ r.time = s.time
<1>1. SolveTimer(sv, to) \in ServiceState /\ sv.current \in Unit
  BY SolveTimerStep DEF Step, ServiceState, UnitOrNone
<1> DEFINE s == SolveTimer(sv, to)
<1>2. SameUnit(sv, s) /\ s.show = sv.show /\ s.code = sv.code
  BY SolveTimerFacts
<1>3. SolveLeave(sv, to) = IF LeavesLockedArea(sv, to) THEN LeaveLock(s, sv.current) ELSE s
  BY DEF SolveLeave
<1> HIDE DEF s
<1>4. LET r == LeaveLock(s, sv.current) IN
      SameUnit(s, r) /\ SameTimes(s, r) /\ r.show = s.show /\ r.time = s.time /\ r.code = s.code
  BY <1>1, LeaveLockFacts DEF s
<1>5. LET r == SolveLeave(sv, to) IN
      SameUnit(sv, r) /\ SameTimes(s, r) /\ r.show = sv.show /\ r.code = sv.code /\ r.time = s.time
  BY <1>2, <1>3, <1>4 DEF SameUnit, SameTimes
<1> QED
  BY <1>1, <1>3, <1>5 DEF s

LEMMA TerminateFacts ==
  ASSUME NEW sv \in ServiceState
  PROVE  LET r == Terminate(sv) IN
         /\ r.state \in {"TERMINATED", "TERMINATED_PAUSED"}
         /\ r.current = sv.current /\ r.complete = sv.complete
         /\ SameLocks(sv, r) /\ r.lockedUnits = sv.lockedUnits /\ r.timers = sv.timers
         /\ sv.state # "TERMINATED" => r.timerId = NoTimer
         /\ sv.state = "TERMINATED" => r = sv
  BY DEF Terminate, SetState, InterruptTimer, ServiceState, SameLocks

----------------------------------------------------------------------------------
\* What is stored of a service that no goto has changed: the unit, the codes and the times.
Mirror(s) ==
  /\ s.current # NoUnit => s.testState.unit = s.current
  /\ s.code \subseteq Coded /\ s.testState.clearedCode = Coded \ s.code
  /\ s.testState.timeLeft = s.timers
  /\ \A t \in Testlet : s.timers[t] # NotANumber

LEMMA MirrorStays ==
  ASSUME NEW s, Mirror(s), NEW r, r.current = s.current, r.code = s.code, r.timers = s.timers,
         r.testState.unit = s.testState.unit, r.testState.clearedCode = s.testState.clearedCode,
         r.testState.timeLeft = s.testState.timeLeft
  PROVE  Mirror(r)
  BY DEF Mirror

LEMMA UpdateNavigationStateMirrors ==
  ASSUME NEW sv \in ServiceState, Mirror(sv) PROVE Mirror(UpdateNavigationState(sv))
  BY UpdateNavigationStateFacts, MirrorStays DEF SameUnit, SameLocks, SameTimes

LEMMA InterruptTimerMirrors ==
  ASSUME NEW sv \in ServiceState, Mirror(sv) PROVE Mirror(InterruptTimer(sv))
  BY InterruptTimerFacts, MirrorStays DEF SameUnit, SameLocks

LEMMA SetStateMirrors ==
  ASSUME NEW sv \in ServiceState, Mirror(sv), NEW state \in State PROVE Mirror(SetState(sv, state))
<1> DEFINE r == SetState(sv, state)
<1>1. /\ r.current = sv.current /\ r.code = sv.code /\ r.timers = sv.timers
      /\ r.testState.unit = sv.testState.unit /\ r.testState.clearedCode = sv.testState.clearedCode
      /\ r.testState.timeLeft = sv.testState.timeLeft
  BY DEF SetState, ServiceState, TestState
<1> HIDE DEF r
<1>2. Mirror(r)
  BY <1>1, MirrorStays
<1> QED
  BY <1>2 DEF r

LEMMA SetTimeLeftMirrors ==
  ASSUME NEW sv \in ServiceState, Mirror(sv), NEW t \in Testlet, NEW left \in Int, left # NotANumber
  PROVE  Mirror(SetTimeLeft(sv, t, left))
<1> DEFINE timers == [sv.timers EXCEPT ![t] = left]
           r == SetTimeLeft(sv, t, left)
<1>1. timers \in [Testlet -> Int] /\ \A x \in Testlet : timers[x] # NotANumber
  BY DEF ServiceState, Times, Mirror
<1>2. r.timers = timers /\ r.testState.timeLeft = TimeLeftAsJson(timers)
      /\ r.current = sv.current /\ r.code = sv.code
      /\ r.testState.unit = sv.testState.unit /\ r.testState.clearedCode = sv.testState.clearedCode
  <2> HIDE DEF timers
  <2>1. r = [sv EXCEPT !.timers = timers, !.testState.timeLeft = TimeLeftAsJson(timers)]
    BY DEF SetTimeLeft, timers
  <2> HIDE DEF r
  <2> QED
    BY <2>1 DEF ServiceState, TestState
<1> HIDE DEF timers, r
<1>3. TimeLeftAsJson(timers) = timers
  BY <1>1 DEF TimeLeftAsJson
<1>4. Mirror(r)
  BY <1>1, <1>2, <1>3 DEF Mirror
<1> QED
  BY <1>4 DEF r

LEMMA CloseTimedBlockMirrors ==
  ASSUME NEW sv \in ServiceState, Mirror(sv), sv.timerId # NoTimer
  PROVE  Mirror(CloseTimedBlock(sv))
<1> DEFINE s == SetTimeLeft(sv, sv.timerId, 0)
           locked == [s EXCEPT !.time = @ \cup {ParentOf[sv.current]}]
           q == IF ForceTimeRestrictions /\ sv.current # NoUnit THEN UpdateNavigationState(locked) ELSE s
<1>1. sv.timerId \in Testlet
  BY DEF ServiceState
<1>2. s \in ServiceState /\ Mirror(s) /\ s.current = sv.current
  BY <1>1, SetTimeLeftStep, SetTimeLeftMirrors DEF Step, NotANumber
<1>3. CloseTimedBlock(sv) = InterruptTimer(q)
  BY <1>2 DEF CloseTimedBlock
<1> HIDE DEF s
<1>4. q \in ServiceState /\ Mirror(q)
  <2>1. CASE ForceTimeRestrictions /\ sv.current # NoUnit
    <3>1. ParentOf[sv.current] \in Testlet
      BY <2>1, BookletAssumption DEF ServiceState, UnitOrNone
    <3>2. /\ locked \in ServiceState /\ locked.current = s.current /\ locked.code = s.code
          /\ locked.timers = s.timers /\ locked.testState = s.testState
      BY <1>2, <3>1 DEF ServiceState
    <3> HIDE DEF locked
    <3> QED
      BY <1>2, <2>1, <3>2, MirrorStays, UpdateNavigationStateStep, UpdateNavigationStateMirrors
         DEF Step
  <2>2. CASE ~(ForceTimeRestrictions /\ sv.current # NoUnit)
    BY <1>2, <2>2
  <2> QED
    BY <2>1, <2>2
<1> HIDE DEF q
<1> QED
  BY <1>3, <1>4, InterruptTimerMirrors

LEMMA CancelTimerMirrors ==
  ASSUME NEW sv \in ServiceState, Mirror(sv) PROVE Mirror(CancelTimer(sv))
  BY CloseTimedBlockMirrors DEF CancelTimer

LEMMA StartTimerMirrors ==
  ASSUME NEW sv \in ServiceState, Mirror(sv), NEW t \in Testlet
  PROVE  StartTimer(sv, t) \in ServiceState /\ Mirror(StartTimer(sv, t))
<1> DEFINE left == IF sv.timers[t] > 0 /\ sv.timers[t] < MaxTime[t] THEN sv.timers[t] ELSE MaxTime[t]
           s == SetTimeLeft(sv, t, left)
           r == [s EXCEPT !.timerId = t]
<1>1. left \in Int /\ left # NotANumber
  BY RestrictionAssumption DEF ServiceState, Times, NotANumber
<1>2. StartTimer(sv, t) = r
  BY DEF StartTimer
<1>3. s \in ServiceState /\ Mirror(s)
  <2> HIDE DEF left
  <2> QED
    BY <1>1, SetTimeLeftStep, SetTimeLeftMirrors DEF Step
<1> HIDE DEF s
<1>4. r.current = s.current /\ r.code = s.code /\ r.timers = s.timers /\ r.testState = s.testState
  BY <1>3 DEF ServiceState
<1> HIDE DEF r
<1> QED
  BY <1>2, <1>3, <1>4, MirrorStays, StartTimerStep DEF Step

LEMMA ClearCodeLockMirrors ==
  ASSUME NEW sv \in ServiceState, Mirror(sv), NEW t \in Testlet
  PROVE  Mirror(ClearCodeLock(sv, t))
<1> DEFINE cleared == (Coded \ sv.code) \cup {t}
           s == [sv EXCEPT !.code = @ \ {t}, !.testState.clearedCode = cleared]
<1>1. CASE t \notin Coded
  BY <1>1 DEF ClearCodeLock
<1>2. CASE t \in Coded
  <2>1. cleared \in SUBSET Testlet /\ cleared = Coded \ (sv.code \ {t})
    BY <1>2, RestrictionAssumption
  <2>2. ClearCodeLock(sv, t) = UpdateNavigationState(s)
    BY <1>2 DEF ClearCodeLock
  <2> HIDE DEF cleared
  <2>3. /\ s \in ServiceState /\ s.current = sv.current /\ s.code = sv.code \ {t}
        /\ s.timers = sv.timers /\ s.testState.unit = sv.testState.unit
        /\ s.testState.clearedCode = cleared /\ s.testState.timeLeft = sv.testState.timeLeft
    BY <2>1 DEF ServiceState, TestState
  <2> HIDE DEF s
  <2>4. Mirror(s)
    BY <2>1, <2>3 DEF Mirror
  <2> QED
    BY <2>2, <2>3, <2>4, UpdateNavigationStateMirrors
<1> QED
  BY <1>1, <1>2

LEMMA LeaveLockMirrors ==
  ASSUME NEW sv \in ServiceState, Mirror(sv), NEW u \in Unit
  PROVE  Mirror(LeaveLock(sv, u))
<1> DEFINE t == ParentOf[u]
<1>1. t \in Testlet
  BY BookletAssumption
<1>2. CASE ~ForceNaviRestrictions \/ LockScope[t] \notin {"testlet", "unit"}
  BY <1>2, ModeAssumption DEF LeaveLock
<1>3. CASE ForceNaviRestrictions /\ LockScope[t] = "testlet"
  <2> DEFINE locked == sv.afterLeave \cup {t}
             kept == {a \in locked : LockScope[a] = "testlet"}
             s == [sv EXCEPT !.afterLeave = locked, !.testState.lockedTestlets = kept]
  <2>1. LeaveLock(sv, u) = UpdateNavigationState(s)
    BY <1>3 DEF LeaveLock, ActivateTestletLeaveLock
  <2>2. locked \in SUBSET Testlet /\ kept \in SUBSET Testlet
    BY <1>1 DEF ServiceState
  <2> HIDE DEF locked, kept
  <2>3. /\ s \in ServiceState /\ s.current = sv.current /\ s.code = sv.code /\ s.timers = sv.timers
        /\ s.testState.unit = sv.testState.unit /\ s.testState.timeLeft = sv.testState.timeLeft
        /\ s.testState.clearedCode = sv.testState.clearedCode
    BY <2>2 DEF ServiceState, TestState
  <2> HIDE DEF s
  <2> QED
    BY <2>1, <2>3, MirrorStays, UpdateNavigationStateMirrors
<1>4. CASE ForceNaviRestrictions /\ LockScope[t] = "unit"
  <2> DEFINE locked == sv.lockedUnits \cup {u}
             kept == {v \in locked : LockScope[ParentOf[v]] = "unit"}
             s == [sv EXCEPT !.lockedUnits = locked, !.testState.lockedUnits = kept]
  <2>1. LeaveLock(sv, u) = s
    BY <1>4 DEF LeaveLock, ActivateUnitLeaveLock
  <2> HIDE DEF locked, kept
  <2>2. /\ s.current = sv.current /\ s.code = sv.code /\ s.timers = sv.timers
        /\ s.testState.unit = sv.testState.unit /\ s.testState.timeLeft = sv.testState.timeLeft
        /\ s.testState.clearedCode = sv.testState.clearedCode
    BY DEF ServiceState, TestState
  <2> HIDE DEF s
  <2> QED
    BY <2>1, <2>2, MirrorStays
<1> QED
  BY <1>2, <1>3, <1>4

LEMMA UpdateAllShowLocksMirrors ==
  ASSUME NEW sv \in ServiceState, Mirror(sv), NEW shown \in SUBSET Conditional
  PROVE  Mirror(UpdateAllShowLocks(sv, shown))
<1> DEFINE s == [sv EXCEPT !.show = Conditional \ shown]
<1>1. UpdateAllShowLocks(sv, shown) = UpdateNavigationState(s)
  BY DEF UpdateAllShowLocks
<1>2. /\ s \in ServiceState /\ s.current = sv.current /\ s.code = sv.code /\ s.timers = sv.timers
      /\ s.testState = sv.testState
  BY RestrictionAssumption DEF ServiceState
<1> HIDE DEF s
<1> QED
  BY <1>1, <1>2, MirrorStays, UpdateNavigationStateMirrors

LEMMA RunUnitMirrors ==
  ASSUME NEW sv \in ServiceState, Mirror(sv) PROVE Mirror(RunUnit(sv))
<1> DEFINE t == TimerOfUnit(sv.current)
           s == IF t = NoTimer \/ t = sv.timerId THEN sv ELSE StartTimer(sv, t)
<1>1. t \in Testlet \cup {NoTimer}
  BY TimerOfUnitType DEF ServiceState
<1>2. RunUnit(sv) = IF Locked(sv, sv.current) THEN sv ELSE UpdateNavigationState(s)
  BY DEF RunUnit
<1> HIDE DEF t
<1>3. s \in ServiceState /\ Mirror(s)
  BY <1>1, StartTimerMirrors
<1> HIDE DEF s
<1> QED
  BY <1>2, <1>3, UpdateNavigationStateMirrors

LEMMA OpenMirrors ==
  ASSUME NEW sv \in ServiceState, Mirror(sv), NEW u \in Unit PROVE Mirror(Open(sv, u))
<1> DEFINE s == [sv EXCEPT !.current = u, !.testState.unit = u]
<1>1. u \in UnitOrNone
  BY DEF UnitOrNone
<1>2. /\ s \in ServiceState /\ s.current = u /\ s.testState.unit = u /\ s.code = sv.code
      /\ s.timers = sv.timers /\ s.testState.timeLeft = sv.testState.timeLeft
      /\ s.testState.clearedCode = sv.testState.clearedCode
  BY <1>1 DEF ServiceState, TestState
<1>3. Open(sv, u) = RunUnit(s)
  BY DEF Open
<1> HIDE DEF s
<1>4. Mirror(s)
  BY <1>2 DEF Mirror
<1> QED
  BY <1>2, <1>3, <1>4, RunUnitMirrors

LEMMA SolveTimerMirrors ==
  ASSUME NEW sv \in ServiceState, Mirror(sv), NEW to \in UnitOrNone
  PROVE  Mirror(SolveTimer(sv, to))
<1>1. SolveTimer(sv, to) \in {sv, CancelTimer(sv), InterruptTimer(sv)}
  BY SolveTimerFacts
<1> QED
  BY <1>1, CancelTimerMirrors, InterruptTimerMirrors

LEMMA SolveLeaveMirrors ==
  ASSUME NEW sv \in ServiceState, Mirror(sv), sv.current # NoUnit, NEW to \in UnitOrNone
  PROVE  Mirror(SolveLeave(sv, to))
<1> DEFINE s == SolveTimer(sv, to)
<1>1. s \in ServiceState /\ sv.current \in Unit /\ Mirror(s)
  BY SolveLeaveFacts, SolveTimerMirrors
<1>2. SolveLeave(sv, to) = IF LeavesLockedArea(sv, to) THEN LeaveLock(s, sv.current) ELSE s
  BY DEF SolveLeave
<1> HIDE DEF s
<1> QED
  BY <1>1, <1>2, LeaveLockMirrors

LEMMA TerminateMirrors ==
  ASSUME NEW sv \in ServiceState, Mirror(sv) PROVE Mirror(Terminate(sv))
<1>1. InterruptTimer(sv) \in ServiceState /\ Mirror(InterruptTimer(sv))
  BY InterruptTimerStep, InterruptTimerMirrors DEF Step
<1> QED
  BY <1>1, SetStateMirrors DEF Terminate, State

----------------------------------------------------------------------------------
(**************************** The router, its dialogs, timer and commands **********)

\* What the page, the redirect, the requests, the dialogs and the bounds look like.
RouterOK ==
  /\ page \in Page /\ redirect \in UnitOrNone
  /\ requests \in Seq(Request)
  /\ ending \in {"no", "leave", "lock"} /\ testLocked \in BOOLEAN
  /\ movedBy \in Mover /\ reopened \subseteq Unit
  /\ commands \in 0..MaxCommands /\ loads \in 0..MaxLoads

\* Where a unit is shown there is a current one.
Shown(s, p) == p = "unit" => s.current # NoUnit

\* A dialog that asks to lock asks for a unit.
DialogsOK(D) == D \subseteq Dialog /\ \A d \in D : d.asks = "lock" => d.unit # NoUnit

\* The locks a stored test state holds, except where the monitor has sent the testee, hold in s.
Held(r, s, gone) ==
  /\ r \in TestState
  /\ r.lockedTestlets \ {ParentOf[u] : u \in gone} \subseteq s.afterLeave
  /\ r.lockedUnits \ gone \subseteq s.lockedUnits
  /\ \A t \in r.lockedTestlets : LockScope[t] = "testlet"

\* LeaveLocksHold is not inductive: what is saved next is in the buffer now.
Kept(s, stored, gone) ==
  /\ s \in ServiceState
  /\ Held(s.testState, s, gone)
  /\ Held(stored, s, gone)

Inv == RouterOK /\ Shown(tc, page) /\ DialogsOK(dialogs) /\ Kept(tc, saved, reopened)

LEMMA StepKeeps ==
  ASSUME NEW s, NEW r, NEW stored, NEW gone, Kept(s, stored, gone), Step(s, r)
  PROVE  Kept(r, stored, gone)
<1>1. r \in ServiceState /\ r.testState \in TestState
  BY DEF Step, ServiceState
<1>2. Held(r.testState, r, gone)
  <2>1. r.testState.lockedTestlets \ {ParentOf[u] : u \in gone} \subseteq r.afterLeave
    BY DEF Kept, Held, Step
  <2>2. r.testState.lockedUnits \ gone \subseteq r.lockedUnits
    BY DEF Kept, Held, Step
  <2>3. \A t \in r.testState.lockedTestlets : LockScope[t] = "testlet"
    BY DEF Kept, Held, Step
  <2> QED
    BY <1>1, <2>1, <2>2, <2>3 DEF Held
<1>3. Held(stored, r, gone)
  BY DEF Kept, Held, Step
<1> QED
  BY <1>1, <1>2, <1>3 DEF Kept

----------------------------------------------------------------------------------
\* A navigation from s ends in a state that is a Step from s.
Lands(s) == Step(s, tc') /\ page' \in Page /\ redirect' \in UnitOrNone /\ Shown(tc', page')

LEMMA ActivateLands ==
  ASSUME NEW s \in ServiceState, NEW to \in UnitOrNone, NEW from \in Page, Shown(s, from),
         Activate(s, to, from)
  PROVE  Lands(s)
<1>1. NoUnit \in UnitOrNone /\ Detour(s, to) \in UnitOrNone
  BY DetourType DEF UnitOrNone
<1>2. CASE tc' = s /\ page' = from /\ redirect' \in UnitOrNone
  BY <1>2, StepStays DEF Lands
<1>3. CASE to # NoUnit /\ tc' = Open(s, to) /\ page' = "unit" /\ redirect' = NoUnit
  <2>1. to \in Unit
    BY <1>3 DEF UnitOrNone
  <2> QED
    BY <1>1, <1>3, <2>1, OpenStep DEF Lands, Shown, Page
<1> QED
  BY <1>1, <1>2, <1>3 DEF Activate

LEMMA StayLands ==
  ASSUME NEW s \in ServiceState, NEW r, Step(s, r), page \in Page, Shown(s, page), Stay(r)
  PROVE  Lands(s)
  BY DEF Stay, Lands, Shown, UnitOrNone, Step

LEMMA LeftUncheckedStep ==
  ASSUME NEW s \in ServiceState
  PROVE  Step(s, LeftUnchecked(s))
  BY StepStays, InterruptTimerStep DEF LeftUnchecked

LEMMA SupersededType ==
  ASSUME DialogsOK(dialogs)
  PROVE  DialogsOK(Superseded)
<1> SUFFICES ASSUME NEW d \in dialogs
             PROVE  LET e == [d EXCEPT !.live = FALSE] IN
                    e \in Dialog /\ (e.asks = "lock" => e.unit # NoUnit)
  BY DEF DialogsOK, Superseded
<1>1. d \in Dialog /\ (d.asks = "lock" => d.unit # NoUnit)
  BY DEF DialogsOK
<1> QED
  BY <1>1 DEF Dialog

LEMMA OneMoreDialog ==
  ASSUME NEW D, DialogsOK(D), NEW d \in Dialog, d.asks = "lock" => d.unit # NoUnit
  PROVE  DialogsOK(D \cup {d})
  BY DEF DialogsOK

LEMMA AskLands ==
  ASSUME NEW s \in ServiceState, s.current # NoUnit, NEW to \in UnitOrNone,
         NEW exit \in BOOLEAN, page \in Page, DialogsOK(dialogs), Ask(s, to, exit)
  PROVE  Lands(s) /\ DialogsOK(dialogs')
<1> DEFINE endsTest == exit /\ SaveResponses /\ IsTestOngoing(s)
           dialog(asks) == [asks |-> asks, unit |-> s.current, to |-> to, exit |-> exit,
                            endsTest |-> endsTest, live |-> TRUE]
<1>1. endsTest \in BOOLEAN /\ s.current \in UnitOrNone
  BY ModeAssumption DEF ServiceState
<1>2. dialog("timer") \in Dialog /\ dialog("lock") \in Dialog
  <2> HIDE DEF endsTest
  <2> QED
    BY <1>1 DEF Dialog
<1>3. DialogsOK(Superseded \cup {dialog("timer")}) /\ DialogsOK(Superseded \cup {dialog("lock")})
  <2>1. dialog("timer").unit # NoUnit /\ dialog("lock").unit # NoUnit
    OBVIOUS
  <2> HIDE DEF dialog
  <2> QED
    BY <1>2, <2>1, SupersededType, OneMoreDialog
<1>4. \/ Stay(s) /\ dialogs' = Superseded \cup {dialog("timer")}
      \/ Stay(SolveTimer(s, to)) /\ dialogs' = Superseded \cup {dialog("lock")}
  BY DEF Ask
<1>5. Shown(s, page)
  BY DEF Shown
<1> HIDE DEF dialog
<1> QED
  BY <1>3, <1>4, <1>5, StayLands, StepStays, SolveTimerStep

LEMMA GoLands ==
  ASSUME NEW s \in ServiceState, NEW to \in UnitOrNone, NEW force \in BOOLEAN,
         page \in Page, Shown(s, page), DialogsOK(dialogs), Go(s, to, force)
  PROVE  Lands(s) /\ DialogsOK(dialogs')
<1>1. DialogsOK(Superseded)
  BY SupersededType
<1>2. CASE Stay(s) /\ dialogs' = Superseded
  BY <1>1, <1>2, StayLands, StepStays
<1>3. CASE Activate(LeftUnchecked(s), to, page) /\ dialogs' = Superseded
  <2>1. Step(s, LeftUnchecked(s))
    BY LeftUncheckedStep
  <2>2. LeftUnchecked(s) \in ServiceState /\ Shown(LeftUnchecked(s), page)
    BY <2>1 DEF Step, Shown
  <2>3. Lands(LeftUnchecked(s))
    BY <1>3, <2>2, ActivateLands
  <2> QED
    BY <1>1, <1>3, <2>1, <2>3, StepChain DEF Lands
<1>4. CASE Checked(s, force) /\ Ask(s, to, FALSE)
  BY <1>4, AskLands DEF Checked, FreeToLeave
<1>5. CASE Checked(s, force) /\ Activate(SolveLeave(s, to), to, page) /\ dialogs' = Superseded
  <2>1. Step(s, SolveLeave(s, to))
    BY <1>5, SolveLeaveStep DEF Checked, FreeToLeave
  <2>2. SolveLeave(s, to) \in ServiceState /\ Shown(SolveLeave(s, to), page)
    BY <2>1 DEF Step, Shown
  <2>3. Lands(SolveLeave(s, to))
    BY <1>5, <2>2, ActivateLands
  <2> QED
    BY <1>1, <1>5, <2>1, <2>3, StepChain DEF Lands
<1> QED
  BY <1>2, <1>3, <1>4, <1>5 DEF Go

LEMMA GoToUnitLands ==
  ASSUME NEW s \in ServiceState, NEW u \in Unit, NEW force \in BOOLEAN,
         page \in Page, Shown(s, page), DialogsOK(dialogs), GoToUnit(s, u, force)
  PROVE  Lands(s) /\ DialogsOK(dialogs')
<1>1. CASE Stay(Open(s, u)) /\ dialogs' = Superseded
  BY <1>1, StayLands, OpenStep, SupersededType
<1>2. CASE Go(s, u, force)
  BY <1>2, GoLands DEF UnitOrNone
<1> QED
  BY <1>1, <1>2 DEF GoToUnit

LEMMA BeginEndingLands ==
  ASSUME NEW s \in ServiceState, page \in Page, Shown(s, page), BeginEnding(s),
         ending \in {"no", "leave", "lock"}
  PROVE  Lands(s) /\ ending' \in {"no", "leave", "lock"}
  BY StayLands, TerminateStep DEF BeginEnding

LEMMA ConfirmEndLands ==
  ASSUME NEW s \in ServiceState, NEW open, page \in Page, Shown(s, page), DialogsOK(open),
         ConfirmEnd(s, open), ending \in {"no", "leave", "lock"}
  PROVE  Lands(s) /\ DialogsOK(dialogs') /\ ending' \in {"no", "leave", "lock"}
<1> DEFINE end == [asks |-> "end", unit |-> s.current, to |-> NoUnit,
                   exit |-> TRUE, endsTest |-> TRUE, live |-> TRUE]
<1>1. DialogsOK(open \cup {end})
  <2>1. end \in Dialog
    BY DEF Dialog, ServiceState, UnitOrNone
  <2>2. end.asks # "lock"
    OBVIOUS
  <2> HIDE DEF end
  <2> QED
    BY <2>1, <2>2, OneMoreDialog
<1>2. CASE tc' = s /\ page' = "starter" /\ redirect' = NoUnit /\ dialogs' = open /\ ending' = ending
  BY <1>2, StepStays DEF Lands, Shown, Page, UnitOrNone
<1>3. CASE BeginEnding(s) /\ dialogs' = open
  BY <1>3, BeginEndingLands
<1>4. CASE Stay(s) /\ ending' = ending /\ dialogs' = open \cup {end}
  BY <1>1, <1>4, StayLands, StepStays
<1> QED
  BY <1>2, <1>3, <1>4 DEF ConfirmEnd

----------------------------------------------------------------------------------
\* What an action has to show for its part of the invariant.
Landed == Lands(tc) /\ DialogsOK(dialogs')
Rest == /\ requests' \in Seq(Request) /\ ending' \in {"no", "leave", "lock"}
        /\ movedBy' \in Mover /\ commands' \in 0..MaxCommands

LEMMA LandedKeepsInv ==
  ASSUME Inv, Landed, Rest, UNCHANGED outside
  PROVE  Inv'
<1>1. Kept(tc', saved, reopened)
  BY StepKeeps DEF Inv, Landed, Lands
<1>2. Kept(tc, saved, reopened)'
  BY <1>1 DEF outside, Kept, Held
<1> QED
  BY <1>2 DEF Inv, RouterOK, Landed, Lands, Rest, outside

LEMMA StepKeepsInv ==
  ASSUME Inv, Step(tc, tc'), UNCHANGED <<page, redirect, dialogs, outside>>, Rest
  PROVE  Inv'
<1>1. Lands(tc)
  BY DEF Lands, Inv, RouterOK, Shown, Step
<1>2. Landed
  BY <1>1 DEF Landed, Inv
<1> QED
  BY <1>2, LandedKeepsInv

LEMMA EnqueueType ==
  ASSUME requests \in Seq(Request), NEW by \in Mover,
         NEW target \in RelativeTarget \cup {"PAUSE"}, NEW force \in BOOLEAN,
         Enqueue(by, target, force)
  PROVE  requests' \in Seq(Request)
<1>1. [by |-> by, target |-> target, force |-> force] \in Request
  BY DEF Request
<1> QED
  BY <1>1 DEF Enqueue

----------------------------------------------------------------------------------
\* One lemma for each of the actions.
LEMMA FollowRedirectInv ==
  ASSUME Inv, FollowRedirect PROVE Inv'
<1>1. Landed
  BY GoLands DEF Inv, RouterOK, Kept, FollowRedirect, Landed
<1> QED
  BY <1>1, LandedKeepsInv DEF FollowRedirect, Rest, Inv, RouterOK

LEMMA SelectUnitInv ==
  ASSUME Inv, NEW u \in Unit, SelectUnit(u) PROVE Inv'
<1>1. Landed
  BY GoToUnitLands DEF Inv, RouterOK, Kept, SelectUnit, Landed
<1> QED
  BY <1>1, LandedKeepsInv DEF SelectUnit, Rest, Inv, RouterOK, Mover

LEMMA RequestNavigationInv ==
  ASSUME Inv, NEW target \in RelativeTarget, RequestNavigation(target) PROVE Inv'
<1>1. requests' \in Seq(Request)
  BY EnqueueType DEF RequestNavigation, Inv, RouterOK, Mover
<1>2. Step(tc, tc')
  BY StepStays DEF RequestNavigation, Inv, Kept
<1> QED
  BY <1>1, <1>2, StepKeepsInv DEF RequestNavigation, Rest, Inv, RouterOK

LEMMA SubmitCodeInv ==
  ASSUME Inv, SubmitCode PROVE Inv'
<1> DEFINE t == LockedThrough(tc, tc.current)
<1>1. t \in Testlet
  BY LockedThroughType DEF SubmitCode, LockedByCode, Inv, Kept, ServiceState, UnitOrNone
<1>2. Step(tc, ClearCodeLock(tc, t))
  <2> HIDE DEF t
  <2> QED
    BY <1>1, ClearCodeLockStep DEF Inv, Kept
<1>3. Step(ClearCodeLock(tc, t), RunUnit(ClearCodeLock(tc, t)))
  BY <1>2, RunUnitStep DEF Step
<1>4. Step(tc, tc')
  <2> HIDE DEF t
  <2>1. tc' = RunUnit(ClearCodeLock(tc, t))
    BY DEF SubmitCode, t
  <2> QED
    BY <1>2, <1>3, <2>1, StepChain
<1> QED
  BY <1>4, StepKeepsInv DEF SubmitCode, Rest, Inv, RouterOK

LEMMA RequestTestEndInv ==
  ASSUME Inv, RequestTestEnd PROVE Inv'
<1>1. tc \in ServiceState /\ page \in Page /\ Shown(tc, page) /\ DialogsOK(dialogs) /\ DialogsOK({})
      /\ ending \in {"no", "leave", "lock"} /\ NoUnit \in UnitOrNone
  BY DEF Inv, RouterOK, Kept, DialogsOK, UnitOrNone
<1>2. Landed /\ ending' \in {"no", "leave", "lock"}
  <2>1. CASE ConfirmEnd(tc, {})
    BY <1>1, <2>1, ConfirmEndLands DEF Landed
  <2>2. CASE Stay(tc) /\ UNCHANGED <<dialogs, ending>>
    BY <1>1, <2>2, StayLands, StepStays DEF Landed
  <2>3. CASE Checked(tc, FALSE) /\ Ask(tc, NoUnit, TRUE) /\ UNCHANGED ending
    BY <1>1, <2>3, AskLands DEF Landed, Checked, FreeToLeave
  <2>4. CASE Checked(tc, FALSE) /\ ConfirmEnd(SolveLeave(tc, NoUnit), {})
    <3>1. Step(tc, SolveLeave(tc, NoUnit))
      BY <1>1, <2>4, SolveLeaveStep DEF Checked, FreeToLeave
    <3>2. SolveLeave(tc, NoUnit) \in ServiceState /\ Shown(SolveLeave(tc, NoUnit), page)
      BY <1>1, <3>1 DEF Step, Shown
    <3>3. /\ Lands(SolveLeave(tc, NoUnit)) /\ DialogsOK(dialogs')
          /\ ending' \in {"no", "leave", "lock"}
      BY <1>1, <2>4, <3>2, ConfirmEndLands
    <3> QED
      BY <3>1, <3>3, StepChain DEF Lands, Landed
  <2> QED
    BY <2>1, <2>2, <2>3, <2>4 DEF RequestTestEnd
<1> QED
  BY <1>2, LandedKeepsInv DEF RequestTestEnd, Rest, Inv, RouterOK, Mover

LEMMA FewerDialogs ==
  ASSUME NEW D, DialogsOK(D), NEW d
  PROVE  DialogsOK(D \ {d})
  BY DEF DialogsOK

LEMMA AnswerInv ==
  ASSUME Inv, NEW d \in dialogs, AnswerStay(d) \/ AnswerLeave(d) PROVE Inv'
<1>1. tc \in ServiceState /\ page \in Page /\ Shown(tc, page) /\ DialogsOK(dialogs \ {d})
      /\ ending \in {"no", "leave", "lock"}
  BY FewerDialogs DEF Inv, RouterOK, Kept
<1>2. CASE AnswerStay(d)
  <2>1. Lands(tc)
    BY <1>1, <1>2, StepStays DEF AnswerStay, Lands, Inv, RouterOK
  <2> QED
    BY <1>1, <1>2, <2>1, LandedKeepsInv DEF AnswerStay, Landed, Rest, Inv, RouterOK
<1>3. CASE AnswerLeave(d)
  <2> DEFINE s == OnConfirmed(d)
  <2>1. d.to \in UnitOrNone /\ (d.asks = "lock" => d.unit \in Unit)
    BY DEF Inv, DialogsOK, Dialog, UnitOrNone
  <2>2. Step(tc, s)
    BY <1>1, <2>1, StepStays, CancelTimerStep, LeaveLockStep DEF OnConfirmed
  <2>3. s \in ServiceState /\ Shown(s, page)
    BY <1>1, <2>2 DEF Step, Shown
  <2> HIDE DEF s
  <2>4. Lands(s) /\ DialogsOK(dialogs') /\ ending' \in {"no", "leave", "lock"}
    <3>1. CASE BeginEnding(s) /\ dialogs' = dialogs \ {d}
      BY <1>1, <2>3, <3>1, BeginEndingLands
    <3>2. CASE ConfirmEnd(s, dialogs \ {d})
      BY <1>1, <2>3, <3>2, ConfirmEndLands
    <3>3. CASE Activate(s, d.to, page) /\ dialogs' = dialogs \ {d} /\ ending' = ending
      BY <1>1, <2>1, <2>3, <3>3, ActivateLands
    <3>4. CASE Stay(s) /\ dialogs' = dialogs \ {d} /\ ending' = ending
      BY <1>1, <2>3, <3>4, StayLands, StepStays
    <3> QED
      BY <1>3, <3>1, <3>2, <3>3, <3>4 DEF AnswerLeave, s
  <2>5. Landed
    BY <2>2, <2>4, StepChain DEF Lands, Landed
  <2> QED
    BY <1>3, <2>4, <2>5, LandedKeepsInv DEF AnswerLeave, Rest, Inv, RouterOK, Mover
<1> QED
  BY <1>2, <1>3

LEMMA ReportProgressInv ==
  ASSUME Inv, NEW done \in BOOLEAN, ReportProgress(done) PROVE Inv'
<1> DEFINE complete == IF done THEN tc.complete \cup {tc.current} ELSE tc.complete \ {tc.current}
<1>1. complete \in SUBSET Unit
  BY DEF ReportProgress, Inv, Shown, Kept, ServiceState, UnitOrNone
<1>2. tc' = [tc EXCEPT !.complete = complete, !.testState.complete = complete]
  BY DEF ReportProgress
<1>3. Step(tc, tc')
  <2> HIDE DEF complete
  <2> QED
    BY <1>1, <1>2 DEF Step, Inv, Kept, ServiceState, TestState
<1> QED
  BY <1>3, StepKeepsInv DEF ReportProgress, Rest, Inv, RouterOK

LEMMA EvaluateConditionsInv ==
  ASSUME Inv, NEW shown \in SUBSET Conditional, EvaluateConditions(shown) PROVE Inv'
<1>1. Step(tc, tc')
  BY UpdateAllShowLocksStep DEF EvaluateConditions, Inv, Kept
<1> QED
  BY <1>1, StepKeepsInv DEF EvaluateConditions, Rest, Inv, RouterOK

LEMMA ProcessRequestInv ==
  ASSUME Inv, ProcessRequest PROVE Inv'
<1> DEFINE r == Head(requests)
<1>1. r \in Request /\ requests' \in Seq(Request)
  BY DEF ProcessRequest, CarryOut, Inv, RouterOK
<1>2. r.force \in BOOLEAN /\ r.by \in Mover
  BY <1>1 DEF Request
<1>3. tc \in ServiceState /\ page \in Page /\ Shown(tc, page) /\ DialogsOK(dialogs)
  BY DEF Inv, RouterOK, Kept
<1>4. Landed
  <2>1. CASE tc' = LeftUnchecked(tc) /\ page' = "status" /\ redirect' = NoUnit
             /\ dialogs' = Superseded
    BY <1>3, <2>1, LeftUncheckedStep, SupersededType DEF Landed, Lands, Shown, Page, UnitOrNone
  <2>2. ASSUME NEW to \in UnitOrNone, Go(tc, to, r.force) PROVE Landed
    BY <1>2, <1>3, <2>2, GoLands DEF Landed
  <2>3. /\ tc.navigation.next \in UnitOrNone /\ tc.navigation.previous \in UnitOrNone
        /\ tc.navigation.first \in UnitOrNone /\ tc.navigation.last \in UnitOrNone
    BY <1>3 DEF ServiceState, NavigationTargets
  <2> QED
    BY <2>1, <2>2, <2>3 DEF ProcessRequest, CarryOut
<1> QED
  BY <1>1, <1>2, <1>4, LandedKeepsInv DEF ProcessRequest, CarryOut, Rest, Inv, RouterOK

LEMMA TickInv ==
  ASSUME Inv, Tick PROVE Inv'
<1>1. tc.timerId \in Testlet /\ tc.timers[tc.timerId] - 1 \in Int
  BY DEF Tick, Inv, Kept, ServiceState, Times
<1>2. Step(tc, tc')
  BY <1>1, SetTimeLeftStep DEF Tick, Inv, Kept
<1> QED
  BY <1>2, StepKeepsInv DEF Tick, Rest, Inv, RouterOK

LEMMA TimerEndedInv ==
  ASSUME Inv, TimerEnded PROVE Inv'
<1>1. Step(tc, tc')
  BY CloseTimedBlockStep DEF TimerEnded, Inv, Kept
<1>2. requests' \in Seq(Request)
  BY EnqueueType DEF TimerEnded, Inv, RouterOK, Mover, RelativeTarget
<1> QED
  BY <1>1, <1>2, StepKeepsInv DEF TimerEnded, Rest, Inv, RouterOK

LEMMA CommandedType ==
  ASSUME Inv, Commanded
  PROVE  commands' \in 0..MaxCommands
  BY BoundAssumption DEF Commanded, Inv, RouterOK

LEMMA PauseInv ==
  ASSUME Inv, Pause PROVE Inv'
<1>1. Step(tc, InterruptTimer(tc))
  BY InterruptTimerStep DEF Inv, Kept
<1>2. Step(InterruptTimer(tc), SetState(InterruptTimer(tc), "PAUSED"))
  BY <1>1, SetStateStep DEF Step, State
<1>3. Step(tc, tc')
  BY <1>1, <1>2, StepChain DEF Pause
<1>4. requests' \in Seq(Request)
  BY EnqueueType DEF Pause, Inv, RouterOK, Mover
<1> QED
  BY <1>3, <1>4, CommandedType, StepKeepsInv DEF Pause, Rest, Inv, RouterOK

LEMMA ResumeInv ==
  ASSUME Inv, Resume PROVE Inv'
<1> DEFINE s == SetState(tc, "RUNNING")
<1>1. Step(tc, s)
  BY SetStateStep DEF Inv, Kept, State
<1>2. s \in ServiceState /\ Shown(s, page) /\ page \in Page /\ DialogsOK(dialogs)
  BY <1>1 DEF Step, Shown, Inv, RouterOK
<1> HIDE DEF s
<1>3. CASE tc.current # NoUnit /\ GoToUnit(s, tc.current, TRUE)
           /\ movedBy' = "monitor" /\ UNCHANGED requests
  <2>1. tc.current \in Unit
    BY <1>3 DEF Inv, Kept, ServiceState, UnitOrNone
  <2>2. Lands(s) /\ DialogsOK(dialogs')
    BY <1>2, <1>3, <2>1, GoToUnitLands
  <2>3. Landed
    BY <1>1, <2>2, StepChain DEF Lands, Landed
  <2> QED
    BY <1>3, <2>3, CommandedType, LandedKeepsInv DEF Resume, Rest, Inv, RouterOK, Mover
<1>4. CASE tc' = s /\ Enqueue("monitor", "FIRST", TRUE)
           /\ UNCHANGED <<page, redirect, dialogs, movedBy>>
  <2>1. requests' \in Seq(Request)
    BY <1>4, EnqueueType DEF Inv, RouterOK, Mover, RelativeTarget
  <2> QED
    BY <1>1, <1>4, <2>1, CommandedType, StepKeepsInv DEF Resume, Rest, Inv, RouterOK
<1> QED
  BY <1>3, <1>4 DEF Resume, s

LEMMA TerminateCommandInv ==
  ASSUME Inv, NEW lock \in BOOLEAN, TerminateCommand(lock) PROVE Inv'
<1>1. Step(tc, tc')
  BY TerminateStep DEF TerminateCommand, Inv, Kept
<1> QED
  BY <1>1, CommandedType, StepKeepsInv DEF TerminateCommand, Rest, Inv, RouterOK

LEMMA ErrorOutInv ==
  ASSUME Inv, ErrorOut PROVE Inv'
<1>1. Step(tc, tc')
  BY SetStateStep DEF ErrorOut, Inv, Kept, State
<1> QED
  BY <1>1, StepKeepsInv DEF ErrorOut, Rest, Inv, RouterOK

\* A goto takes back the locks of its target, which is reopened from then on.
LEMMA GotoInv ==
  ASSUME Inv, NEW u \in Unit, NEW given \in GivenTime \cup {NotANumber}, Goto(u, given) PROVE Inv'
<1> DEFINE running == SetState(tc, "RUNNING")
           t == ParentOf[u]
           restored == RestoreTime(CancelTimer(running), t, given)
           timed == IF running.current = NoUnit \/ TimerOf(t) # TimerOfUnit(running.current)
                    THEN restored ELSE running
           open == [timed EXCEPT !.afterLeave = @ \ {t}]
           unlocked == UpdateNavigationState(open)
           opened == [unlocked EXCEPT !.lockedUnits = @ \ {u}]
           cleared == ClearCodeLock(opened, t)
           gone == reopened \cup {u}
<1>1. t \in Testlet /\ given \in Int
  BY BookletAssumption, BoundAssumption DEF NotANumber
<1>2. Step(tc, running)
  BY SetStateStep DEF Inv, Kept, State
<1>3. Step(running, timed)
  <2>1. Step(running, CancelTimer(running))
    BY <1>2, CancelTimerStep DEF Step
  <2>2. Step(CancelTimer(running), restored)
    <3> HIDE DEF t
    <3> QED
      BY <1>1, <2>1, RestoreTimeStep DEF Step
  <2>3. Step(running, restored) /\ Step(running, running)
    <3> HIDE DEF restored
    <3> QED
      BY <1>2, <2>1, <2>2, StepChain, StepStays DEF Step
  <2> HIDE DEF restored, running
  <2> QED
    BY <2>3
<1>4. Kept(timed, saved, reopened)
  <2> HIDE DEF timed, running
  <2> QED
    BY <1>2, <1>3, StepKeeps DEF Inv
<1>5. /\ timed \in ServiceState /\ (tc.current # NoUnit => timed.current # NoUnit)
  <2> HIDE DEF timed, running
  <2> QED
    BY <1>2, <1>3 DEF Step
<1> HIDE DEF timed
<1>6. GetNavigationState(open, open.current) \in NavigationTargets
  BY <1>5, GetNavigationStateType DEF ServiceState
<1>7. /\ opened \in ServiceState /\ opened.current = timed.current
      /\ opened.testState = timed.testState
      /\ opened.afterLeave = timed.afterLeave \ {t}
      /\ opened.lockedUnits = timed.lockedUnits \ {u}
  <2>1. unlocked = [open EXCEPT !.navigation = GetNavigationState(open, open.current)]
    BY DEF UpdateNavigationState
  <2>2. open \in ServiceState
    BY <1>5 DEF ServiceState
  <2>3. unlocked \in ServiceState
    <3> HIDE DEF open
    <3> QED
      BY <1>6, <2>1, <2>2 DEF ServiceState
  <2>4. /\ open.current = timed.current /\ open.testState = timed.testState
        /\ open.afterLeave = timed.afterLeave \ {t} /\ open.lockedUnits = timed.lockedUnits
    BY <1>5 DEF ServiceState
  <2>5. /\ unlocked.current = open.current /\ unlocked.testState = open.testState
        /\ unlocked.afterLeave = open.afterLeave /\ unlocked.lockedUnits = open.lockedUnits
    <3> HIDE DEF open
    <3> QED
      BY <2>1, <2>2 DEF ServiceState
  <2> HIDE DEF open, unlocked
  <2> QED
    BY <2>3, <2>4, <2>5 DEF ServiceState
<1> HIDE DEF opened
<1>8. Kept(opened, saved, gone)
  <2>1. {ParentOf[v] : v \in gone} = {ParentOf[v] : v \in reopened} \cup {t}
    OBVIOUS
  <2>2. Held(timed.testState, timed, reopened) /\ Held(saved, timed, reopened)
    BY <1>4 DEF Kept
  <2>3. ASSUME NEW r, Held(r, timed, reopened) PROVE Held(r, opened, gone)
    <3> HIDE DEF t
    <3> QED
      BY <1>7, <2>1, <2>3 DEF Held
  <2> QED
    BY <1>7, <2>2, <2>3 DEF Kept
<1>9. Step(opened, cleared)
  <2> HIDE DEF t
  <2> QED
    BY <1>1, <1>7, ClearCodeLockStep
<1>10. cleared \in ServiceState /\ Shown(cleared, page) /\ page \in Page /\ DialogsOK(dialogs)
  <2> HIDE DEF cleared
  <2> QED
    BY <1>5, <1>7, <1>9 DEF Step, Shown, Inv, RouterOK
<1>11. GoToUnit(cleared, u, TRUE)
  BY DEF Goto, PrepareGoto, timed, opened
<1> HIDE DEF cleared
<1>12. Lands(cleared) /\ DialogsOK(dialogs')
  BY <1>10, <1>11, GoToUnitLands
<1>13. Kept(tc', saved, gone)
  <2> HIDE DEF gone
  <2> QED
    BY <1>8, <1>9, <1>12, StepKeeps DEF Lands
<1>14. Kept(tc, saved, reopened)'
  BY <1>13 DEF Goto, Kept, Held
<1> QED
  BY <1>12, <1>14, CommandedType DEF Goto, Inv, RouterOK, Lands, Mover

LEMMA FinishEndingInv ==
  ASSUME Inv, FinishEnding PROVE Inv'
<1>1. Step(tc, tc')
  BY LeftUncheckedStep DEF FinishEnding, LeaveEnded, Inv, Kept
<1>2. Kept(tc', tc.testState, reopened) /\ Kept(tc', saved, reopened)
  <2>1. Kept(tc, tc.testState, reopened)
    BY DEF Inv, Kept
  <2> QED
    BY <1>1, <2>1, StepKeeps DEF Inv
<1>3. Kept(tc, saved, reopened)'
  BY <1>2 DEF FinishEnding, LeaveEnded, Kept, Held
<1>4. testLocked' \in BOOLEAN
  BY DEF FinishEnding, LeaveEnded, Inv, RouterOK
<1> QED
  BY <1>3, <1>4 DEF FinishEnding, LeaveEnded, Inv, RouterOK, Shown, DialogsOK, Page, UnitOrNone

LEMMA SaveBuffersInv ==
  ASSUME Inv, SaveBuffers PROVE Inv'
<1>1. Kept(tc, tc.testState, reopened)
  BY DEF Inv, Kept
<1>2. Kept(tc, saved, reopened)'
  BY <1>1 DEF SaveBuffers, Kept, Held
<1> QED
  BY <1>2 DEF SaveBuffers, Inv, RouterOK, Shown, DialogsOK

\* What is loaded has all the locks that are stored.
LEMMA LoadInv ==
  ASSUME Inv, NEW shown \in SUBSET Conditional, Load(shown) PROVE Inv'
<1> DEFINE s == RestoreLastState(saved, shown)
           resumed == IF saved.unit = NoUnit THEN 1 ELSE saved.unit
<1>1. saved \in TestState /\ \A t \in saved.lockedTestlets : LockScope[t] = "testlet"
  BY DEF Inv, Kept, Held
<1>2. /\ s \in ServiceState /\ s.testState = saved
      /\ s.afterLeave = RestoredLocks(saved) /\ s.lockedUnits = saved.lockedUnits
  BY <1>1, RestoreLastStateType
<1>3. Kept(s, saved, reopened)
  <2>1. saved.lockedTestlets \subseteq s.afterLeave
    BY <1>1, <1>2 DEF RestoredLocks
  <2>2. Held(saved, s, reopened)
    BY <1>1, <1>2, <2>1 DEF Held
  <2> QED
    BY <1>2, <2>2 DEF Kept
<1> HIDE DEF s
<1>4. ASSUME NEW state \in State PROVE Step(s, SetState(s, state))
  BY <1>2, SetStateStep
<1>5. /\ Step(s, tc') /\ page' \in Page /\ redirect' \in UnitOrNone /\ Shown(tc', page')
      /\ requests' \in Seq(Request)
  <2>1. CASE /\ tc' = SetState(s, "PAUSED") /\ page' = "loading" /\ redirect' = NoUnit
             /\ requests' = <<[by |-> "loader", target |-> "PAUSE", force |-> FALSE]>>
    <3>1. [by |-> "loader", target |-> "PAUSE", force |-> FALSE] \in Request
      BY DEF Request, Mover
    <3> QED
      BY <1>4, <2>1, <3>1 DEF State, Shown, Page, UnitOrNone
  <2>2. CASE Activate(SetState(s, "RUNNING"), resumed, "loading") /\ requests' = <<>>
    <3>1. Step(s, SetState(s, "RUNNING"))
      BY <1>4 DEF State
    <3>2. resumed \in UnitOrNone
      BY <1>1, BookletAssumption DEF TestState, UnitOrNone, Unit
    <3>3. Shown(SetState(s, "RUNNING"), "loading") /\ "loading" \in Page
      BY DEF Shown, Page
    <3>4. SetState(s, "RUNNING") \in ServiceState
      BY <3>1 DEF Step
    <3> HIDE DEF resumed
    <3>5. Lands(SetState(s, "RUNNING"))
      BY <2>2, <3>2, <3>3, <3>4, ActivateLands
    <3> QED
      BY <2>2, <3>1, <3>5, StepChain DEF Lands
  <2> QED
    BY <2>1, <2>2 DEF Load, s
<1>6. Kept(tc', saved, reopened)
  BY <1>3, <1>5, StepKeeps
<1>7. Kept(tc, saved, reopened)'
  BY <1>6 DEF Load, Kept, Held
<1>8. loads' \in 0..MaxLoads
  BY BoundAssumption DEF Load, Inv, RouterOK
<1> QED
  BY <1>5, <1>7, <1>8 DEF Load, Inv, RouterOK, DialogsOK, Mover

----------------------------------------------------------------------------------
LEMMA InitInv == Init => Inv
<1> SUFFICES ASSUME Init PROVE Inv
  OBVIOUS
<1>1. NewTestState \in TestState
  BY DEF NewTestState, TestState, State, UnitOrNone, Times, NotStarted
<1>2. /\ tc \in ServiceState /\ tc.testState = NewTestState
  BY <1>1, RestoreLastStateType DEF Init
<1>3. Held(NewTestState, tc, reopened)
  BY <1>1 DEF Held, NewTestState
<1>4. Kept(tc, saved, reopened)
  BY <1>2, <1>3 DEF Init, Kept
<1>5. RouterOK
  <2>1. requests \in Seq(Request)
    BY DEF Init
  <2>2. commands \in 0..MaxCommands /\ loads \in 0..MaxLoads
    BY BoundAssumption DEF Init
  <2>3. page \in Page /\ redirect \in UnitOrNone /\ movedBy \in Mover /\ reopened \subseteq Unit
    BY DEF Init, Page, UnitOrNone, Mover
  <2> QED
    BY <2>1, <2>2, <2>3 DEF Init, RouterOK
<1>6. Shown(tc, page) /\ DialogsOK(dialogs)
  BY DEF Init, Shown, DialogsOK
<1> QED
  BY <1>4, <1>5, <1>6 DEF Inv

LEMMA NextInv == Inv /\ [Next]_vars => Inv'
<1> SUFFICES ASSUME Inv, [Next]_vars PROVE Inv'
  OBVIOUS
<1>1. CASE UNCHANGED vars
  BY <1>1 DEF vars, Inv, RouterOK, Shown, DialogsOK, Kept, Held
<1>2. CASE Next
  BY <1>2, FollowRedirectInv, SelectUnitInv, RequestNavigationInv, SubmitCodeInv,
     RequestTestEndInv, AnswerInv, ReportProgressInv, EvaluateConditionsInv, LoadInv,
     ProcessRequestInv, TickInv, TimerEndedInv, PauseInv, ResumeInv, TerminateCommandInv,
     GotoInv, ErrorOutInv, FinishEndingInv, SaveBuffersInv DEF Next, Answer
<1> QED
  BY <1>1, <1>2

LEMMA InvHolds == Spec => []Inv
  BY InitInv, NextInv, PTL DEF Spec

\* Every variable of the tab keeps its type: no handler leaves a field of the service, a
\* navigation target or a stored entry that the program could not have.
THEOREM TypeCorrect == Spec => []TypeOK
<1>1. Inv => TypeOK
  BY DEF Inv, RouterOK, DialogsOK, Kept, Held, TypeOK
<1> QED
  BY <1>1, InvHolds, PTL

\* A block or unit locked on leaving stays locked, through reloads, until a goto reopens it.
THEOREM LeaveLocksCorrect == Spec => []LeaveLocksHold
<1>1. Inv => LeaveLocksHold
  BY DEF Inv, Kept, Held, LeaveLocksHold
<1> QED
  BY <1>1, InvHolds, PTL

----------------------------------------------------------------------------------
(* Ending the test, and modes that force nothing *)

\* From s to r the state of the test stays, and where nothing is forced nothing is closed.
Calm(s, r) ==
  /\ r.state = s.state
  /\ ~ForceTimeRestrictions /\ ~ForceNaviRestrictions
       => /\ r.time \subseteq s.time /\ r.afterLeave \subseteq s.afterLeave
          /\ r.lockedUnits \subseteq s.lockedUnits

LEMMA CalmStays == \A s : Calm(s, s)
  BY DEF Calm

LEMMA CalmChain ==
  ASSUME NEW s, NEW r, NEW q, Calm(s, r), Calm(r, q)
  PROVE  Calm(s, q)
  BY DEF Calm

LEMMA CalmMethods ==
  ASSUME NEW s \in ServiceState
  PROVE  /\ Calm(s, LeftUnchecked(s)) /\ Calm(s, CancelTimer(s)) /\ Calm(s, RunUnit(s))
         /\ s.timerId # NoTimer => Calm(s, CloseTimedBlock(s))
         /\ \A u \in Unit : Calm(s, Open(s, u)) /\ Calm(s, LeaveLock(s, u))
         /\ \A t \in Testlet : Calm(s, ClearCodeLock(s, t))
         /\ \A t \in Testlet, left \in Int : Calm(s, SetTimeLeft(s, t, left))
         /\ \A shown \in SUBSET Conditional : Calm(s, UpdateAllShowLocks(s, shown))
<1>1. Calm(s, LeftUnchecked(s))
  BY InterruptTimerFacts DEF LeftUnchecked, Calm, SameUnit, SameLocks
<1>2. Calm(s, CancelTimer(s)) /\ (s.timerId # NoTimer => Calm(s, CloseTimedBlock(s)))
  BY CancelTimerFacts, CloseTimedBlockFacts DEF Calm, SameUnit
<1>3. Calm(s, RunUnit(s))
  BY RunUnitFacts DEF Calm, SameUnit, SameLocks
<1>4. ASSUME NEW u \in Unit PROVE Calm(s, Open(s, u)) /\ Calm(s, LeaveLock(s, u))
  BY OpenFacts, LeaveLockFacts DEF Calm, SameUnit, SameLocks
<1>5. ASSUME NEW t \in Testlet PROVE Calm(s, ClearCodeLock(s, t))
  BY ClearCodeLockFacts DEF Calm, SameUnit
<1>6. ASSUME NEW t \in Testlet, NEW left \in Int PROVE Calm(s, SetTimeLeft(s, t, left))
  BY SetTimeLeftFacts DEF Calm, SameUnit, SameLocks
<1>7. ASSUME NEW shown \in SUBSET Conditional PROVE Calm(s, UpdateAllShowLocks(s, shown))
  BY UpdateAllShowLocksFacts DEF Calm, SameUnit
<1> QED
  BY <1>1, <1>2, <1>3, <1>4, <1>5, <1>6, <1>7

LEMMA CalmSolve ==
  ASSUME NEW s \in ServiceState, NEW to \in UnitOrNone
  PROVE  /\ Calm(s, SolveTimer(s, to))
         /\ s.current # NoUnit => Calm(s, SolveLeave(s, to))
<1> DEFINE r == SolveTimer(s, to)
<1>1. r \in ServiceState
  BY SolveTimerStep DEF Step
<1>2. Calm(s, r)
  BY SolveTimerFacts DEF Calm, SameUnit
<1>3. s.current # NoUnit => s.current \in Unit
  BY DEF ServiceState, UnitOrNone
<1>4. SolveLeave(s, to) = IF LeavesLockedArea(s, to) THEN LeaveLock(r, s.current) ELSE r
  BY DEF SolveLeave
<1> HIDE DEF r
<1>5. s.current # NoUnit => Calm(r, LeaveLock(r, s.current))
  BY <1>1, <1>3, CalmMethods
<1>6. s.current # NoUnit => Calm(s, SolveLeave(s, to))
  BY <1>2, <1>4, <1>5, CalmChain
<1> QED
  BY <1>2, <1>6 DEF r

\* Where a navigation may lead: it leaves the page only for a unit, and when it may.
Wanders(s) ==
  /\ Calm(s, tc')
  /\ page' = page \/ (page' = "unit" /\ ~ActivationBlocked(s))

LEMMA ActivateWanders ==
  ASSUME NEW s \in ServiceState, NEW to \in UnitOrNone, Activate(s, to, page)
  PROVE  Wanders(s)
<1>1. to # NoUnit => to \in Unit
  BY DEF UnitOrNone
<1> QED
  BY <1>1, CalmStays, CalmMethods DEF Activate, Wanders

\* A dialog that is answered by leaving the test ends it, where answers count.
ExitsEnd(D) == SaveResponses => \A d \in D : d.exit => d.endsTest

LEMMA SupersededExits ==
  ASSUME DialogsOK(dialogs), ExitsEnd(dialogs)
  PROVE  ExitsEnd(Superseded)
<1> SUFFICES ASSUME SaveResponses, NEW d \in dialogs
             PROVE  [d EXCEPT !.live = FALSE].exit => [d EXCEPT !.live = FALSE].endsTest
  BY DEF ExitsEnd, Superseded
<1>1. d \in Dialog /\ (d.exit => d.endsTest)
  BY DEF DialogsOK, ExitsEnd
<1> QED
  BY <1>1 DEF Dialog

LEMMA AskWanders ==
  ASSUME NEW s \in ServiceState, NEW to \in UnitOrNone, NEW exit \in BOOLEAN,
         DialogsOK(dialogs), ExitsEnd(dialogs), Ask(s, to, exit),
         exit /\ SaveResponses => IsTestOngoing(s)
  PROVE  Wanders(s) /\ ExitsEnd(dialogs') /\ UNCHANGED page
<1> DEFINE endsTest == exit /\ SaveResponses /\ IsTestOngoing(s)
           dialog(asks) == [asks |-> asks, unit |-> s.current, to |-> to, exit |-> exit,
                            endsTest |-> endsTest, live |-> TRUE]
<1>1. \A asks : SaveResponses => (dialog(asks).exit => dialog(asks).endsTest)
  BY Zenon
<1>2. \/ Stay(s) /\ dialogs' = Superseded \cup {dialog("timer")}
      \/ Stay(SolveTimer(s, to)) /\ dialogs' = Superseded \cup {dialog("lock")}
  BY DEF Ask
<1> HIDE DEF dialog
<1>3. ExitsEnd(dialogs')
  BY <1>1, <1>2, SupersededExits DEF ExitsEnd
<1> QED
  BY <1>2, <1>3, CalmStays, CalmSolve DEF Stay, Wanders

LEMMA GoWanders ==
  ASSUME NEW s \in ServiceState, NEW to \in UnitOrNone, NEW force \in BOOLEAN,
         DialogsOK(dialogs), ExitsEnd(dialogs), Go(s, to, force)
  PROVE  Wanders(s) /\ ExitsEnd(dialogs')
<1>1. CASE Stay(s) /\ dialogs' = Superseded
  BY <1>1, SupersededExits, CalmStays DEF Stay, Wanders
<1>2. CASE Activate(LeftUnchecked(s), to, page) /\ dialogs' = Superseded
  <2>1. Calm(s, LeftUnchecked(s)) /\ LeftUnchecked(s) \in ServiceState
    BY CalmMethods, LeftUncheckedStep DEF Step
  <2>2. Wanders(LeftUnchecked(s))
    BY <1>2, <2>1, ActivateWanders
  <2> QED
    BY <1>2, <2>1, <2>2, SupersededExits, CalmChain DEF Wanders, Calm, ActivationBlocked
<1>3. CASE Ask(s, to, FALSE)
  BY <1>3, AskWanders
<1>4. CASE Checked(s, force) /\ Activate(SolveLeave(s, to), to, page) /\ dialogs' = Superseded
  <2>1. Calm(s, SolveLeave(s, to)) /\ SolveLeave(s, to) \in ServiceState
    BY <1>4, CalmSolve, SolveLeaveStep DEF Step, Checked, FreeToLeave
  <2>2. Wanders(SolveLeave(s, to))
    BY <1>4, <2>1, ActivateWanders
  <2> QED
    BY <1>4, <2>1, <2>2, SupersededExits, CalmChain DEF Wanders, Calm, ActivationBlocked
<1> QED
  BY <1>1, <1>2, <1>3, <1>4 DEF Go

LEMMA GoToUnitWanders ==
  ASSUME NEW s \in ServiceState, NEW u \in Unit, NEW force \in BOOLEAN,
         DialogsOK(dialogs), ExitsEnd(dialogs), GoToUnit(s, u, force)
  PROVE  Wanders(s) /\ ExitsEnd(dialogs')
<1>1. CASE Stay(Open(s, u)) /\ dialogs' = Superseded
  BY <1>1, CalmMethods, SupersededExits DEF Stay, Wanders
<1>2. CASE Go(s, u, force)
  BY <1>2, GoWanders DEF UnitOrNone
<1> QED
  BY <1>1, <1>2 DEF GoToUnit

Ended == {"TERMINATED", "TERMINATED_PAUSED"}

\* A test that is being ended is terminated; one on screen that is not is going on, and one
\* that was left is over and stored, with nothing pending that could bring it back.
EndsProperly ==
  /\ ending # "no" => tc.state \in Ended \cup {"ERROR"}
  /\ ExitsEnd(dialogs)
  /\ SaveResponses =>
       /\ page # "starter" /\ ending = "no" => tc.state \in {"RUNNING", "PAUSED", "ERROR"}
       /\ page = "starter" /\ loads > 0 /\ tc.state # "ERROR"
            => /\ tc.state \in Ended /\ saved = tc.testState
               /\ ending = "no" /\ redirect = NoUnit /\ requests = <<>>
       /\ loads = 0 => /\ page = "starter" /\ tc.state = "INIT"
                       /\ ending = "no" /\ redirect = NoUnit /\ requests = <<>>

\* Nothing is closed or stored where the mode forces and stores nothing.
ClosesNothing ==
  ~ForceTimeRestrictions /\ ~ForceNaviRestrictions =>
    (tc.time = {} /\ tc.afterLeave = {} /\ tc.lockedUnits = {}) \/ SaveResponses
StoresNothing == SaveResponses \/ saved = NewTestState

Orderly == EndsProperly /\ ClosesNothing /\ StoresNothing

\* What happens while the test is on screen, or after an error, without ending it.
LEMMA WalkKeepsOrder ==
  ASSUME Inv, Orderly, Calm(tc, tc'), UNCHANGED <<saved, loads, ending>>, ExitsEnd(dialogs'),
         page' # "starter" \/ page' = page,
         page # "starter" \/ redirect # NoUnit \/ requests # <<>>
  PROVE  Orderly'
<1>1. SaveResponses /\ page = "starter" => tc.state = "ERROR" /\ loads > 0
  <2>1. loads \in Nat
    BY BoundAssumption DEF Inv, RouterOK
  <2> QED
    BY <2>1 DEF Orderly, EndsProperly
<1>2. EndsProperly'
  BY <1>1 DEF Orderly, EndsProperly, Calm, ExitsEnd
<1>3. ClosesNothing' /\ StoresNothing'
  BY DEF Orderly, ClosesNothing, StoresNothing, Calm
<1> QED
  BY <1>2, <1>3 DEF Orderly

LEMMA PrepareGotoCalm ==
  ASSUME NEW s \in ServiceState, NEW u \in Unit, NEW given \in GivenTime \cup {NotANumber}
  PROVE  LET r == PrepareGoto(s, u, given) IN
         r \in ServiceState /\ Calm(s, r)
<1> DEFINE t == ParentOf[u]
           restored == RestoreTime(CancelTimer(s), t, given)
           timed == IF s.current = NoUnit \/ TimerOf(t) # TimerOfUnit(s.current)
                    THEN restored ELSE s
           unlocked == UpdateNavigationState([timed EXCEPT !.afterLeave = @ \ {t}])
           opened == [unlocked EXCEPT !.lockedUnits = @ \ {u}]
<1>1. t \in Testlet /\ given \in Int
  BY BookletAssumption, BoundAssumption DEF NotANumber
<1>2. PrepareGoto(s, u, given) = ClearCodeLock(opened, t)
  BY DEF PrepareGoto
<1> HIDE DEF t
<1>3. restored \in ServiceState /\ Calm(s, restored)
  <2>1. CancelTimer(s) \in ServiceState /\ Calm(s, CancelTimer(s))
    BY CancelTimerStep, CalmMethods DEF Step
  <2> HIDE DEF restored
  <2>2. restored \in ServiceState /\ Calm(CancelTimer(s), restored)
    BY <1>1, <2>1, RestoreTimeStep, RestoreTimeFacts DEF Step, restored, Calm, SameUnit
  <2> QED
    BY <2>1, <2>2, CalmChain
<1> HIDE DEF restored
<1>4. timed \in ServiceState /\ Calm(s, timed)
  BY <1>3, CalmStays
<1> HIDE DEF timed
<1>5. /\ opened \in ServiceState /\ opened.state = timed.state /\ opened.time = timed.time
      /\ opened.afterLeave \subseteq timed.afterLeave /\ opened.lockedUnits \subseteq timed.lockedUnits
  <2> DEFINE open == [timed EXCEPT !.afterLeave = @ \ {t}]
  <2>1. /\ open \in ServiceState /\ open.state = timed.state /\ open.time = timed.time
        /\ open.afterLeave \subseteq timed.afterLeave /\ open.lockedUnits = timed.lockedUnits
    BY <1>4 DEF ServiceState
  <2> HIDE DEF open
  <2>2. /\ unlocked \in ServiceState /\ unlocked.state = open.state /\ unlocked.time = open.time
        /\ unlocked.afterLeave = open.afterLeave /\ unlocked.lockedUnits = open.lockedUnits
    BY <2>1, UpdateNavigationStateStep, UpdateNavigationStateFacts
       DEF Step, SameUnit, SameLocks, open
  <2> HIDE DEF unlocked
  <2> QED
    BY <2>1, <2>2 DEF ServiceState
<1> HIDE DEF opened
<1>6. Calm(timed, opened)
  BY <1>5 DEF Calm
<1>7. ClearCodeLock(opened, t) \in ServiceState /\ Calm(opened, ClearCodeLock(opened, t))
  BY <1>1, <1>5, ClearCodeLockStep, CalmMethods DEF Step
<1> QED
  BY <1>2, <1>4, <1>6, <1>7, CalmChain

LEMMA CommandKeepsOrder ==
  ASSUME Inv, Orderly, Commanded, tc'.state \in {"RUNNING", "PAUSED"},
         NEW s, Calm(s, tc'), s.time = tc.time, s.afterLeave = tc.afterLeave,
         s.lockedUnits = tc.lockedUnits,
         UNCHANGED <<saved, loads, ending>>, ExitsEnd(dialogs'),
         page' = page \/ page' = "unit"
  PROVE  Orderly'
<1>1. page' # "starter" /\ ending = "no" /\ (SaveResponses => loads # 0)
  BY DEF Commanded, IsTestOngoing, Orderly, EndsProperly, Ended
<1>2. EndsProperly'
  BY <1>1 DEF Orderly, EndsProperly, ExitsEnd
<1>3. ClosesNothing' /\ StoresNothing'
  BY DEF Orderly, ClosesNothing, StoresNothing, Calm
<1> QED
  BY <1>2, <1>3 DEF Orderly

LEMMA FollowRedirectOrder ==
  ASSUME Inv, Orderly, FollowRedirect PROVE Orderly'
<1>1. Wanders(tc) /\ ExitsEnd(dialogs')
  BY GoWanders DEF FollowRedirect, Inv, RouterOK, Kept, Orderly, EndsProperly
<1> QED
  BY <1>1, WalkKeepsOrder DEF FollowRedirect, Wanders, outside

LEMMA SelectUnitOrder ==
  ASSUME Inv, Orderly, NEW u \in Unit, SelectUnit(u) PROVE Orderly'
<1>1. Wanders(tc) /\ ExitsEnd(dialogs')
  BY GoToUnitWanders DEF SelectUnit, Inv, RouterOK, Kept, Orderly, EndsProperly
<1> QED
  BY <1>1, WalkKeepsOrder DEF SelectUnit, Active, Wanders, outside

\* Actions that leave the router alone and the state of the test as it is.
LEMMA InPlaceKeepsOrder ==
  ASSUME Inv, Orderly, Calm(tc, tc'), page # "starter",
         UNCHANGED <<page, dialogs, ending, outside>>
  PROVE  Orderly'
<1>1. ExitsEnd(dialogs')
  BY DEF Orderly, EndsProperly
<1> QED
  BY <1>1, WalkKeepsOrder DEF outside

LEMMA SubmitCodeOrder ==
  ASSUME Inv, Orderly, SubmitCode PROVE Orderly'
<1> DEFINE t == LockedThrough(tc, tc.current)
           s == ClearCodeLock(tc, t)
<1>1. t \in Testlet
  BY LockedThroughType DEF SubmitCode, LockedByCode, Inv, Kept, ServiceState, UnitOrNone
<1>2. tc' = RunUnit(s) /\ tc \in ServiceState
  BY DEF SubmitCode, Inv, Kept
<1>3. s \in ServiceState /\ Calm(tc, s)
  <2> HIDE DEF t
  <2> QED
    BY <1>1, <1>2, ClearCodeLockStep, CalmMethods DEF Step
<1> HIDE DEF s
<1>4. Calm(tc, tc')
  BY <1>2, <1>3, CalmMethods, CalmChain
<1> QED
  BY <1>4, InPlaceKeepsOrder DEF SubmitCode, Active

LEMMA ReportProgressOrder ==
  ASSUME Inv, Orderly, NEW done \in BOOLEAN, ReportProgress(done) PROVE Orderly'
<1> DEFINE complete == IF done THEN tc.complete \cup {tc.current} ELSE tc.complete \ {tc.current}
<1>1. tc' = [tc EXCEPT !.complete = complete, !.testState.complete = complete]
  BY DEF ReportProgress
<1>2. Calm(tc, tc')
  <2> HIDE DEF complete
  <2> QED
    BY <1>1 DEF Inv, Kept, ServiceState, Calm
<1> QED
  BY <1>2, InPlaceKeepsOrder DEF ReportProgress

LEMMA EvaluateConditionsOrder ==
  ASSUME Inv, Orderly, NEW shown \in SUBSET Conditional, EvaluateConditions(shown) PROVE Orderly'
  BY CalmMethods, InPlaceKeepsOrder DEF EvaluateConditions, Inv, Kept

LEMMA TickOrder ==
  ASSUME Inv, Orderly, Tick PROVE Orderly'
<1>1. tc.timerId \in Testlet /\ tc.timers[tc.timerId] - 1 \in Int /\ tc \in ServiceState
  BY DEF Tick, Inv, Kept, ServiceState, Times
<1>2. Calm(tc, tc')
  BY <1>1, CalmMethods DEF Tick
<1> QED
  BY <1>2, InPlaceKeepsOrder DEF Tick

LEMMA TimerEndedOrder ==
  ASSUME Inv, Orderly, TimerEnded PROVE Orderly'
  BY CalmMethods, InPlaceKeepsOrder DEF TimerEnded, Inv, Kept

LEMMA RequestNavigationOrder ==
  ASSUME Inv, Orderly, NEW target \in RelativeTarget, RequestNavigation(target) PROVE Orderly'
  BY CalmStays, InPlaceKeepsOrder DEF RequestNavigation, Active

LEMMA ProcessRequestOrder ==
  ASSUME Inv, Orderly, ProcessRequest PROVE Orderly'
<1> DEFINE r == Head(requests)
<1>1. r \in Request /\ r.force \in BOOLEAN
  <2>1. r \in Request
    BY DEF ProcessRequest, Inv, RouterOK
  <2> QED
    BY <2>1 DEF Request
<1>2. tc \in ServiceState /\ DialogsOK(dialogs) /\ ExitsEnd(dialogs)
  BY DEF Inv, Kept, Orderly, EndsProperly
<1>3. CASE tc' = LeftUnchecked(tc) /\ page' = "status" /\ dialogs' = Superseded
  <2>1. Calm(tc, tc') /\ ExitsEnd(dialogs')
    BY <1>2, <1>3, CalmMethods, SupersededExits
  <2> QED
    BY <1>3, <2>1, WalkKeepsOrder DEF ProcessRequest, CarryOut, outside
<1>4. ASSUME NEW to \in UnitOrNone, Go(tc, to, r.force) PROVE Orderly'
  <2>1. Wanders(tc) /\ ExitsEnd(dialogs')
    BY <1>1, <1>2, <1>4, GoWanders
  <2> QED
    BY <2>1, WalkKeepsOrder DEF ProcessRequest, CarryOut, outside, Wanders
<1>5. /\ tc.navigation.next \in UnitOrNone /\ tc.navigation.previous \in UnitOrNone
      /\ tc.navigation.first \in UnitOrNone /\ tc.navigation.last \in UnitOrNone
  BY <1>2 DEF ServiceState, NavigationTargets
<1> QED
  BY <1>3, <1>4, <1>5 DEF ProcessRequest, CarryOut

\* Setting the state closes nothing.
LEMMA SetStateCloses ==
  ASSUME NEW s \in ServiceState, NEW state \in State
  PROVE  LET r == SetState(s, state) IN
         /\ r \in ServiceState /\ r.state = state
         /\ r.time = s.time /\ r.afterLeave = s.afterLeave /\ r.lockedUnits = s.lockedUnits
  BY SetStateStep, SetStateFacts DEF Step, SameLocks

LEMMA PauseOrder ==
  ASSUME Inv, Orderly, Pause PROVE Orderly'
<1> DEFINE s == InterruptTimer(tc)
<1>1. s \in ServiceState /\ s.time = tc.time /\ s.afterLeave = tc.afterLeave
      /\ s.lockedUnits = tc.lockedUnits
  BY InterruptTimerStep, InterruptTimerFacts DEF Step, SameLocks, Inv, Kept
<1>2. tc' = SetState(s, "PAUSED")
  BY DEF Pause
<1> HIDE DEF s
<1>3. tc'.state = "PAUSED" /\ tc'.time = s.time /\ tc'.afterLeave = s.afterLeave
      /\ tc'.lockedUnits = s.lockedUnits
  BY <1>1, <1>2, SetStateCloses DEF State
<1>4. ExitsEnd(dialogs')
  BY DEF Pause, Orderly, EndsProperly
<1> QED
  BY <1>1, <1>3, <1>4, CommandKeepsOrder, CalmStays DEF Pause, outside

LEMMA ResumeOrder ==
  ASSUME Inv, Orderly, Resume PROVE Orderly'
<1> DEFINE s == SetState(tc, "RUNNING")
<1>1. s \in ServiceState /\ s.state = "RUNNING" /\ s.time = tc.time
      /\ s.afterLeave = tc.afterLeave /\ s.lockedUnits = tc.lockedUnits
  BY SetStateCloses DEF Inv, Kept, State
<1>2. DialogsOK(dialogs) /\ ExitsEnd(dialogs)
  BY DEF Inv, Orderly, EndsProperly
<1> HIDE DEF s
<1>3. CASE tc.current # NoUnit /\ GoToUnit(s, tc.current, TRUE)
  <2>1. tc.current \in Unit
    BY <1>3 DEF Inv, Kept, ServiceState, UnitOrNone
  <2>2. Wanders(s) /\ ExitsEnd(dialogs')
    BY <1>1, <1>2, <1>3, <2>1, GoToUnitWanders
  <2>3. tc'.state = "RUNNING" /\ Calm(s, tc')
    BY <1>1, <2>2 DEF Wanders, Calm
  <2> QED
    BY <1>1, <2>2, <2>3, CommandKeepsOrder DEF Resume, Wanders, outside
<1>4. CASE tc' = s /\ UNCHANGED <<page, dialogs>>
  BY <1>1, <1>2, <1>4, CommandKeepsOrder, CalmStays DEF Resume, outside
<1> QED
  BY <1>3, <1>4 DEF Resume, s

\* A goto takes time and unit locks back; what it closes belongs to a running timer.
LEMMA GotoOrder ==
  ASSUME Inv, Orderly, NEW u \in Unit, NEW given \in GivenTime \cup {NotANumber}, Goto(u, given)
  PROVE  Orderly'
<1> DEFINE running == SetState(tc, "RUNNING")
           prepared == PrepareGoto(running, u, given)
<1>1. running \in ServiceState /\ running.state = "RUNNING" /\ running.time = tc.time
      /\ running.afterLeave = tc.afterLeave /\ running.lockedUnits = tc.lockedUnits
  BY SetStateCloses DEF Inv, Kept, State
<1> HIDE DEF running
<1>2. prepared \in ServiceState /\ Calm(running, prepared)
  <2> HIDE DEF prepared
  <2> QED
    BY <1>1, PrepareGotoCalm DEF prepared
<1>3. GoToUnit(prepared, u, TRUE)
  BY DEF Goto, running
<1> HIDE DEF prepared
<1>4. Wanders(prepared) /\ ExitsEnd(dialogs')
  BY <1>2, <1>3, GoToUnitWanders DEF Inv, Orderly, EndsProperly
<1>5. Calm(running, tc') /\ tc'.state = "RUNNING"
  BY <1>1, <1>2, <1>4, CalmChain DEF Wanders, Calm
<1> QED
  BY <1>1, <1>4, <1>5, CommandKeepsOrder DEF Goto, Wanders

LEMMA TerminateCommandOrder ==
  ASSUME Inv, Orderly, NEW lock \in BOOLEAN, TerminateCommand(lock) PROVE Orderly'
<1>1. /\ tc'.state \in Ended /\ tc'.time = tc.time /\ tc'.afterLeave = tc.afterLeave
      /\ tc'.lockedUnits = tc.lockedUnits
  BY TerminateFacts DEF TerminateCommand, Inv, Kept, SameLocks, Ended
<1>2. page' # "starter" /\ ending' # "no" /\ (SaveResponses => loads # 0)
  BY DEF TerminateCommand, Commanded, IsTestOngoing, Orderly, EndsProperly
<1>3. EndsProperly'
  BY <1>1, <1>2 DEF TerminateCommand, outside, Orderly, EndsProperly, ExitsEnd
<1>4. ClosesNothing' /\ StoresNothing'
  BY <1>1 DEF TerminateCommand, outside, Orderly, ClosesNothing, StoresNothing
<1> QED
  BY <1>3, <1>4 DEF Orderly

LEMMA ErrorOutOrder ==
  ASSUME Inv, Orderly, ErrorOut PROVE Orderly'
<1>1. /\ tc'.state = "ERROR" /\ tc'.time = tc.time /\ tc'.afterLeave = tc.afterLeave
      /\ tc'.lockedUnits = tc.lockedUnits
  BY SetStateCloses DEF ErrorOut, Inv, Kept, State
<1>2. page' = "unit" /\ (SaveResponses => loads # 0)
  BY DEF ErrorOut, Orderly, EndsProperly
<1>3. EndsProperly'
  BY <1>1, <1>2 DEF ErrorOut, outside, Orderly, EndsProperly, ExitsEnd
<1>4. ClosesNothing' /\ StoresNothing'
  BY <1>1 DEF ErrorOut, outside, Orderly, ClosesNothing, StoresNothing
<1> QED
  BY <1>3, <1>4 DEF Orderly

\* Ending the test from a state the tab's one turns into while it stays on screen.
LEMMA BeginEndingOrder ==
  ASSUME Inv, Orderly, page # "starter", NEW s \in ServiceState, Calm(tc, s), BeginEnding(s),
         ExitsEnd(dialogs'), UNCHANGED <<saved, loads>>
  PROVE  Orderly'
<1>1. /\ tc' = Terminate(s) /\ page' = page
      /\ tc'.state \in Ended /\ tc'.time = s.time /\ tc'.afterLeave = s.afterLeave
      /\ tc'.lockedUnits = s.lockedUnits
  BY TerminateFacts DEF BeginEnding, Stay, SameLocks, Ended
<1>2. SaveResponses => ending' # "no" /\ loads # 0
  BY DEF BeginEnding, Calm, Orderly, EndsProperly
<1>3. EndsProperly'
  BY <1>1, <1>2 DEF Orderly, EndsProperly, ExitsEnd
<1>4. ClosesNothing' /\ StoresNothing'
  BY <1>1 DEF Orderly, ClosesNothing, StoresNothing, Calm
<1> QED
  BY <1>3, <1>4 DEF Orderly

LEMMA ConfirmEndOrder ==
  ASSUME Inv, Orderly, page # "starter", NEW s \in ServiceState, Calm(tc, s), NEW open,
         ExitsEnd(open), ConfirmEnd(s, open), UNCHANGED <<saved, loads>>,
         SaveResponses => ending = "no"
  PROVE  Orderly'
<1> DEFINE end == [asks |-> "end", unit |-> s.current, to |-> NoUnit,
                   exit |-> TRUE, endsTest |-> TRUE, live |-> TRUE]
<1>1. CASE (~SaveResponses \/ ~IsTestOngoing(s)) /\ tc' = s /\ page' = "starter"
           /\ dialogs' = open /\ ending' = ending
  <2>1. SaveResponses => tc'.state = "ERROR" /\ loads # 0
    BY <1>1 DEF Orderly, EndsProperly, Calm, IsTestOngoing
  <2>2. EndsProperly'
    BY <1>1, <2>1 DEF Orderly, EndsProperly, ExitsEnd, Calm
  <2>3. ClosesNothing' /\ StoresNothing'
    BY <1>1 DEF Orderly, ClosesNothing, StoresNothing, Calm
  <2> QED
    BY <2>2, <2>3 DEF Orderly
<1>2. CASE BeginEnding(s) /\ dialogs' = open
  BY <1>2, BeginEndingOrder
<1>3. CASE Stay(s) /\ ending' = ending /\ dialogs' = open \cup {end}
  <2>1. end.endsTest
    BY Zenon
  <2> HIDE DEF end
  <2>2. ExitsEnd(dialogs')
    BY <1>3, <2>1 DEF ExitsEnd
  <2> QED
    BY <1>3, <2>2, WalkKeepsOrder DEF Stay
<1> QED
  BY <1>1, <1>2, <1>3 DEF ConfirmEnd

LEMMA RequestTestEndOrder ==
  ASSUME Inv, Orderly, RequestTestEnd PROVE Orderly'
<1>1. tc \in ServiceState /\ DialogsOK(dialogs) /\ ExitsEnd(dialogs) /\ ExitsEnd({})
      /\ NoUnit \in UnitOrNone
  BY DEF Inv, Kept, Orderly, EndsProperly, ExitsEnd, UnitOrNone
<1>2. page # "starter" /\ ending = "no" /\ UNCHANGED <<saved, loads>>
  BY DEF RequestTestEnd, outside
<1>3. CASE ConfirmEnd(tc, {})
  BY <1>1, <1>2, <1>3, CalmStays, ConfirmEndOrder
<1>4. CASE Stay(tc) /\ UNCHANGED <<dialogs, ending>>
  BY <1>1, <1>2, <1>4, CalmStays, WalkKeepsOrder DEF Stay
<1>5. CASE Checked(tc, FALSE) /\ Ask(tc, NoUnit, TRUE) /\ UNCHANGED ending
  <2>1. SaveResponses => IsTestOngoing(tc)
    BY <1>2, <1>5 DEF Orderly, EndsProperly, Checked, FreeToLeave, IsTestOngoing
  <2>2. Wanders(tc) /\ ExitsEnd(dialogs') /\ UNCHANGED page
    BY <1>1, <1>5, <2>1, AskWanders
  <2> QED
    BY <1>2, <1>5, <2>2, WalkKeepsOrder DEF Wanders
<1>6. CASE Checked(tc, FALSE) /\ ConfirmEnd(SolveLeave(tc, NoUnit), {})
  <2>1. SolveLeave(tc, NoUnit) \in ServiceState /\ Calm(tc, SolveLeave(tc, NoUnit))
    BY <1>1, <1>6, SolveLeaveStep, CalmSolve DEF Step, Checked, FreeToLeave
  <2> QED
    BY <1>1, <1>2, <1>6, <2>1, ConfirmEndOrder
<1> QED
  BY <1>3, <1>4, <1>5, <1>6 DEF RequestTestEnd

LEMMA AnswerOrder ==
  ASSUME Inv, Orderly, page # "starter", NEW d \in dialogs, AnswerStay(d) \/ AnswerLeave(d)
  PROVE  Orderly'
<1>1. tc \in ServiceState /\ ExitsEnd(dialogs \ {d}) /\ d \in Dialog
  BY DEF Inv, DialogsOK, Kept, Orderly, EndsProperly, ExitsEnd
<1>2. CASE AnswerStay(d)
  BY <1>1, <1>2, CalmStays, WalkKeepsOrder DEF AnswerStay, outside
<1>3. CASE AnswerLeave(d)
  <2> DEFINE s == OnConfirmed(d)
  <2>1. d.to \in UnitOrNone /\ (d.asks = "lock" => d.unit \in Unit)
    BY DEF Inv, DialogsOK, Dialog, UnitOrNone
  <2>2. s \in ServiceState /\ Calm(tc, s)
    BY <1>1, <2>1, CancelTimerStep, LeaveLockStep, CalmStays, CalmMethods DEF Step, OnConfirmed
  <2>3. UNCHANGED <<saved, loads>>
    BY <1>3 DEF AnswerLeave, outside
  <2> HIDE DEF s
  <2>4. CASE BeginEnding(s) /\ dialogs' = dialogs \ {d}
    BY <1>1, <2>2, <2>3, <2>4, BeginEndingOrder
  <2>5. CASE ~d.endsTest /\ d.exit /\ ConfirmEnd(s, dialogs \ {d})
    <3>1. ~SaveResponses
      BY <2>5 DEF Orderly, EndsProperly, ExitsEnd
    <3> QED
      BY <1>1, <2>2, <2>3, <2>5, <3>1, ConfirmEndOrder
  <2>6. CASE Activate(s, d.to, page) /\ dialogs' = dialogs \ {d} /\ ending' = ending
    <3>1. Wanders(s)
      BY <2>1, <2>2, <2>6, ActivateWanders
    <3> QED
      BY <1>1, <2>2, <2>3, <2>6, <3>1, CalmChain, WalkKeepsOrder DEF Wanders
  <2>7. CASE Stay(s) /\ dialogs' = dialogs \ {d} /\ ending' = ending
    BY <1>1, <2>2, <2>3, <2>7, WalkKeepsOrder DEF Stay
  <2> QED
    BY <1>3, <2>4, <2>5, <2>6, <2>7 DEF AnswerLeave, s
<1> QED
  BY <1>2, <1>3

\* When everything is saved the tab is left, with nothing pending.
LEMMA FinishEndingOrder ==
  ASSUME Inv, Orderly, FinishEnding PROVE Orderly'
<1>1. /\ tc'.state = tc.state /\ tc'.testState = tc.testState /\ tc'.time = tc.time
      /\ tc'.afterLeave = tc.afterLeave /\ tc'.lockedUnits = tc.lockedUnits
  BY InterruptTimerFacts
     DEF FinishEnding, LeaveEnded, LeftUnchecked, SameUnit, SameLocks, Inv, Kept
<1>2. tc.state \in Ended \cup {"ERROR"} /\ (SaveResponses => loads # 0)
  BY DEF FinishEnding, Orderly, EndsProperly
<1>3. EndsProperly'
  BY <1>1, <1>2 DEF FinishEnding, LeaveEnded, Orderly, EndsProperly, ExitsEnd
<1>4. ClosesNothing' /\ StoresNothing'
  BY <1>1 DEF FinishEnding, LeaveEnded, Orderly, ClosesNothing, StoresNothing
<1> QED
  BY <1>3, <1>4 DEF Orderly

LEMMA SaveBuffersOrder ==
  ASSUME Inv, Orderly, SaveBuffers PROVE Orderly'
<1>1. EndsProperly'
  BY DEF SaveBuffers, Orderly, EndsProperly, ExitsEnd
<1>2. ClosesNothing' /\ StoresNothing'
  BY DEF SaveBuffers, Orderly, ClosesNothing, StoresNothing
<1> QED
  BY <1>1, <1>2 DEF Orderly

\* A loaded test runs or is paused, with the locks that were stored and no others.
LEMMA LoadOrder ==
  ASSUME Inv, Orderly, NEW shown \in SUBSET Conditional, Load(shown) PROVE Orderly'
<1> DEFINE s == RestoreLastState(saved, shown)
           resumed == IF saved.unit = NoUnit THEN 1 ELSE saved.unit
<1>1. saved \in TestState
  BY DEF Inv, Kept, Held
<1>2. s \in ServiceState /\ resumed \in UnitOrNone
  BY <1>1, RestoreLastStateType, BookletAssumption DEF TestState, UnitOrNone, Unit
<1>3. saved = NewTestState => s.time = {} /\ s.afterLeave = {} /\ s.lockedUnits = {}
  BY DEF RestoreLastState, UpdateNavigationState, RestoredLocks, NewTestState, NotStarted
<1> HIDE DEF s, resumed
<1>4. ASSUME NEW state \in State
      PROVE  /\ SetState(s, state) \in ServiceState /\ SetState(s, state).state = state
             /\ SetState(s, state).time = s.time /\ SetState(s, state).afterLeave = s.afterLeave
             /\ SetState(s, state).lockedUnits = s.lockedUnits
  BY <1>2, SetStateCloses
<1>5. /\ tc'.state \in {"RUNNING", "PAUSED"} /\ page' # "starter"
      /\ saved = NewTestState /\ ~ForceTimeRestrictions /\ ~ForceNaviRestrictions
           => tc'.time = {} /\ tc'.afterLeave = {} /\ tc'.lockedUnits = {}
  <2>1. CASE tc' = SetState(s, "PAUSED") /\ page' = "loading"
    BY <1>3, <1>4, <2>1 DEF State
  <2>2. CASE Activate(SetState(s, "RUNNING"), resumed, "loading")
    <3> DEFINE r == SetState(s, "RUNNING")
    <3>1. /\ r \in ServiceState /\ r.state = "RUNNING" /\ r.time = s.time
          /\ r.afterLeave = s.afterLeave /\ r.lockedUnits = s.lockedUnits
      BY <1>4 DEF State
    <3> HIDE DEF r
    <3>2. Calm(r, tc') /\ page' \in {"loading", "unit"}
      <4>1. Activate(r, resumed, "loading")
        BY <2>2 DEF r
      <4>2. resumed # NoUnit => resumed \in Unit
        BY <1>2 DEF UnitOrNone
      <4> QED
        BY <3>1, <4>1, <4>2, CalmStays, CalmMethods DEF Activate
    <3> QED
      BY <1>3, <3>1, <3>2 DEF Calm
  <2> QED
    BY <2>1, <2>2 DEF Load, s, resumed
<1>6. loads' # 0
  BY BoundAssumption DEF Load, Inv, RouterOK
<1>7. EndsProperly'
  BY <1>5, <1>6 DEF Load, EndsProperly, ExitsEnd
<1>8. ClosesNothing' /\ StoresNothing'
  BY <1>5 DEF Load, Orderly, ClosesNothing, StoresNothing
<1> QED
  BY <1>7, <1>8 DEF Orderly

LEMMA InitOrder == Init => Orderly
<1> SUFFICES ASSUME Init PROVE Orderly
  OBVIOUS
<1>1. tc.state = "INIT" /\ tc.time = {} /\ tc.afterLeave = {} /\ tc.lockedUnits = {}
  BY DEF Init, RestoreLastState, UpdateNavigationState, RestoredLocks, NewTestState, NotStarted
<1> QED
  BY <1>1 DEF Init, Orderly, EndsProperly, ExitsEnd, ClosesNothing, StoresNothing

LEMMA NextOrder == Inv /\ Orderly /\ [Next]_vars => Orderly'
<1> SUFFICES ASSUME Inv, Orderly, [Next]_vars PROVE Orderly'
  OBVIOUS
<1>1. CASE UNCHANGED vars
  BY <1>1 DEF vars, Orderly, EndsProperly, ExitsEnd, ClosesNothing, StoresNothing
<1>2. CASE Next
  BY <1>2, FollowRedirectOrder, SelectUnitOrder, RequestNavigationOrder, SubmitCodeOrder,
     RequestTestEndOrder, AnswerOrder, ReportProgressOrder, EvaluateConditionsOrder, LoadOrder,
     ProcessRequestOrder, TickOrder, TimerEndedOrder, PauseOrder, ResumeOrder,
     TerminateCommandOrder, GotoOrder, ErrorOutOrder, FinishEndingOrder, SaveBuffersOrder
     DEF Next, Answer
<1> QED
  BY <1>1, <1>2

LEMMA OrderHolds == Spec => []Orderly
  BY InitOrder, NextOrder, InitInv, NextInv, PTL DEF Spec

\* A test whose answers count is never left without being ended and completely saved, by
\* whichever dialogs, commands and requests it was left.
THEOREM LeftTestCorrect == Spec => []LeftTestIsEndedAndSaved
<1>1. Inv /\ Orderly => LeftTestIsEndedAndSaved
  BY BoundAssumption DEF Orderly, EndsProperly, Ended, LeftTestIsEndedAndSaved, Inv, RouterOK
<1> QED
  BY <1>1, InvHolds, OrderHolds, PTL

\* Where the mode forces and stores nothing, nothing is ever closed and nothing is stored.
THEOREM UnforcedCorrect == Spec => []UnforcedModeClosesNothing
<1>1. Orderly => UnforcedModeClosesNothing
  BY DEF Orderly, ClosesNothing, StoresNothing, UnforcedModeClosesNothing
<1> QED
  BY <1>1, OrderHolds, PTL

----------------------------------------------------------------------------------
(* Incomplete units *)

\* What a testee asks for is never forced, and is never a pause; the end of a timer is a
\* forced way on; the monitor pauses or starts anew, and the loader only pauses.
Asked(by, target, force) ==
  /\ by # "nobody"
  /\ by = "testee" => force = FALSE /\ target # "PAUSE"
  /\ by = "timer" => force = TRUE /\ target = "NEXT"
  /\ by = "monitor" => target \in {"PAUSE", "FIRST"}
  /\ by = "loader" => target = "PAUSE"
OwnRequest == {r \in Request : Asked(r.by, r.target, r.force)}
RequestsOK == requests \in Seq(OwnRequest)

LEMMA EnqueueOwn ==
  ASSUME RequestsOK, NEW by \in Mover, NEW target \in RelativeTarget \cup {"PAUSE"},
         NEW force \in BOOLEAN, Enqueue(by, target, force),
         Asked(by, target, force)
  PROVE  RequestsOK'
<1>1. [by |-> by, target |-> target, force |-> force] \in Request
  BY DEF Request
<1>2. [by |-> by, target |-> target, force |-> force] \in OwnRequest
  BY <1>1 DEF OwnRequest
<1> QED
  BY <1>2 DEF RequestsOK, Enqueue

LEMMA NextRequests == Inv /\ RequestsOK /\ [Next]_vars => RequestsOK'
<1> SUFFICES ASSUME Inv, RequestsOK, [Next]_vars PROVE RequestsOK'
  OBVIOUS
<1>1. ASSUME requests' = requests PROVE RequestsOK'
  BY <1>1 DEF RequestsOK
<1>2. ASSUME requests' = <<>> PROVE RequestsOK'
  BY <1>2 DEF RequestsOK
<1>3. ASSUME requests # <<>>, requests' = Tail(requests) PROVE RequestsOK'
  BY <1>3 DEF RequestsOK
<1>4. ASSUME NEW target \in RelativeTarget, RequestNavigation(target) PROVE RequestsOK'
  BY <1>4, EnqueueOwn DEF RequestNavigation, Mover, RelativeTarget, Asked
<1>5. ASSUME TimerEnded PROVE RequestsOK'
  BY <1>1, <1>5, EnqueueOwn DEF TimerEnded, Mover, RelativeTarget, Asked
<1>6. ASSUME Pause PROVE RequestsOK'
  BY <1>6, EnqueueOwn DEF Pause, Mover, Asked
<1>7. ASSUME Resume PROVE RequestsOK'
  BY <1>1, <1>7, EnqueueOwn DEF Resume, Mover, RelativeTarget, Asked
<1>8. ASSUME NEW shown, Load(shown) PROVE RequestsOK'
  <2>1. [by |-> "loader", target |-> "PAUSE", force |-> FALSE] \in OwnRequest
    <3>1. [by |-> "loader", target |-> "PAUSE", force |-> FALSE] \in Request
      BY DEF Request, Mover
    <3> QED
      BY <3>1 DEF OwnRequest, Asked
  <2>2. \A r \in OwnRequest : <<r>> \in Seq(OwnRequest)
    OBVIOUS
  <2> QED
    BY <1>2, <1>8, <2>1, <2>2 DEF Load, RequestsOK
<1>9. CASE FollowRedirect \/ SubmitCode \/ RequestTestEnd \/ Tick \/ ErrorOut \/ SaveBuffers
           \/ (\E u \in Unit : SelectUnit(u)) \/ (\E done \in BOOLEAN : ReportProgress(done))
           \/ (\E shown \in SUBSET Conditional : EvaluateConditions(shown))
           \/ (\E lock \in BOOLEAN : TerminateCommand(lock))
           \/ (\E u \in Unit, given \in GivenTime \cup {NotANumber} : Goto(u, given))
           \/ Answer \/ UNCHANGED vars
  BY <1>1, <1>9 DEF FollowRedirect, SubmitCode, RequestTestEnd, Tick, ErrorOut, SaveBuffers,
     SelectUnit, ReportProgress, EvaluateConditions, TerminateCommand, Goto, Answer, AnswerStay,
     AnswerLeave, vars
<1>10. CASE ProcessRequest \/ FinishEnding
  BY <1>2, <1>3, <1>10 DEF ProcessRequest, CarryOut, FinishEnding, LeaveEnded
<1> QED
  BY <1>4, <1>5, <1>6, <1>7, <1>8, <1>9, <1>10 DEF Next

LEMMA RequestsHold == Spec => []RequestsOK
<1>1. Init => RequestsOK
  BY DEF Init, RequestsOK
<1> QED
  BY <1>1, InitInv, NextInv, NextRequests, PTL DEF Spec

\* A unit is held where forward, and whatever is no unit, is denied.
HeldBack ==
  /\ ForceNaviRestrictions /\ page = "unit" /\ tc.state = "RUNNING"
  /\ ~Locked(tc, tc.current)
  /\ DenyIncomplete[ParentOf[tc.current]] # "OFF"
  /\ tc.current \notin tc.complete \cup tc.lockedUnits
NotPassed == page' = "unit" /\ tc'.current <= tc.current

LEMMA ForwardIsDenied ==
  ASSUME Inv, HeldBack
  PROVE  /\ tc \in ServiceState /\ tc.current \in Unit /\ Checked(tc, FALSE)
         /\ tc.current <= tc.current /\ page = "unit"
         /\ \A to \in UnitOrNone : ~Denies(tc, to) => to \in Unit /\ to <= tc.current
<1>1. tc \in ServiceState /\ tc.current \in Unit
  BY DEF Inv, Kept, HeldBack, Shown, ServiceState, UnitOrNone
<1>2. DenyIncomplete[ParentOf[tc.current]] \in {"ON", "ALWAYS"}
  BY <1>1, BookletAssumption, RestrictionAssumption DEF HeldBack
<1>3. ASSUME NEW to \in UnitOrNone, ~Denies(tc, to) PROVE to \in Unit /\ to <= tc.current
  BY <1>1, <1>2, <1>3 DEF HeldBack, Denies, Incomplete, UnitOrNone, Unit, NoUnit
<1>4. Checked(tc, FALSE)
  BY <1>1 DEF HeldBack, Checked, FreeToLeave, Unit, NoUnit
<1>5. tc.current <= tc.current
  BY <1>1 DEF Unit
<1> QED
  BY <1>1, <1>3, <1>4, <1>5 DEF HeldBack

LEMMA GoHoldsBack ==
  ASSUME Inv, HeldBack, NEW to \in UnitOrNone, Go(tc, to, FALSE)
  PROVE  NotPassed
<1>1. tc \in ServiceState /\ tc.current \in Unit /\ Checked(tc, FALSE) /\ tc.current <= tc.current
      /\ page = "unit"
  BY ForwardIsDenied
<1>2. CASE Stay(tc) \/ Stay(SolveTimer(tc, to))
  BY <1>1, <1>2, SolveTimerFacts DEF Stay, NotPassed, SameUnit
<1>3. CASE Allows(tc, to) /\ Activate(SolveLeave(tc, to), to, page)
  <2>1. to \in Unit /\ to <= tc.current
    BY <1>3, ForwardIsDenied DEF Allows
  <2>2. SolveLeave(tc, to) \in ServiceState /\ SolveLeave(tc, to).current = tc.current
    BY <1>1, SolveLeaveStep, SolveLeaveFacts DEF Step, SameUnit, Unit, NoUnit
  <2>3. Open(SolveLeave(tc, to), to).current = to
    BY <2>1, <2>2, OpenFacts
  <2> QED
    BY <1>1, <1>3, <2>1, <2>2, <2>3 DEF Activate, NotPassed
<1> QED
  BY <1>1, <1>2, <1>3 DEF Go, Ask

\* A testee who works on an incomplete unit does not get past it where that is denied:
\* neither by choosing a unit, by a request, a redirect, nor by ending the test.
THEOREM IncompleteUnitCorrect == Spec => IncompleteUnitIsNotPassed
<1>1. ASSUME Inv, Orderly, RequestsOK, [Next]_vars, HeldBack, dialogs = {}, movedBy' = "testee"
      PROVE  NotPassed
  <2>1. tc \in ServiceState /\ tc.current \in Unit /\ Checked(tc, FALSE) /\ tc.current <= tc.current
        /\ page = "unit"
    BY <1>1, ForwardIsDenied
  <2>2. ASSUME tc'.current = tc.current, page' = page PROVE NotPassed
    BY <2>1, <2>2 DEF NotPassed
  <2>3. ASSUME tc' = tc, page' = page PROVE NotPassed
    BY <2>2, <2>3
  <2>4. CASE FollowRedirect
    BY <1>1, <2>4, GoHoldsBack DEF FollowRedirect, Inv, RouterOK
  <2>5. ASSUME NEW u \in Unit, SelectUnit(u) PROVE NotPassed
    <3>1. CASE u = tc.current /\ Stay(Open(tc, u))
      BY <2>1, <2>2, <3>1, OpenFacts DEF Stay
    <3>2. CASE Go(tc, u, FALSE)
      BY <1>1, <3>2, GoHoldsBack DEF UnitOrNone
    <3> QED
      BY <2>5, <3>1, <3>2 DEF SelectUnit, GoToUnit
  <2>6. CASE RequestTestEnd
    <3>1. Denies(tc, NoUnit)
      BY <1>1, ForwardIsDenied DEF UnitOrNone, Unit, NoUnit
    <3>2. Stay(tc)
      BY <2>1, <2>6, <3>1 DEF RequestTestEnd, Ask, AsksForTimer, AsksForLock, Allows
    <3> QED
      BY <2>3, <3>2 DEF Stay
  <2>7. CASE ProcessRequest
    <3> DEFINE r == Head(requests)
    <3>1. r \in OwnRequest /\ r.by = "testee"
      BY <1>1, <2>7 DEF ProcessRequest, CarryOut, RequestsOK
    <3>2. r.force = FALSE /\ r.target # "PAUSE"
      BY <3>1 DEF OwnRequest, Asked
    <3>3. /\ tc.navigation.next \in UnitOrNone /\ tc.navigation.previous \in UnitOrNone
          /\ tc.navigation.first \in UnitOrNone /\ tc.navigation.last \in UnitOrNone
      BY <2>1 DEF ServiceState, NavigationTargets
    <3>4. PICK to \in UnitOrNone : Go(tc, to, r.force)
      BY <2>7, <3>2, <3>3 DEF ProcessRequest, CarryOut
    <3>5. Go(tc, to, FALSE)
      BY <3>2, <3>4, Zenon
    <3> QED
      BY <1>1, <3>5, GoHoldsBack
  <2>8. CASE SubmitCode
    BY <1>1, <2>8 DEF SubmitCode, HeldBack, LockedByCode
  <2>9. ASSUME NEW done \in BOOLEAN, ReportProgress(done) PROVE NotPassed
    BY <2>1, <2>2, <2>9 DEF ReportProgress, ServiceState
  <2>10. ASSUME NEW shown \in SUBSET Conditional, EvaluateConditions(shown) PROVE NotPassed
    BY <2>1, <2>2, <2>10, UpdateAllShowLocksFacts DEF EvaluateConditions, SameUnit
  <2>11. CASE Tick
    <3>1. tc.timerId \in Testlet /\ tc.timers[tc.timerId] - 1 \in Int
      BY <2>1, <2>11 DEF Tick, ServiceState, Times
    <3> QED
      BY <2>1, <2>2, <2>11, <3>1, SetTimeLeftFacts DEF Tick, SameUnit
  <2>12. CASE TimerEnded
    BY <2>1, <2>2, <2>12, CloseTimedBlockFacts DEF TimerEnded, SameUnit
  <2>13. CASE Pause
    <3>1. InterruptTimer(tc) \in ServiceState /\ InterruptTimer(tc).current = tc.current
      BY <2>1, InterruptTimerStep, InterruptTimerFacts DEF Step, SameUnit
    <3> QED
      BY <2>1, <2>2, <2>13, <3>1, SetStateFacts DEF Pause, State
  <2>14. CASE Resume
    BY <1>1, <2>1, <2>14 DEF Resume, Unit, NoUnit
  <2>15. ASSUME NEW lock \in BOOLEAN, TerminateCommand(lock) PROVE NotPassed
    BY <2>1, <2>2, <2>15, TerminateFacts DEF TerminateCommand
  <2>16. CASE ErrorOut
    BY <2>1, <2>2, <2>16, SetStateFacts DEF ErrorOut, State
  <2>17. CASE FinishEnding
    BY <1>1, <2>17 DEF FinishEnding, HeldBack, Orderly, EndsProperly, Ended
  <2>18. CASE SaveBuffers \/ (\E target \in RelativeTarget : RequestNavigation(target))
              \/ UNCHANGED vars
    BY <2>3, <2>18 DEF SaveBuffers, RequestNavigation, vars
  <2>19. CASE \/ Answer \/ \E shown \in SUBSET Conditional : Load(shown)
              \/ \E u \in Unit, given \in GivenTime \cup {NotANumber} : Goto(u, given)
    BY <1>1, <2>19 DEF Answer, Load, Goto
  <2> QED
    BY <1>1, <2>4, <2>5, <2>6, <2>7, <2>8, <2>9, <2>10, <2>11, <2>12, <2>13, <2>14, <2>15,
       <2>16, <2>17, <2>18, <2>19 DEF Next
<1>2. Inv /\ Orderly /\ RequestsOK /\ [Next]_vars =>
        [   /\ ForceNaviRestrictions /\ dialogs = {} /\ page = "unit" /\ tc.state = "RUNNING"
            /\ ~Locked(tc, tc.current)
            /\ DenyIncomplete[ParentOf[tc.current]] # "OFF"
            /\ tc.current \notin tc.complete \cup tc.lockedUnits /\ movedBy' = "testee"
         => page' = "unit" /\ tc'.current <= tc.current]_vars
  BY <1>1 DEF HeldBack, NotPassed
<1> QED
  BY <1>2, InvHolds, OrderHolds, RequestsHold, PTL DEF Spec, IncompleteUnitIsNotPassed

----------------------------------------------------------------------------------
(* Timers *)

\* Booklets whose timed blocks are plain: none lies in another timed one or holds a testlet of
\* its own, none is shown on a condition, and no testlet lock that is confirmed covers one.
\* In the others a block with a running timer can be hidden, locked or left for a nested one
\* while its timer goes on, and what the theorems below state fails.
PlainTimedBlocks ==
  \A t \in Testlet : TimerOf(t) # NoTimer =>
    /\ TimerOf(t) = t
    /\ \A a \in Above[t] :
         a \notin Conditional
         /\ ~(ForceNaviRestrictions /\ LockScope[a] = "testlet" /\ a \in LockConfirm)

\* Time locks are those of blocks whose time is over; the timer that runs is that of the
\* current unit, which is open; and none runs where no unit is shown.
OnTime(s, p) ==
  /\ s.show \subseteq Conditional
  /\ \A t \in s.time : TimerOf(t) = t /\ s.timers[t] <= 0
  /\ s.timerId # NoTimer => /\ s.current # NoUnit /\ TimerOfUnit(s.current) = s.timerId
                            /\ ~Locked(s, s.current)
  /\ p # "unit" /\ s.state # "ERROR" => s.timerId = NoTimer

Wellformed(D) ==
  \A d \in D : /\ d.asks = "lock" => ParentOf[d.unit] \in LockConfirm
               /\ d.asks = "end" => d.endsTest
               /\ d.endsTest => d.exit
               /\ d.exit => d.to = NoUnit

\* At most one dialog is that of the last navigation.  While a timer runs it asks whether to
\* leave the timed block, or whether to leave a locked area inside of it.
OneAsks(D, s) ==
  /\ \A d, e \in D : d.live /\ e.live => d = e
  /\ \A d \in D : d.live /\ s.timerId # NoTimer =>
       \/ d.asks = "timer" /\ TimerOfUnit(d.to) # s.timerId /\ Leave[s.timerId] = "confirm"
       \/ d.asks = "lock" /\ TimerOfUnit(d.to) = s.timerId

Timely == OnTime(tc, page) /\ Wellformed(dialogs) /\ OneAsks(dialogs, tc)

LEMMA LockedAlike ==
  ASSUME NEW s, NEW r, SameLocks(s, r), NEW u
  PROVE  Locked(s, u) <=> Locked(r, u)
  BY DEF SameLocks, Locked, LocksAbove

\* The timer of a unit in a plain block is that of its own testlet.
LEMMA PlainTimer ==
  ASSUME PlainTimedBlocks, NEW u \in UnitOrNone, TimerOfUnit(u) # NoTimer
  PROVE  u \in Unit /\ ParentOf[u] \in Testlet /\ TimerOfUnit(u) = ParentOf[u]
         /\ TimerOf(ParentOf[u]) = ParentOf[u]
<1>1. u \in Unit /\ TimerOfUnit(u) = TimerOf(ParentOf[u])
  BY DEF TimerOfUnit, UnitOrNone
<1>2. ParentOf[u] \in Testlet
  BY <1>1, BookletAssumption
<1> QED
  BY <1>1, <1>2 DEF PlainTimedBlocks

\* Two units with the running timer are in the same block and locked alike.
LEMMA SameBlock ==
  ASSUME PlainTimedBlocks, NEW s, NEW u \in UnitOrNone, NEW v \in UnitOrNone,
         TimerOfUnit(u) = TimerOfUnit(v), TimerOfUnit(u) # NoTimer
  PROVE  ParentOf[u] = ParentOf[v] /\ (Locked(s, u) <=> Locked(s, v))
<1>1. ParentOf[u] = ParentOf[v]
  BY PlainTimer
<1> QED
  BY <1>1 DEF Locked, LocksAbove

\* OnTime carries over to a state with the same timer, where nothing that matters was locked.
LEMMA OnTimeStays ==
  ASSUME NEW s, NEW p, OnTime(s, p), NEW r, NEW q,
         r.show \subseteq Conditional, r.time \subseteq s.time, r.current = s.current,
         SameTimes(s, r),
         s.timerId # NoTimer => ~Locked(r, r.current),
         q # "unit" /\ r.state # "ERROR" => r.timerId = NoTimer
  PROVE  OnTime(r, q)
  BY DEF OnTime, SameTimes

\* Without a running timer only the time locks count.
LEMMA OnTimeWithoutTimer ==
  ASSUME NEW s, s.timerId = NoTimer, s.show \subseteq Conditional,
         \A t \in s.time : TimerOf(t) = t /\ s.timers[t] <= 0, NEW p
  PROVE  OnTime(s, p)
  BY DEF OnTime

\* From s to r no time is added where some is left, and only the timers that run change.
Spends(s, r) == \A t \in Testlet : s.timers[t] > 0 => r.timers[t] <= s.timers[t]
OthersKeep(s, to, r) ==
  \A t \in Testlet : t # s.timerId /\ t # TimerOfUnit(to) => r.timers[t] = s.timers[t]
OnlyOwn(s, r) == \A t \in Testlet : t # s.timerId => r.timers[t] = s.timers[t]

LEMMA SameTimesSpend ==
  ASSUME NEW s \in ServiceState, NEW r, r.timers = s.timers
  PROVE  Spends(s, r) /\ OnlyOwn(s, r) /\ \A to : OthersKeep(s, to, r)
  BY DEF Spends, OnlyOwn, OthersKeep, ServiceState, Times

\* Stopping the timer adds no time; what the block loses is all its own.
LEMMA CloseTimedBlockTime ==
  ASSUME PlainTimedBlocks, NEW s \in ServiceState, NEW p, OnTime(s, p), s.timerId # NoTimer
  PROVE  LET r == CloseTimedBlock(s) IN
         /\ \A q : OnTime(r, q)
         /\ r.timerId = NoTimer /\ Spends(s, r) /\ OnlyOwn(s, r)
<1> DEFINE r == CloseTimedBlock(s)
<1>1. s.current \in UnitOrNone /\ s.timerId \in Testlet /\ s.timers \in [Testlet -> Int]
      /\ s.time \subseteq Testlet
  BY DEF ServiceState, Times
<1>2. TimerOfUnit(s.current) = s.timerId
  BY DEF OnTime
<1>3. TimerOf(ParentOf[s.current]) = ParentOf[s.current] /\ ParentOf[s.current] = s.timerId
  BY <1>1, <1>2, PlainTimer
<1>4. r.show = s.show /\ r.time \subseteq s.time \cup {s.timerId} /\ r.timerId = NoTimer
      /\ r.timers = [s.timers EXCEPT ![s.timerId] = 0]
  BY <1>3, CloseTimedBlockFacts
<1> HIDE DEF r
<1>5. \A t \in r.time : TimerOf(t) = t /\ r.timers[t] <= 0
  BY <1>1, <1>3, <1>4 DEF OnTime
<1>6. \A q : OnTime(r, q)
  BY <1>4, <1>5, OnTimeWithoutTimer DEF OnTime
<1>7. Spends(s, r) /\ OnlyOwn(s, r)
  BY <1>1, <1>4 DEF Spends, OnlyOwn
<1> QED
  BY <1>4, <1>6, <1>7 DEF r

LEMMA CancelTimerTime ==
  ASSUME PlainTimedBlocks, NEW s \in ServiceState, NEW p, OnTime(s, p)
  PROVE  LET r == CancelTimer(s) IN
         /\ \A q : OnTime(r, q)
         /\ r.timerId = NoTimer /\ Spends(s, r) /\ OnlyOwn(s, r)
<1>1. CASE s.timerId = NoTimer
  BY <1>1, OnTimeWithoutTimer, SameTimesSpend DEF CancelTimer, OnTime
<1>2. CASE s.timerId # NoTimer
  BY <1>2, CloseTimedBlockTime DEF CancelTimer
<1> QED
  BY <1>1, <1>2

LEMMA InterruptTimerTime ==
  ASSUME NEW s \in ServiceState, NEW p, OnTime(s, p)
  PROVE  LET r == InterruptTimer(s) IN
         /\ \A q : OnTime(r, q)
         /\ r.timerId = NoTimer /\ r.timers = s.timers
<1> DEFINE r == InterruptTimer(s)
<1>1. r.timerId = NoTimer /\ r.timers = s.timers /\ r.show = s.show /\ r.time = s.time
  BY InterruptTimerFacts DEF SameLocks
<1> HIDE DEF r
<1>2. \A q : OnTime(r, q)
  BY <1>1, OnTimeWithoutTimer DEF OnTime
<1> QED
  BY <1>1, <1>2 DEF r

\* No timer goes on where the unit is left unchecked, except after an error.
LEMMA LeftUncheckedTime ==
  ASSUME NEW s \in ServiceState, OnTime(s, page)
  PROVE  LET r == LeftUnchecked(s) IN
         /\ \A q : OnTime(r, q)
         /\ r.state = s.state /\ r.current = s.current /\ r.timers = s.timers
         /\ r.timerId # NoTimer => r.state = "ERROR"
<1>1. CASE page # "unit" \/ FreeToLeave(s)
  <2>1. LeftUnchecked(s) = s
    BY <1>1 DEF LeftUnchecked
  <2>2. s.timerId # NoTimer => s.state = "ERROR"
    BY <1>1 DEF OnTime, FreeToLeave
  <2> QED
    BY <2>1, <2>2 DEF OnTime
<1>2. CASE ~(page # "unit" \/ FreeToLeave(s))
  BY <1>2, InterruptTimerTime, InterruptTimerFacts DEF LeftUnchecked, SameUnit
<1> QED
  BY <1>1, <1>2

\* A lock that is set on leaving leaves the block of the running timer open.
LEMMA LeaveLockTime ==
  ASSUME PlainTimedBlocks, NEW s \in ServiceState, NEW p, OnTime(s, p), NEW u \in Unit,
         s.timerId = NoTimer \/ ParentOf[u] \in LockConfirm \/ LockScope[ParentOf[u]] # "testlet"
  PROVE  OnTime(LeaveLock(s, u), p) /\ SameTimes(s, LeaveLock(s, u))
<1> DEFINE r == LeaveLock(s, u)
<1>1. /\ SameUnit(s, r) /\ SameTimes(s, r)
      /\ r.show = s.show /\ r.time = s.time /\ r.code = s.code
      /\ r.afterLeave \subseteq IF ForceNaviRestrictions /\ LockScope[ParentOf[u]] = "testlet"
                                THEN s.afterLeave \cup {ParentOf[u]} ELSE s.afterLeave
  BY LeaveLockFacts
<1> HIDE DEF r
<1>2. ASSUME s.timerId # NoTimer PROVE ~Locked(r, r.current)
  <2> DEFINE t == ParentOf[s.current]
  <2>1. s.current \in UnitOrNone /\ TimerOfUnit(s.current) # NoTimer /\ ~Locked(s, s.current)
    BY <1>2 DEF ServiceState, OnTime
  <2>2. t \in Testlet /\ TimerOf(t) # NoTimer
    BY <2>1, PlainTimer
  <2>3. ~(ParentOf[u] \in Above[t] /\ ForceNaviRestrictions /\ LockScope[ParentOf[u]] = "testlet")
    BY <1>2, <2>2 DEF PlainTimedBlocks
  <2>4. Above[t] \cap r.afterLeave \subseteq Above[t] \cap s.afterLeave
    BY <1>1, <2>3
  <2>5. LocksAbove(r, s.current) \subseteq LocksAbove(s, s.current)
    BY <1>1, <2>4 DEF LocksAbove
  <2> QED
    BY <1>1, <2>1, <2>5 DEF SameUnit, Locked
<1>3. OnTime(r, p)
  BY <1>1, <1>2, OnTimeStays DEF OnTime, SameUnit, SameTimes
<1> QED
  BY <1>1, <1>3 DEF r

\* A unit that is opened lies in the block of the running timer, or none runs: if it has a
\* timer and is open, that one runs afterwards, with no more time than before.
LEMMA StartsInTime ==
  ASSUME PlainTimedBlocks, NEW s \in ServiceState, NEW p, OnTime(s, p), NEW u \in Unit,
         s.timerId # NoTimer => TimerOfUnit(u) = s.timerId,
         NEW r, r.current = u, SameLocks(s, r),
         Locked(s, u) \/ TimerOfUnit(u) = NoTimer \/ TimerOfUnit(u) = s.timerId
           => SameTimes(s, r),
         ~Locked(s, u) /\ TimerOfUnit(u) # NoTimer /\ TimerOfUnit(u) # s.timerId
           => /\ TimerOfUnit(u) \in Testlet /\ r.timerId = TimerOfUnit(u)
              /\ r.timers = StartTimer(s, TimerOfUnit(u)).timers
  PROVE  /\ OnTime(r, "unit") /\ Spends(s, r) /\ OthersKeep(s, u, r)
         /\ s.timerId # NoTimer => r.timerId = s.timerId
<1> DEFINE t == TimerOfUnit(u)
<1>1. /\ r.current = u /\ SameLocks(s, r)
      /\ Locked(s, u) \/ t = NoTimer \/ t = s.timerId => SameTimes(s, r)
      /\ ~Locked(s, u) /\ t # NoTimer /\ t # s.timerId
           => t \in Testlet /\ r.timerId = t /\ r.timers = StartTimer(s, t).timers
  OBVIOUS
<1>2. u \in UnitOrNone /\ s.current \in UnitOrNone /\ u # NoUnit
  BY DEF UnitOrNone, ServiceState, Unit, NoUnit
<1>3. s.timerId # NoTimer => ~Locked(s, u)
  BY <1>2, SameBlock DEF OnTime
<1>4. Locked(r, u) <=> Locked(s, u)
  BY <1>1, LockedAlike
<1>5. s.timers \in [Testlet -> Int] /\ s.time \subseteq Testlet
  BY DEF ServiceState, Times
<1>6. CASE Locked(s, u) \/ t = NoTimer \/ t = s.timerId
  <2>1. SameTimes(s, r)
    BY <1>1, <1>6
  <2>2. OnTime(r, "unit")
    <3> HIDE DEF t
    <3>1. r.show \subseteq Conditional /\ \A x \in r.time : TimerOf(x) = x /\ r.timers[x] <= 0
      BY <1>1, <2>1 DEF OnTime, SameLocks, SameTimes
    <3>2. r.timerId # NoTimer => r.current # NoUnit /\ t = r.timerId /\ ~Locked(r, r.current)
      BY <1>1, <1>2, <1>3, <1>4, <2>1 DEF SameTimes, t
    <3> QED
      BY <1>1, <3>1, <3>2 DEF OnTime, t
  <2>3. Spends(s, r) /\ OthersKeep(s, u, r)
    BY <2>1, SameTimesSpend DEF SameTimes
  <2> QED
    BY <2>1, <2>2, <2>3 DEF SameTimes
<1>7. CASE ~Locked(s, u) /\ t # NoTimer /\ t # s.timerId
  <2> DEFINE left == IF s.timers[t] > 0 /\ s.timers[t] < MaxTime[t] THEN s.timers[t] ELSE MaxTime[t]
  <2>1. t \in Testlet /\ t = ParentOf[u] /\ TimerOf(t) = t
    BY <1>1, <1>2, <1>7, PlainTimer
  <2>2. r.timerId = t /\ r.timers = StartTimer(s, t).timers
    BY <1>1, <1>7
  <2>3. r.timers = [s.timers EXCEPT ![t] = left]
    <3> HIDE DEF t
    <3> QED
      BY <2>1, <2>2, StartTimerFacts
  <2>4. left \in Int /\ (s.timers[t] > 0 => left <= s.timers[t])
    <3> HIDE DEF t
    <3> QED
      BY <1>5, <2>1, RestrictionAssumption
  <2>5. t \notin s.time
    <3>1. t \in Above[t]
      BY <2>1, BookletAssumption
    <3> QED
      BY <1>7, <2>1, <3>1 DEF Locked, LocksAbove
  <2>6. TimerOfUnit(r.current) = t /\ ~Locked(r, r.current) /\ r.current # NoUnit
    BY <1>1, <1>2, <1>4, <1>7
  <2>7. s.timerId = NoTimer
    BY <1>7
  <2> HIDE DEF left, t
  <2>8. \A x \in r.time : TimerOf(x) = x /\ r.timers[x] <= 0
    BY <1>1, <1>5, <2>1, <2>3, <2>4, <2>5 DEF OnTime, SameLocks
  <2>9. OnTime(r, "unit")
    BY <1>1, <2>2, <2>6, <2>8 DEF OnTime, SameLocks
  <2>10. Spends(s, r) /\ OthersKeep(s, u, r)
    BY <1>5, <2>1, <2>3, <2>4 DEF Spends, OthersKeep, t
  <2> QED
    BY <2>7, <2>9, <2>10
<1> QED
  BY <1>6, <1>7

LEMMA OpenTime ==
  ASSUME PlainTimedBlocks, NEW s \in ServiceState, NEW p, OnTime(s, p), NEW u \in Unit,
         s.timerId # NoTimer => TimerOfUnit(u) = s.timerId
  PROVE  LET r == Open(s, u) IN
         /\ OnTime(r, "unit") /\ Spends(s, r) /\ OthersKeep(s, u, r)
         /\ s.timerId # NoTimer => r.timerId = s.timerId
  BY OpenFacts, StartsInTime

LEMMA RunUnitTime ==
  ASSUME PlainTimedBlocks, NEW s \in ServiceState, s.current \in Unit, NEW p, OnTime(s, p),
         s.timerId = NoTimer
  PROVE  OnTime(RunUnit(s), "unit") /\ Spends(s, RunUnit(s))
<1> DEFINE r == RunUnit(s)
           u == s.current
<1>1. /\ r.current = u /\ SameLocks(s, r)
      /\ Locked(s, u) \/ TimerOfUnit(u) = NoTimer \/ TimerOfUnit(u) = s.timerId
           => SameTimes(s, r)
      /\ ~Locked(s, u) /\ TimerOfUnit(u) # NoTimer /\ TimerOfUnit(u) # s.timerId
           => /\ TimerOfUnit(u) \in Testlet /\ r.timerId = TimerOfUnit(u)
              /\ r.timers = StartTimer(s, TimerOfUnit(u)).timers
  BY RunUnitFacts DEF SameUnit
<1> HIDE DEF r
<1> QED
  BY <1>1, StartsInTime DEF r

\* A timer that still runs after the way to a unit was allowed is that of the unit.
LEMMA SolveTimerTime ==
  ASSUME PlainTimedBlocks, NEW s \in ServiceState, NEW p, OnTime(s, p), NEW to \in UnitOrNone
  PROVE  LET r == SolveTimer(s, to) IN
         /\ OnTime(r, p) /\ Spends(s, r) /\ OnlyOwn(s, r)
         /\ r.timerId # NoTimer => r = s /\ TimerOfUnit(to) = s.timerId
         /\ TimerOfUnit(to) = s.timerId => r = s
<1>1. CASE ~LeavesTimedBlock(s, to)
  BY <1>1, SolveTimerFacts, SameTimesSpend DEF LeavesTimedBlock
<1>2. CASE LeavesTimedBlock(s, to) /\ Leave[s.timerId] = "allowed"
  <2>1. SolveTimer(s, to) = CancelTimer(s)
    BY <1>2 DEF SolveTimer
  <2> QED
    BY <1>2, <2>1, CancelTimerTime DEF LeavesTimedBlock
<1>3. CASE LeavesTimedBlock(s, to) /\ Leave[s.timerId] # "allowed"
  <2>1. SolveTimer(s, to) = InterruptTimer(s)
    BY <1>3 DEF SolveTimer
  <2> QED
    BY <1>3, <2>1, InterruptTimerTime, SameTimesSpend DEF LeavesTimedBlock
<1> QED
  BY <1>1, <1>2, <1>3

LEMMA SolveLeaveTime ==
  ASSUME PlainTimedBlocks, NEW s \in ServiceState, s.current # NoUnit, NEW p, OnTime(s, p),
         NEW to \in UnitOrNone
  PROVE  LET r == SolveLeave(s, to) IN
         /\ r \in ServiceState /\ OnTime(r, p)
         /\ r.state = s.state /\ r.current = s.current
         /\ Spends(s, r) /\ OnlyOwn(s, r)
         /\ r.timerId # NoTimer => r.timerId = s.timerId /\ TimerOfUnit(to) = s.timerId
         /\ TimerOfUnit(to) = s.timerId => r.timers = s.timers /\ r.timerId = s.timerId
<1> DEFINE q == SolveTimer(s, to)
           r == SolveLeave(s, to)
<1>1. /\ q \in ServiceState /\ s.current \in Unit /\ r \in ServiceState
      /\ SameUnit(s, r) /\ SameTimes(q, r)
      /\ r = IF LeavesLockedArea(s, to) THEN LeaveLock(q, s.current) ELSE q
  BY SolveLeaveFacts, SolveLeaveStep DEF Step
<1>2. /\ OnTime(q, p) /\ Spends(s, q) /\ OnlyOwn(s, q)
      /\ q.timerId # NoTimer => q = s /\ TimerOfUnit(to) = s.timerId
      /\ TimerOfUnit(to) = s.timerId => q = s
  BY SolveTimerTime
<1> HIDE DEF q, r
<1>3. ASSUME LeavesLockedArea(s, to), q.timerId # NoTimer
      PROVE  LockScope[ParentOf[s.current]] # "testlet"
  <2>1. TimerOfUnit(to) = s.timerId /\ s.timerId # NoTimer
    BY <1>2, <1>3
  <2>2. s.current \in UnitOrNone /\ TimerOfUnit(s.current) = s.timerId
    BY <1>1, <2>1 DEF UnitOrNone, OnTime
  <2>3. ParentOf[to] = ParentOf[s.current] /\ to # NoUnit
    BY <2>1, <2>2, SameBlock DEF TimerOfUnit
  <2> QED
    BY <1>3, <2>3 DEF LeavesLockedArea
<1>4. LeavesLockedArea(s, to) => OnTime(LeaveLock(q, s.current), p)
  BY <1>1, <1>2, <1>3, LeaveLockTime
<1>5. OnTime(r, p)
  BY <1>1, <1>2, <1>4
<1> QED
  BY <1>1, <1>2, <1>5 DEF SameUnit, SameTimes, Spends, OnlyOwn, r

\* What is taken from the block that is left is not given back by the one that is entered.
LEMMA SpendsOnOpening ==
  ASSUME NEW s \in ServiceState, NEW r \in ServiceState, NEW q \in ServiceState, NEW to,
         Spends(s, r), Spends(r, q), OthersKeep(r, to, q),
         \A t \in Testlet : s.timers[t] > 0 /\ r.timers[t] # s.timers[t]
                             => t # r.timerId /\ t # TimerOfUnit(to)
  PROVE  Spends(s, q)
<1> SUFFICES ASSUME NEW t \in Testlet, s.timers[t] > 0 PROVE q.timers[t] <= s.timers[t]
  BY DEF Spends
<1>1. s.timers[t] \in Int /\ r.timers[t] \in Int /\ q.timers[t] \in Int
  BY DEF ServiceState, Times
<1>2. CASE r.timers[t] > 0
  BY <1>1, <1>2 DEF Spends
<1>3. CASE ~(r.timers[t] > 0)
  <2>1. r.timers[t] # s.timers[t]
    BY <1>3
  <2>2. q.timers[t] = r.timers[t]
    BY <2>1 DEF OthersKeep
  <2> QED
    BY <1>1, <1>3, <2>2
<1> QED
  BY <1>2, <1>3

LEMMA ThenOpens ==
  ASSUME NEW s \in ServiceState, NEW r \in ServiceState, NEW q \in ServiceState, NEW to,
         Spends(s, r), OnlyOwn(s, r), r.timerId = NoTimer \/ r.timerId = s.timerId,
         TimerOfUnit(to) = s.timerId \/ r.timerId # NoTimer => r.timers = s.timers,
         Spends(r, q), OthersKeep(r, to, q)
  PROVE  Spends(s, q) /\ OthersKeep(s, to, q)
<1>1. OthersKeep(s, to, q)
  BY BookletAssumption DEF OnlyOwn, OthersKeep
<1>2. \A t \in Testlet : r.timers[t] # s.timers[t] => t # r.timerId /\ t # TimerOfUnit(to)
  BY BookletAssumption DEF OnlyOwn
<1> QED
  BY <1>1, <1>2, SpendsOnOpening

\* What a navigation from s to a unit leaves behind.
Passes(s, to) ==
  /\ OnTime(tc', page') /\ Spends(s, tc') /\ OthersKeep(s, to, tc')
  /\ page' = page \/ page' = "unit"

LEMMA ActivateTime ==
  ASSUME PlainTimedBlocks, NEW s \in ServiceState, NEW to \in UnitOrNone, NEW from,
         OnTime(s, from), Activate(s, to, from),
         s.timerId # NoTimer /\ s.state # "ERROR" => TimerOfUnit(to) = s.timerId
  PROVE  /\ OnTime(tc', page') /\ Spends(s, tc') /\ OthersKeep(s, to, tc')
         /\ page' = from \/ page' = "unit"
         /\ s.timerId # NoTimer => tc'.timerId = s.timerId
<1>1. CASE tc' = s /\ page' = from
  BY <1>1, SameTimesSpend
<1>2. CASE ~ActivationBlocked(s) /\ to # NoUnit /\ tc' = Open(s, to) /\ page' = "unit"
  <2>1. to \in Unit /\ s.state # "ERROR"
    BY <1>2 DEF UnitOrNone, ActivationBlocked
  <2> QED
    BY <1>2, <2>1, OpenTime
<1> QED
  BY <1>1, <1>2 DEF Activate

\* Dialogs of earlier navigations say nothing of the timer that runs now.
LEMMA SupersededTime ==
  ASSUME DialogsOK(dialogs), Wellformed(dialogs)
  PROVE  /\ Wellformed(Superseded) /\ \A s : OneAsks(Superseded, s)
         /\ \A d \in Superseded : d.live = FALSE
<1> DEFINE old(d) == [d EXCEPT !.live = FALSE]
<1>1. ASSUME NEW d \in dialogs
      PROVE  /\ old(d).asks = d.asks /\ old(d).unit = d.unit /\ old(d).to = d.to
             /\ old(d).exit = d.exit /\ old(d).endsTest = d.endsTest /\ old(d).live = FALSE
  BY DEF DialogsOK, Dialog
<1>2. Superseded = {old(d) : d \in dialogs}
  BY DEF Superseded
<1> HIDE DEF old
<1>3. \A d \in Superseded : d.live = FALSE
  BY <1>1, <1>2
<1>4. Wellformed(Superseded)
  <2> SUFFICES ASSUME NEW d \in dialogs
               PROVE  /\ old(d).asks = "lock" => ParentOf[old(d).unit] \in LockConfirm
                      /\ old(d).asks = "end" => old(d).endsTest
                      /\ old(d).endsTest => old(d).exit
                      /\ old(d).exit => old(d).to = NoUnit
    BY <1>2 DEF Wellformed
  <2>1. /\ d.asks = "lock" => ParentOf[d.unit] \in LockConfirm
        /\ d.asks = "end" => d.endsTest
        /\ d.endsTest => d.exit
        /\ d.exit => d.to = NoUnit
    BY DEF Wellformed
  <2> QED
    BY <1>1, <2>1, Zenon
<1>5. \A s : OneAsks(Superseded, s)
  BY <1>3, Zenon DEF OneAsks
<1> QED
  BY <1>3, <1>4, <1>5

\* One dialog more, which is the only live one.
LEMMA NewDialogAsks ==
  ASSUME NEW D, \A d \in D : d.live = FALSE, NEW e, NEW s,
         s.timerId # NoTimer =>
           \/ e.asks = "timer" /\ TimerOfUnit(e.to) # s.timerId /\ Leave[s.timerId] = "confirm"
           \/ e.asks = "lock" /\ TimerOfUnit(e.to) = s.timerId
  PROVE  OneAsks(D \cup {e}, s)
<1>1. \A d \in D \cup {e} : d.live => d = e
  BY Zenon
<1> QED
  BY <1>1, Zenon DEF OneAsks

LEMMA AskTime ==
  ASSUME PlainTimedBlocks, NEW s \in ServiceState, OnTime(s, page), DialogsOK(dialogs),
         Wellformed(dialogs), NEW to \in UnitOrNone, NEW exit \in BOOLEAN,
         exit => to = NoUnit, Ask(s, to, exit)
  PROVE  Passes(s, to) /\ Wellformed(dialogs') /\ OneAsks(dialogs', tc')
<1> DEFINE endsTest == exit /\ SaveResponses /\ IsTestOngoing(s)
           dialog(asks) == [asks |-> asks, unit |-> s.current, to |-> to, exit |-> exit,
                            endsTest |-> endsTest, live |-> TRUE]
<1>1. /\ Wellformed(Superseded) /\ \A d \in Superseded : d.live = FALSE
  BY SupersededTime
<1>2. \A asks : /\ dialog(asks).asks = asks /\ dialog(asks).unit = s.current
                /\ dialog(asks).to = to
                /\ dialog(asks).endsTest => dialog(asks).exit
                /\ dialog(asks).exit => to = NoUnit
  BY Zenon
<1>3. CASE AsksForTimer(s, to) /\ Stay(s) /\ dialogs' = Superseded \cup {dialog("timer")}
  <2> HIDE DEF dialog
  <2>1. OneAsks(dialogs', s)
    BY <1>1, <1>2, <1>3, NewDialogAsks DEF AsksForTimer, LeavesTimedBlock
  <2>2. Wellformed(dialogs')
    BY <1>1, <1>2, <1>3 DEF Wellformed
  <2> QED
    BY <1>3, <2>1, <2>2, SameTimesSpend DEF Stay, Passes
<1>4. CASE AsksForLock(s, to) /\ Stay(SolveTimer(s, to)) /\ dialogs' = Superseded \cup {dialog("lock")}
  <2> HIDE DEF dialog
  <2> DEFINE r == SolveTimer(s, to)
  <2>1. /\ OnTime(r, page) /\ Spends(s, r) /\ OnlyOwn(s, r)
        /\ r.timerId # NoTimer => r = s /\ TimerOfUnit(to) = s.timerId
    BY SolveTimerTime
  <2> HIDE DEF r
  <2>4. dialog("lock").asks = "lock"
        /\ (r.timerId # NoTimer => TimerOfUnit(dialog("lock").to) = r.timerId)
    BY <1>2, <2>1
  <2>2. OneAsks(dialogs', r)
    BY <1>1, <1>4, <2>4, NewDialogAsks
  <2>3. Wellformed(dialogs')
    BY <1>1, <1>2, <1>4 DEF Wellformed, AsksForLock
  <2> QED
    BY <1>4, <2>1, <2>2, <2>3 DEF Stay, Passes, OnlyOwn, OthersKeep, r
<1> QED
  BY <1>3, <1>4 DEF Ask

LEMMA GoTime ==
  ASSUME PlainTimedBlocks, NEW s \in ServiceState, OnTime(s, page), DialogsOK(dialogs),
         Wellformed(dialogs), NEW to \in UnitOrNone, NEW force \in BOOLEAN, Go(s, to, force),
         page \in Page, Shown(s, page)
  PROVE  Passes(s, to) /\ Wellformed(dialogs') /\ OneAsks(dialogs', tc')
<1>0. tc' \in ServiceState
  BY GoLands DEF Lands, Step
<1>1. Wellformed(Superseded) /\ \A r : OneAsks(Superseded, r)
  BY SupersededTime
<1>2. CASE Stay(s) /\ dialogs' = Superseded
  BY <1>1, <1>2, SameTimesSpend DEF Stay, Passes
<1>3. CASE Activate(LeftUnchecked(s), to, page) /\ dialogs' = Superseded
  <2> DEFINE r == LeftUnchecked(s)
  <2>1. /\ r \in ServiceState /\ OnTime(r, page) /\ r.timers = s.timers
        /\ r.timerId # NoTimer => r.state = "ERROR"
        /\ r.timerId = NoTimer \/ r.timerId = s.timerId
    BY LeftUncheckedTime, LeftUncheckedStep, InterruptTimerFacts DEF Step, LeftUnchecked
  <2> HIDE DEF r
  <2>2. /\ OnTime(tc', page') /\ Spends(r, tc') /\ OthersKeep(r, to, tc')
        /\ page' = page \/ page' = "unit"
    BY <1>3, <2>1, ActivateTime DEF r
  <2>3. OthersKeep(s, to, tc') /\ Spends(s, tc')
    BY <1>0, <2>1, <2>2, SameTimesSpend, ThenOpens
  <2> QED
    BY <1>1, <1>3, <2>2, <2>3 DEF Passes
<1>4. CASE Ask(s, to, FALSE)
  BY <1>4, AskTime
<1>5. CASE Checked(s, force) /\ Activate(SolveLeave(s, to), to, page) /\ dialogs' = Superseded
  <2> DEFINE r == SolveLeave(s, to)
  <2>1. /\ r \in ServiceState /\ OnTime(r, page) /\ Spends(s, r) /\ OnlyOwn(s, r)
        /\ r.timerId # NoTimer => r.timerId = s.timerId /\ TimerOfUnit(to) = s.timerId
        /\ TimerOfUnit(to) = s.timerId => r.timers = s.timers
    BY <1>5, SolveLeaveTime DEF Checked, FreeToLeave
  <2> HIDE DEF r
  <2>2. /\ OnTime(tc', page') /\ Spends(r, tc') /\ OthersKeep(r, to, tc')
        /\ page' = page \/ page' = "unit"
    BY <1>5, <2>1, ActivateTime DEF r
  <2>3. tc' \in ServiceState /\ (r.timerId # NoTimer => r.timers = s.timers)
    BY <1>0, <2>1
  <2>4. OthersKeep(s, to, tc') /\ Spends(s, tc')
    BY <2>1, <2>2, <2>3, ThenOpens
  <2> QED
    BY <1>1, <1>5, <2>2, <2>4 DEF Passes
<1> QED
  BY <1>2, <1>3, <1>4, <1>5 DEF Go

LEMMA GoToUnitTime ==
  ASSUME PlainTimedBlocks, NEW s \in ServiceState, OnTime(s, page), DialogsOK(dialogs),
         Wellformed(dialogs), NEW u \in Unit, NEW force \in BOOLEAN, GoToUnit(s, u, force),
         page \in Page, Shown(s, page)
  PROVE  Passes(s, u) /\ Wellformed(dialogs') /\ OneAsks(dialogs', tc')
<1>1. Wellformed(Superseded) /\ \A r : OneAsks(Superseded, r)
  BY SupersededTime
<1>2. CASE page = "unit" /\ u = s.current /\ Stay(Open(s, u)) /\ dialogs' = Superseded
  <2>1. s.timerId # NoTimer => TimerOfUnit(u) = s.timerId
    BY <1>2 DEF OnTime
  <2>2. OnTime(Open(s, u), "unit") /\ Spends(s, Open(s, u)) /\ OthersKeep(s, u, Open(s, u))
    BY <2>1, OpenTime
  <2> QED
    BY <1>1, <1>2, <2>2 DEF Stay, Passes
<1>3. CASE Go(s, u, force)
  BY <1>3, GoTime DEF UnitOrNone
<1> QED
  BY <1>2, <1>3 DEF GoToUnit

LEMMA SetStateTime ==
  ASSUME NEW s \in ServiceState, NEW state \in State, NEW p, OnTime(s, p),
         s.state # "ERROR" \/ state = "ERROR"
  PROVE  LET r == SetState(s, state) IN
         OnTime(r, p) /\ r.timers = s.timers /\ r.timerId = s.timerId
<1> DEFINE r == SetState(s, state)
<1>1. r.state = state /\ r.current = s.current /\ SameLocks(s, r) /\ SameTimes(s, r)
  BY SetStateFacts
<1> HIDE DEF r
<1>2. \A u : Locked(s, u) <=> Locked(r, u)
  BY <1>1, LockedAlike
<1>3. OnTime(r, p)
  BY <1>1, <1>2, OnTimeStays DEF OnTime, SameLocks, SameTimes
<1> QED
  BY <1>1, <1>3 DEF SameTimes, r

LEMMA TerminateTime ==
  ASSUME NEW s \in ServiceState, NEW p, OnTime(s, p)
  PROVE  LET r == Terminate(s) IN
         OnTime(r, p) /\ r.timers = s.timers /\ (r.timerId = NoTimer \/ r.timerId = s.timerId)
<1> DEFINE r == Terminate(s)
<1>1. /\ r.timers = s.timers /\ SameLocks(s, r)
      /\ s.state # "TERMINATED" => r.timerId = NoTimer
      /\ s.state = "TERMINATED" => r = s
  BY TerminateFacts
<1> HIDE DEF r
<1>2. s.state # "TERMINATED" => OnTime(r, p)
  BY <1>1, OnTimeWithoutTimer DEF OnTime, SameLocks
<1> QED
  BY <1>1, <1>2 DEF r

LEMMA OneAsksStays ==
  ASSUME NEW D, NEW s, OneAsks(D, s), NEW E \in SUBSET D, NEW r,
         r.timerId = NoTimer \/ r.timerId = s.timerId
  PROVE  OneAsks(E, r)
<1>1. \A d, e \in E : d.live /\ e.live => d = e
  BY Zenon DEF OneAsks
<1>2. CASE r.timerId = NoTimer
  BY <1>1, <1>2, Zenon DEF OneAsks
<1>3. CASE r.timerId = s.timerId
  <2>1. \A d \in D : d.live /\ r.timerId # NoTimer =>
          \/ d.asks = "timer" /\ TimerOfUnit(d.to) # r.timerId /\ Leave[r.timerId] = "confirm"
          \/ d.asks = "lock" /\ TimerOfUnit(d.to) = r.timerId
    BY <1>3 DEF OneAsks
  <2> QED
    BY <1>1, <2>1, Zenon DEF OneAsks
<1> QED
  BY <1>2, <1>3

----------------------------------------------------------------------------------
\* What every action but the loading of the test does to the times.
Flows == Timely' /\ Spends(tc, tc')

LEMMA PassesFlows ==
  ASSUME NEW to, Passes(tc, to), Wellformed(dialogs'), OneAsks(dialogs', tc')
  PROVE  Flows
  BY DEF Passes, Flows, Timely, OnTime, OneAsks, Wellformed

\* The router is left alone, and the timer runs on or stops.
LEMMA InPlaceFlows ==
  ASSUME Timely, OnTime(tc', page), Spends(tc, tc'), UNCHANGED <<page, dialogs>>,
         tc'.timerId = NoTimer \/ tc'.timerId = tc.timerId
  PROVE  Flows
<1>1. OneAsks(dialogs, tc')
  BY OneAsksStays DEF Timely
<1>2. Wellformed(dialogs)
  BY DEF Timely
<1> QED
  BY <1>1, <1>2 DEF Flows, Timely, OnTime, OneAsks, Wellformed

LEMMA TimelyFacts ==
  ASSUME Inv, Timely
  PROVE  /\ tc \in ServiceState /\ page \in Page /\ Shown(tc, page)
         /\ OnTime(tc, page) /\ DialogsOK(dialogs) /\ Wellformed(dialogs) /\ OneAsks(dialogs, tc)
  BY DEF Inv, RouterOK, Kept, Timely

LEMMA FollowRedirectFlows ==
  ASSUME PlainTimedBlocks, Inv, Timely, FollowRedirect PROVE Flows
<1>1. redirect \in UnitOrNone
  BY DEF Inv, RouterOK
<1> QED
  BY <1>1, TimelyFacts, GoTime, PassesFlows DEF FollowRedirect

LEMMA SelectUnitFlows ==
  ASSUME PlainTimedBlocks, Inv, Timely, NEW u \in Unit, SelectUnit(u) PROVE Flows
  BY TimelyFacts, GoToUnitTime, PassesFlows DEF SelectUnit

LEMMA StandingFlows ==
  ASSUME Inv, Timely, UNCHANGED <<tc, page, dialogs>> PROVE Flows
  BY TimelyFacts, InPlaceFlows, SameTimesSpend

LEMMA SubmitCodeFlows ==
  ASSUME PlainTimedBlocks, Inv, Timely, SubmitCode PROVE Flows
<1> DEFINE t == LockedThrough(tc, tc.current)
           s == ClearCodeLock(tc, t)
<1>1. tc.current \in Unit
  BY DEF SubmitCode, Inv, Kept, ServiceState, UnitOrNone
<1>2. t \in Testlet
  BY <1>1, LockedThroughType DEF SubmitCode, LockedByCode, Inv, Kept
<1>3. tc' = RunUnit(s) /\ page = "unit" /\ page' = page /\ dialogs = {} /\ dialogs' = dialogs
      /\ Locked(tc, tc.current)
  BY DEF SubmitCode, Active, LockedByCode
<1> HIDE DEF t
<1>4. /\ s \in ServiceState /\ SameUnit(tc, s) /\ SameTimes(tc, s)
      /\ s.show = tc.show /\ s.time = tc.time
  BY <1>2, TimelyFacts, ClearCodeLockStep, ClearCodeLockFacts DEF Step
<1> HIDE DEF s
<1>5. tc.timerId = NoTimer
  BY <1>3, TimelyFacts DEF OnTime
<1>6. OnTime(s, "unit")
  BY <1>4, <1>5, TimelyFacts, OnTimeWithoutTimer DEF OnTime, SameTimes
<1>7. OnTime(tc', "unit") /\ Spends(s, tc')
  BY <1>1, <1>3, <1>4, <1>5, <1>6, RunUnitTime DEF SameUnit, SameTimes
<1>8. Spends(tc, tc')
  BY <1>4, <1>7 DEF Spends, SameTimes
<1> QED
  BY <1>3, <1>7, <1>8 DEF Flows, Timely, OnTime, OneAsks, Wellformed

LEMMA ConfirmEndTime ==
  ASSUME NEW s \in ServiceState, OnTime(s, page), s.timerId = NoTimer \/ s.state = "ERROR",
         NEW open, Wellformed(open), \A d \in open : d.live = FALSE, ConfirmEnd(s, open)
  PROVE  /\ OnTime(tc', page') /\ Wellformed(dialogs') /\ OneAsks(dialogs', tc')
         /\ tc'.timers = s.timers
<1> DEFINE end == [asks |-> "end", unit |-> s.current, to |-> NoUnit,
                   exit |-> TRUE, endsTest |-> TRUE, live |-> TRUE]
<1>1. \A r : OneAsks(open, r)
  BY Zenon DEF OneAsks
<1>2. CASE tc' = s /\ page' = "starter" /\ dialogs' = open
  BY <1>1, <1>2 DEF OnTime
<1>3. CASE BeginEnding(s) /\ dialogs' = open
  BY <1>1, <1>3, TerminateTime DEF BeginEnding, Stay
<1>4. CASE IsTestOngoing(s) /\ Stay(s) /\ dialogs' = open \cup {end}
  <2>1. s.timerId = NoTimer
    BY <1>4 DEF IsTestOngoing
  <2>2. end.asks # "lock" /\ end.endsTest /\ end.exit /\ end.to = NoUnit
    BY Zenon
  <2> HIDE DEF end
  <2>3. Wellformed(dialogs')
    BY <1>4, <2>2 DEF Wellformed
  <2>4. OneAsks(open \cup {end}, s)
    BY <2>1, NewDialogAsks
  <2> QED
    BY <1>4, <2>3, <2>4 DEF Stay
<1> QED
  BY <1>2, <1>3, <1>4 DEF ConfirmEnd

LEMMA RequestTestEndFlows ==
  ASSUME PlainTimedBlocks, Inv, Timely, RequestTestEnd PROVE Flows
<1>1. NoUnit \in UnitOrNone /\ TimerOfUnit(NoUnit) = NoTimer /\ Wellformed({})
      /\ dialogs = {}
  BY DEF UnitOrNone, TimerOfUnit, Wellformed, RequestTestEnd
<1>2. ASSUME OnTime(tc', page'), Wellformed(dialogs'), OneAsks(dialogs', tc'), Spends(tc, tc')
      PROVE  Flows
  BY <1>2 DEF Flows, Timely, OnTime, OneAsks, Wellformed
<1>3. CASE ~Checked(tc, FALSE) /\ ConfirmEnd(tc, {})
  <2>1. tc.timerId = NoTimer \/ tc.state = "ERROR"
    BY <1>3, TimelyFacts DEF Checked, FreeToLeave, OnTime
  <2> QED
    BY <1>1, <1>2, <1>3, <2>1, TimelyFacts, ConfirmEndTime, SameTimesSpend
<1>4. CASE Stay(tc) /\ UNCHANGED <<dialogs, ending>>
  BY <1>4, StandingFlows DEF Stay
<1>5. CASE Ask(tc, NoUnit, TRUE)
  BY <1>1, <1>5, TimelyFacts, AskTime, PassesFlows
<1>6. CASE Checked(tc, FALSE) /\ ConfirmEnd(SolveLeave(tc, NoUnit), {})
  <2> DEFINE s == SolveLeave(tc, NoUnit)
  <2>1. /\ s \in ServiceState /\ OnTime(s, page) /\ Spends(tc, s) /\ s.timerId = NoTimer
    BY <1>1, <1>6, TimelyFacts, SolveLeaveTime DEF Checked, FreeToLeave
  <2> HIDE DEF s
  <2>2. OnTime(tc', page') /\ Wellformed(dialogs') /\ OneAsks(dialogs', tc') /\ tc'.timers = s.timers
    BY <1>1, <1>6, <2>1, ConfirmEndTime DEF s
  <2> QED
    BY <1>2, <2>1, <2>2 DEF Spends
<1> QED
  BY <1>3, <1>4, <1>5, <1>6 DEF RequestTestEnd

\* What a confirmed dialog does to the times.
LEMMA OnConfirmedTime ==
  ASSUME PlainTimedBlocks, Inv, Timely, NEW d \in dialogs
  PROVE  LET s == OnConfirmed(d) IN
         /\ s \in ServiceState /\ OnTime(s, page)
         /\ s.state = tc.state /\ s.current = tc.current
         /\ Spends(tc, s) /\ OnlyOwn(tc, s)
         /\ s.timerId = NoTimer \/ s.timerId = tc.timerId
         /\ d.asks = "timer" => s.timerId = NoTimer
         /\ d.asks # "timer" \/ tc.timerId = NoTimer => s.timers = tc.timers
<1>1. d \in Dialog /\ (d.asks = "lock" => d.unit \in Unit /\ ParentOf[d.unit] \in LockConfirm)
  BY DEF Inv, DialogsOK, Dialog, UnitOrNone, Timely, Wellformed
<1>2. CASE d.asks = "timer"
  <2>1. OnConfirmed(d) = CancelTimer(tc)
    BY <1>2 DEF OnConfirmed
  <2>2. tc.timerId = NoTimer => CancelTimer(tc) = tc
    BY DEF CancelTimer
  <2> QED
    BY <1>2, <2>1, <2>2, TimelyFacts, CancelTimerStep, CancelTimerTime, CancelTimerFacts
       DEF Step, SameUnit
<1>3. CASE d.asks = "lock"
  <2>1. OnConfirmed(d) = LeaveLock(tc, d.unit)
    BY <1>3 DEF OnConfirmed
  <2> DEFINE s == LeaveLock(tc, d.unit)
  <2>2. s \in ServiceState /\ OnTime(s, page) /\ SameTimes(tc, s) /\ SameUnit(tc, s)
    BY <1>1, <1>3, TimelyFacts, LeaveLockStep, LeaveLockTime, LeaveLockFacts DEF Step
  <2> HIDE DEF s
  <2> QED
    BY <1>3, <2>1, <2>2, TimelyFacts, SameTimesSpend DEF SameTimes, SameUnit, s
<1>4. CASE d.asks \notin {"timer", "lock"}
  BY <1>4, TimelyFacts, SameTimesSpend DEF OnConfirmed
<1> QED
  BY <1>2, <1>3, <1>4

LEMMA LoneDialog ==
  ASSUME Inv, Timely, NEW d \in dialogs, d.live
  PROVE  \A e \in dialogs \ {d} : e.live = FALSE
<1> SUFFICES ASSUME NEW e \in dialogs, e # d PROVE e.live = FALSE
  OBVIOUS
<1>1. e.live \in BOOLEAN
  BY DEF Inv, DialogsOK, Dialog
<1>2. ~e.live
  BY Zenon DEF Timely, OneAsks
<1> QED
  BY <1>1, <1>2

LEMMA AnswerFlows ==
  ASSUME PlainTimedBlocks, Inv, Timely, NEW d \in dialogs, AnswerStay(d) \/ AnswerLeave(d)
  PROVE  Flows
<1> DEFINE others == dialogs \ {d}
           s == OnConfirmed(d)
<1>0. ASSUME OnTime(tc', page'), Wellformed(dialogs'), OneAsks(dialogs', tc'), Spends(tc, tc')
      PROVE  Flows
  BY <1>0 DEF Flows, Timely, OnTime, OneAsks, Wellformed
<1>1. d \in Dialog /\ Wellformed(others) /\ d.to \in UnitOrNone
  BY DEF Inv, DialogsOK, Dialog, Timely, Wellformed
<1>2. /\ s \in ServiceState /\ OnTime(s, page)
      /\ s.state = tc.state /\ s.current = tc.current
      /\ Spends(tc, s) /\ OnlyOwn(tc, s)
      /\ s.timerId = NoTimer \/ s.timerId = tc.timerId
      /\ d.asks = "timer" => s.timerId = NoTimer
      /\ d.asks # "timer" \/ tc.timerId = NoTimer => s.timers = tc.timers
  BY OnConfirmedTime
<1> HIDE DEF s
<1>3. ASSUME NEW r, r.timerId = NoTimer \/ r.timerId = s.timerId PROVE OneAsks(others, r)
  BY <1>2, <1>3, TimelyFacts, OneAsksStays
<1>4. ASSUME d.live PROVE \A e \in others : e.live = FALSE
  BY <1>4, LoneDialog
<1>5. CASE AnswerStay(d)
  <2>1. OneAsks(others, tc)
    BY TimelyFacts, OneAsksStays
  <2> QED
    BY <1>0, <1>1, <1>5, <2>1, TimelyFacts, SameTimesSpend DEF AnswerStay
<1>6. CASE BeginEnding(s) /\ dialogs' = others
  <2>1. tc' = Terminate(s) /\ page' = page
    BY <1>6 DEF BeginEnding, Stay
  <2>2. OnTime(tc', page) /\ tc'.timers = s.timers /\ (tc'.timerId = NoTimer \/ tc'.timerId = s.timerId)
    BY <1>2, <2>1, TerminateTime
  <2> QED
    BY <1>0, <1>1, <1>2, <1>3, <1>6, <2>1, <2>2 DEF Spends
<1>7. CASE ~d.endsTest /\ d.exit /\ d.live /\ ConfirmEnd(s, others)
  <2>1. s.timerId = NoTimer
    <3>1. d.asks # "end" /\ d.to = NoUnit
      BY <1>7 DEF Timely, Wellformed
    <3>2. tc.timerId # NoTimer => d.asks = "timer"
      BY <1>7, <3>1 DEF Timely, OneAsks, TimerOfUnit
    <3> QED
      BY <1>2, <3>2
  <2>2. OnTime(tc', page') /\ Wellformed(dialogs') /\ OneAsks(dialogs', tc') /\ tc'.timers = s.timers
    BY <1>1, <1>2, <1>4, <1>7, <2>1, ConfirmEndTime
  <2> QED
    BY <1>0, <1>2, <2>2 DEF Spends
<1>8. CASE d.live /\ Activate(s, d.to, page) /\ dialogs' = others
  <2>1. tc.timerId # NoTimer =>
          \/ d.asks = "timer" /\ TimerOfUnit(d.to) # tc.timerId
          \/ d.asks = "lock" /\ TimerOfUnit(d.to) = tc.timerId
    BY <1>8 DEF Timely, OneAsks
  <2>2. s.timerId # NoTimer => TimerOfUnit(d.to) = s.timerId
    BY <1>2, <2>1
  <2>3. OnTime(tc', page') /\ Spends(s, tc') /\ OthersKeep(s, d.to, tc')
    BY <1>1, <1>2, <1>8, <2>2, ActivateTime
  <2>4. TimerOfUnit(d.to) = tc.timerId \/ s.timerId # NoTimer => s.timers = tc.timers
    BY <1>2, <2>1
  <2>5. tc' \in ServiceState /\ tc \in ServiceState
    <3>1. Shown(s, page)
      BY <1>2, TimelyFacts DEF Shown
    <3> QED
      BY <1>1, <1>2, <1>8, <3>1, TimelyFacts, ActivateLands DEF Lands, Step
  <2>6. Spends(tc, tc')
    BY <1>2, <2>3, <2>4, <2>5, ThenOpens
  <2>7. OneAsks(others, tc')
    BY <1>4, <1>8, Zenon DEF OneAsks
  <2> QED
    BY <1>0, <1>1, <1>8, <2>3, <2>6, <2>7
<1>9. CASE Stay(s) /\ dialogs' = others
  BY <1>0, <1>1, <1>2, <1>3, <1>9 DEF Stay
<1> QED
  BY <1>5, <1>6, <1>7, <1>8, <1>9 DEF AnswerLeave, s

LEMMA ReportProgressFlows ==
  ASSUME Inv, Timely, NEW done \in BOOLEAN, ReportProgress(done) PROVE Flows
<1> DEFINE complete == IF done THEN tc.complete \cup {tc.current} ELSE tc.complete \ {tc.current}
<1>1. tc' = [tc EXCEPT !.complete = complete, !.testState.complete = complete]
  BY DEF ReportProgress
<1>2. /\ SameLocks(tc, tc') /\ SameTimes(tc, tc')
      /\ tc'.current = tc.current /\ tc'.state = tc.state
  <2> HIDE DEF complete
  <2> QED
    BY <1>1, TimelyFacts DEF ServiceState, SameLocks, SameTimes
<1>3. \A u : Locked(tc, u) <=> Locked(tc', u)
  BY <1>2, LockedAlike
<1>4. OnTime(tc', page)
  BY <1>2, <1>3, TimelyFacts, OnTimeStays DEF OnTime, SameLocks, SameTimes
<1> QED
  BY <1>2, <1>4, TimelyFacts, InPlaceFlows, SameTimesSpend DEF ReportProgress, SameTimes

\* No condition hides the block of a running timer.
LEMMA EvaluateConditionsFlows ==
  ASSUME PlainTimedBlocks, Inv, Timely, NEW shown \in SUBSET Conditional,
         EvaluateConditions(shown)
  PROVE  Flows
<1>1. /\ SameTimes(tc, tc') /\ tc'.current = tc.current /\ tc'.state = tc.state
      /\ tc'.show = Conditional \ shown /\ tc'.time = tc.time /\ tc'.code = tc.code
      /\ tc'.afterLeave = tc.afterLeave
  BY TimelyFacts, UpdateAllShowLocksFacts DEF EvaluateConditions, SameUnit
<1>2. ASSUME tc.timerId # NoTimer PROVE ~Locked(tc', tc.current)
  <2> DEFINE t == ParentOf[tc.current]
  <2>1. tc.current \in UnitOrNone /\ TimerOfUnit(tc.current) # NoTimer /\ ~Locked(tc, tc.current)
    BY <1>2, TimelyFacts DEF ServiceState, OnTime
  <2>2. t \in Testlet /\ TimerOf(t) # NoTimer
    BY <2>1, PlainTimer
  <2>3. Above[t] \cap Conditional = {}
    BY <2>2 DEF PlainTimedBlocks
  <2>4. LocksAbove(tc', tc.current) \subseteq LocksAbove(tc, tc.current)
    BY <1>1, <2>3 DEF LocksAbove
  <2> QED
    BY <2>1, <2>4 DEF Locked
<1>3. OnTime(tc', page)
  BY <1>1, <1>2, TimelyFacts, OnTimeStays DEF OnTime, SameTimes
<1> QED
  BY <1>1, <1>3, TimelyFacts, InPlaceFlows, SameTimesSpend DEF EvaluateConditions, SameTimes

LEMMA ProcessRequestFlows ==
  ASSUME PlainTimedBlocks, Inv, Timely, ProcessRequest PROVE Flows
<1> DEFINE r == Head(requests)
<1>1. r.force \in BOOLEAN
  <2>1. r \in Request
    BY DEF ProcessRequest, Inv, RouterOK
  <2> QED
    BY <2>1 DEF Request
<1>2. CASE tc' = LeftUnchecked(tc) /\ page' = "status" /\ dialogs' = Superseded
  <2>1. OnTime(tc', page') /\ tc'.timers = tc.timers
    BY <1>2, TimelyFacts, LeftUncheckedTime
  <2>2. Wellformed(dialogs') /\ OneAsks(dialogs', tc')
    BY <1>2, TimelyFacts, SupersededTime
  <2> QED
    BY <2>1, <2>2, TimelyFacts, SameTimesSpend DEF Flows, Timely, OnTime, OneAsks, Wellformed
<1>3. ASSUME NEW to \in UnitOrNone, Go(tc, to, r.force) PROVE Flows
  BY <1>1, <1>3, TimelyFacts, GoTime, PassesFlows
<1>4. /\ tc.navigation.next \in UnitOrNone /\ tc.navigation.previous \in UnitOrNone
      /\ tc.navigation.first \in UnitOrNone /\ tc.navigation.last \in UnitOrNone
  BY TimelyFacts DEF ServiceState, NavigationTargets
<1> QED
  BY <1>2, <1>3, <1>4 DEF ProcessRequest, CarryOut

\* The block of a running timer has no time lock: its time goes down freely.
LEMMA TickFlows ==
  ASSUME Inv, Timely, Tick PROVE Flows
<1> DEFINE left == tc.timers[tc.timerId] - 1
<1>1. tc.timerId \in Testlet /\ left \in Int /\ tc.timers \in [Testlet -> Int]
      /\ tc.timers[tc.timerId] > 0 /\ tc.time \subseteq Testlet
  BY TimelyFacts DEF Tick, ServiceState, Times
<1>2. tc' = SetTimeLeft(tc, tc.timerId, left)
  BY DEF Tick
<1>3. /\ SameUnit(tc, tc') /\ SameLocks(tc, tc') /\ tc'.timerId = tc.timerId
      /\ tc'.timers = [tc.timers EXCEPT ![tc.timerId] = left]
  <2> HIDE DEF left
  <2> QED
    BY <1>1, <1>2, TimelyFacts, SetTimeLeftFacts
<1>4. tc.timerId \notin tc.time
  BY <1>1, TimelyFacts DEF OnTime
<1>5. \A t \in tc'.time : TimerOf(t) = t /\ tc'.timers[t] <= 0
  <2> HIDE DEF left
  <2> QED
    BY <1>1, <1>3, <1>4, TimelyFacts DEF OnTime, SameLocks
<1>6. \A u : Locked(tc, u) <=> Locked(tc', u)
  BY <1>3, LockedAlike
<1>7. OnTime(tc', page)
  BY <1>3, <1>5, <1>6, TimelyFacts DEF OnTime, SameUnit, SameLocks
<1>8. Spends(tc, tc')
  BY <1>1, <1>3 DEF Spends
<1> QED
  BY <1>3, <1>7, <1>8, InPlaceFlows DEF Tick

LEMMA TimerEndedFlows ==
  ASSUME PlainTimedBlocks, Inv, Timely, TimerEnded PROVE Flows
  BY TimelyFacts, CloseTimedBlockTime, InPlaceFlows DEF TimerEnded

LEMMA PauseFlows ==
  ASSUME Inv, Timely, Pause PROVE Flows
<1> DEFINE s == InterruptTimer(tc)
<1>1. /\ s \in ServiceState /\ OnTime(s, page) /\ s.timers = tc.timers /\ s.timerId = NoTimer
      /\ s.state = tc.state
  BY TimelyFacts, InterruptTimerStep, InterruptTimerTime, InterruptTimerFacts DEF Step, SameUnit
<1>2. tc' = SetState(s, "PAUSED") /\ tc.state # "ERROR" /\ UNCHANGED <<page, dialogs>>
  BY DEF Pause, Commanded, IsTestOngoing
<1> HIDE DEF s
<1>3. OnTime(tc', page) /\ tc'.timers = tc.timers /\ tc'.timerId = NoTimer
  BY <1>1, <1>2, SetStateTime DEF State
<1> QED
  BY <1>2, <1>3, TimelyFacts, InPlaceFlows, SameTimesSpend

LEMMA ResumeFlows ==
  ASSUME PlainTimedBlocks, Inv, Timely, Resume PROVE Flows
<1> DEFINE s == SetState(tc, "RUNNING")
<1>1. /\ s \in ServiceState /\ OnTime(s, page) /\ s.timers = tc.timers /\ s.timerId = tc.timerId
      /\ Shown(s, page)
  <2>1. tc.state # "ERROR"
    BY DEF Resume, Commanded, IsTestOngoing
  <2> QED
    BY <2>1, TimelyFacts, SetStateStep, SetStateTime DEF Step, State, Shown
<1> HIDE DEF s
<1>2. CASE tc.current # NoUnit /\ GoToUnit(s, tc.current, TRUE)
  <2>1. tc.current \in Unit
    BY <1>2, TimelyFacts DEF ServiceState, UnitOrNone
  <2>2. Passes(s, tc.current) /\ Wellformed(dialogs') /\ OneAsks(dialogs', tc')
    BY <1>1, <1>2, <2>1, TimelyFacts, GoToUnitTime
  <2>3. Passes(tc, tc.current)
    BY <1>1, <2>2 DEF Passes, Spends, OthersKeep
  <2> QED
    BY <2>2, <2>3, PassesFlows
<1>3. CASE tc' = s /\ UNCHANGED <<page, dialogs>>
  BY <1>1, <1>3, TimelyFacts, InPlaceFlows, SameTimesSpend
<1> QED
  BY <1>2, <1>3 DEF Resume, s

LEMMA TerminateCommandFlows ==
  ASSUME Inv, Timely, NEW lock \in BOOLEAN, TerminateCommand(lock) PROVE Flows
  BY TimelyFacts, TerminateTime, InPlaceFlows, SameTimesSpend DEF TerminateCommand

LEMMA ErrorOutFlows ==
  ASSUME Inv, Timely, ErrorOut PROVE Flows
  BY TimelyFacts, SetStateTime, InPlaceFlows, SameTimesSpend DEF ErrorOut, State

\* A goto closes the block it leaves, and gives time only to a block that has none left.
LEMMA PrepareGotoTime ==
  ASSUME PlainTimedBlocks, NEW s \in ServiceState, NEW p, OnTime(s, p), NEW u \in Unit,
         NEW given \in GivenTime \cup {NotANumber}
  PROVE  LET r == PrepareGoto(s, u, given) IN
         /\ r \in ServiceState /\ OnTime(r, p)
         /\ r.current = s.current /\ r.state = s.state
         /\ Spends(s, r)
         /\ \A x \in Testlet : s.timers[x] > 0 /\ r.timers[x] # s.timers[x]
                                 => x # r.timerId /\ x # TimerOfUnit(u)
<1> DEFINE t == ParentOf[u]
           c == CancelTimer(s)
           restored == RestoreTime(c, t, given)
           timed == IF s.current = NoUnit \/ TimerOf(t) # TimerOfUnit(s.current)
                    THEN restored ELSE s
           open == [timed EXCEPT !.afterLeave = @ \ {t}]
           unlocked == UpdateNavigationState(open)
           opened == [unlocked EXCEPT !.lockedUnits = @ \ {u}]
           r == ClearCodeLock(opened, t)
<1>1. t \in Testlet /\ given \in Int /\ TimerOfUnit(u) = TimerOf(t) /\ u \in UnitOrNone
  BY BookletAssumption, BoundAssumption
     DEF NotANumber, TimerOfUnit, Unit, NoUnit, UnitOrNone
<1>2. PrepareGoto(s, u, given) = r
  BY DEF PrepareGoto
<1> HIDE DEF t
<1>3. /\ c \in ServiceState /\ OnTime(c, p) /\ c.timerId = NoTimer /\ Spends(s, c) /\ OnlyOwn(s, c)
      /\ SameUnit(s, c)
  BY CancelTimerStep, CancelTimerTime, CancelTimerFacts DEF Step
<1> HIDE DEF c
<1>4. /\ restored \in ServiceState /\ SameUnit(c, restored) /\ restored.show = c.show
      /\ restored.time \subseteq c.time /\ restored.timerId = c.timerId
      /\ \A x \in Testlet : x # t \/ MaxTime[x] = 0 \/ c.timers[x] > 0
                              => restored.timers[x] = c.timers[x]
      /\ restored = c \/ restored.time = c.time \ {t}
  <2>1. restored \in ServiceState
    BY <1>1, <1>3, RestoreTimeStep DEF Step
  <2> QED
    BY <1>1, <1>3, <2>1, RestoreTimeFacts
<1> HIDE DEF restored
<1>5. /\ timed \in ServiceState /\ OnTime(timed, p) /\ SameUnit(s, timed) /\ Spends(s, timed)
      /\ \A x \in Testlet : s.timers[x] > 0 /\ timed.timers[x] # s.timers[x]
                              => x # timed.timerId /\ x # TimerOfUnit(u)
  <2>1. CASE s.current = NoUnit \/ TimerOf(t) # TimerOfUnit(s.current)
    <3>1. \A x \in restored.time : TimerOf(x) = x /\ restored.timers[x] <= 0
      <4>1. c.time \subseteq Testlet
        BY <1>3 DEF ServiceState
      <4> QED
        BY <1>3, <1>4, <4>1 DEF OnTime
    <3>2. OnTime(restored, p)
      BY <1>3, <1>4, <3>1, OnTimeWithoutTimer DEF OnTime
    <3>3. s.timerId # NoTimer => TimerOf(t) # s.timerId
      BY <2>1 DEF OnTime
    <3>4. ASSUME NEW x \in Testlet, s.timers[x] > 0
          PROVE  restored.timers[x] = c.timers[x] /\ (x = s.timerId => x # TimerOf(t))
      <4>1. CASE x = s.timerId
        <5>1. x # NoTimer
          BY BookletAssumption
        <5>2. TimerOf(t) # x
          BY <3>3, <4>1, <5>1
        <5>3. TimerOf(x) = x
          <6>1. TimerOfUnit(s.current) = x /\ s.current \in UnitOrNone
            BY <4>1, <5>1 DEF OnTime, ServiceState
          <6> QED
            BY <5>1, <6>1, PlainTimer
        <5> QED
          BY <1>4, <5>2, <5>3
      <4>2. CASE x # s.timerId
        BY <1>3, <1>4, <3>4, <4>2 DEF OnlyOwn
      <4> QED
        BY <4>1, <4>2
    <3>5. Spends(s, restored)
      BY <1>3, <3>4 DEF Spends
    <3>6. ASSUME NEW x \in Testlet, s.timers[x] > 0, restored.timers[x] # s.timers[x]
          PROVE  x # restored.timerId /\ x # TimerOfUnit(u)
      <4>1. x = s.timerId
        BY <1>3, <3>4, <3>6 DEF OnlyOwn
      <4> QED
        BY <1>1, <1>3, <1>4, <3>4, <3>6, <4>1, BookletAssumption
    <3>7. timed = restored
      BY <2>1
    <3> HIDE DEF timed
    <3> QED
      BY <1>3, <1>4, <3>2, <3>5, <3>6, <3>7 DEF SameUnit
  <2>2. CASE ~(s.current = NoUnit \/ TimerOf(t) # TimerOfUnit(s.current))
    BY <2>2, SameTimesSpend DEF SameUnit
  <2> QED
    BY <2>1, <2>2
<1> HIDE DEF timed
<1>6. /\ open \in ServiceState /\ SameUnit(timed, open) /\ SameTimes(timed, open)
      /\ open.show = timed.show /\ open.time = timed.time /\ open.code = timed.code
      /\ open.afterLeave \subseteq timed.afterLeave
  BY <1>5 DEF ServiceState, SameUnit, SameTimes
<1> HIDE DEF open
<1>7. unlocked \in ServiceState /\ SameUnit(open, unlocked) /\ SameTimes(open, unlocked)
      /\ SameLocks(open, unlocked)
  BY <1>6, UpdateNavigationStateStep, UpdateNavigationStateFacts DEF Step
<1> HIDE DEF unlocked
<1>8. opened \in ServiceState /\ SameUnit(unlocked, opened) /\ SameTimes(unlocked, opened)
      /\ SameLocks(unlocked, opened)
  BY <1>7 DEF ServiceState, SameUnit, SameTimes, SameLocks
<1> HIDE DEF opened
<1>9. /\ r \in ServiceState /\ SameUnit(opened, r) /\ SameTimes(opened, r)
      /\ r.show = opened.show /\ r.time = opened.time /\ r.afterLeave = opened.afterLeave
      /\ r.code \subseteq opened.code
  BY <1>1, <1>8, ClearCodeLockStep, ClearCodeLockFacts DEF Step
<1> HIDE DEF r
<1>10. /\ r.state = timed.state /\ r.current = timed.current /\ SameTimes(timed, r)
       /\ r.show = timed.show /\ r.time = timed.time
       /\ r.afterLeave \subseteq timed.afterLeave /\ r.code \subseteq timed.code
  BY <1>6, <1>7, <1>8, <1>9 DEF SameUnit, SameTimes, SameLocks
<1>11. \A v : Locked(r, v) => Locked(timed, v)
  BY <1>10 DEF Locked, LocksAbove
<1>12. OnTime(r, p)
  BY <1>5, <1>10, <1>11, OnTimeStays DEF OnTime, SameTimes
<1> QED
  BY <1>2, <1>5, <1>9, <1>10, <1>12 DEF SameUnit, SameTimes, Spends

LEMMA GotoFlows ==
  ASSUME PlainTimedBlocks, Inv, Timely, NEW u \in Unit,
         NEW given \in GivenTime \cup {NotANumber}, Goto(u, given)
  PROVE  Flows
<1> DEFINE s == SetState(tc, "RUNNING")
           r == PrepareGoto(s, u, given)
<1>1. /\ s \in ServiceState /\ OnTime(s, page) /\ s.timers = tc.timers /\ s.timerId = tc.timerId
      /\ s.current = tc.current
  <2>1. tc.state # "ERROR"
    BY DEF Goto, Commanded, IsTestOngoing
  <2> QED
    BY <2>1, TimelyFacts, SetStateStep, SetStateTime, SetStateFacts DEF Step, State
<1>2. GoToUnit(r, u, TRUE)
  BY DEF Goto
<1> HIDE DEF s
<1>3. /\ r \in ServiceState /\ OnTime(r, page) /\ r.current = s.current /\ Spends(s, r)
      /\ \A x \in Testlet : s.timers[x] > 0 /\ r.timers[x] # s.timers[x]
                              => x # r.timerId /\ x # TimerOfUnit(u)
  BY <1>1, PrepareGotoTime
<1> HIDE DEF r
<1>4. Shown(r, page)
  BY <1>1, <1>3, TimelyFacts DEF Shown
<1>5. Passes(r, u) /\ Wellformed(dialogs') /\ OneAsks(dialogs', tc') /\ tc' \in ServiceState
  BY <1>2, <1>3, <1>4, TimelyFacts, GoToUnitTime, GoToUnitLands DEF Lands, Step
<1>6. Spends(s, tc')
  BY <1>1, <1>3, <1>5, SpendsOnOpening DEF Passes
<1> QED
  BY <1>1, <1>5, <1>6 DEF Flows, Timely, Passes, Spends, OnTime, OneAsks, Wellformed

LEMMA FinishEndingFlows ==
  ASSUME Inv, Timely, FinishEnding PROVE Flows
<1>1. OnTime(tc', page') /\ tc'.timers = tc.timers /\ dialogs' = {}
  BY TimelyFacts, LeftUncheckedTime DEF FinishEnding, LeaveEnded
<1> QED
  BY <1>1, TimelyFacts, SameTimesSpend DEF Flows, Timely, OnTime, OneAsks, Wellformed

\* A block that is locked at loading has a time limit, and no time was stored for it.
LEMMA RestoreLastStateTime ==
  ASSUME PlainTimedBlocks, NEW laststate \in TestState, NEW shown \in SUBSET Conditional
  PROVE  LET s == RestoreLastState(laststate, shown) IN
         (\A p : OnTime(s, p)) /\ s.timerId = NoTimer
<1> DEFINE s == RestoreLastState(laststate, shown)
<1>1. /\ s.show = Conditional \ shown /\ s.timerId = NoTimer /\ s.timers = laststate.timeLeft
      /\ s.time = {t \in Testlet : MaxTime[t] # 0 /\ laststate.timeLeft[t] = 0}
  BY DEF RestoreLastState, UpdateNavigationState
<1> HIDE DEF s
<1>2. ASSUME NEW t \in Testlet, MaxTime[t] # 0 PROVE TimerOf(t) = t
  <2> DEFINE timed == {a \in Above[t] : MaxTime[a] # 0}
  <2>1. t \in timed /\ timed \in SUBSET Above[t] /\ Above[t] \subseteq Testlet
    BY <1>2, BookletAssumption
  <2>2. Outermost(timed) \in timed
    <3> HIDE DEF timed
    <3> QED
      BY <2>1, OutermostExists
  <2>3. TimerOf(t) = Outermost(timed)
    BY <2>1 DEF TimerOf
  <2>4. TimerOf(t) # NoTimer
    BY <2>1, <2>2, <2>3, BookletAssumption
  <2> QED
    BY <2>4 DEF PlainTimedBlocks
<1>3. \A p : OnTime(s, p)
  BY <1>1, <1>2, OnTimeWithoutTimer
<1> QED
  BY <1>1, <1>3 DEF s

LEMMA LoadTimely ==
  ASSUME PlainTimedBlocks, Inv, NEW shown \in SUBSET Conditional, Load(shown)
  PROVE  Timely'
<1> DEFINE s == RestoreLastState(saved, shown)
           resumed == IF saved.unit = NoUnit THEN 1 ELSE saved.unit
<1>1. saved \in TestState
  BY DEF Inv, Kept, Held
<1>2. s \in ServiceState /\ (\A p : OnTime(s, p)) /\ s.timerId = NoTimer /\ s.state = "INIT"
  <2>1. s.state = "INIT"
    BY DEF RestoreLastState, UpdateNavigationState
  <2> QED
    BY <1>1, <2>1, RestoreLastStateType, RestoreLastStateTime
<1>3. resumed \in UnitOrNone
  BY <1>1, BookletAssumption DEF TestState, UnitOrNone, Unit
<1> HIDE DEF s, resumed
<1>4. ASSUME NEW state \in State
      PROVE  /\ SetState(s, state) \in ServiceState /\ OnTime(SetState(s, state), "loading")
             /\ SetState(s, state).timerId = NoTimer
  BY <1>2, <1>4, SetStateStep, SetStateTime DEF Step
<1>5. OnTime(tc', page')
  <2>1. CASE tc' = SetState(s, "PAUSED") /\ page' = "loading"
    BY <1>4, <2>1 DEF State
  <2>2. CASE Activate(SetState(s, "RUNNING"), resumed, "loading")
    <3> DEFINE r == SetState(s, "RUNNING")
    <3>1. r \in ServiceState /\ OnTime(r, "loading") /\ r.timerId = NoTimer
      BY <1>4 DEF State
    <3>2. Activate(r, resumed, "loading")
      BY <2>2
    <3> HIDE DEF r
    <3> QED
      BY <1>3, <3>1, <3>2, ActivateTime
  <2> QED
    BY <2>1, <2>2 DEF Load, s, resumed
<1> QED
  BY <1>5 DEF Load, Timely, OnTime, OneAsks, Wellformed

LEMMA InitTimely == PlainTimedBlocks /\ Init => Timely
<1> SUFFICES ASSUME PlainTimedBlocks, Init PROVE Timely
  OBVIOUS
<1>1. NewTestState \in TestState
  BY DEF NewTestState, TestState, State, UnitOrNone, Times, NotStarted
<1>2. OnTime(tc, page)
  BY <1>1, RestoreLastStateTime DEF Init
<1> QED
  BY <1>2 DEF Init, Timely, OneAsks, Wellformed

LEMMA NextFlows ==
  ASSUME PlainTimedBlocks, Inv, Timely, [Next]_vars
  PROVE  Timely' /\ (loads' = loads => Spends(tc, tc'))
<1>1. CASE UNCHANGED vars \/ SaveBuffers \/ \E target \in RelativeTarget : RequestNavigation(target)
  BY <1>1, StandingFlows DEF vars, SaveBuffers, RequestNavigation, Flows
<1>2. ASSUME NEW shown \in SUBSET Conditional, Load(shown) PROVE Timely' /\ loads' # loads
  BY <1>2, LoadTimely, BoundAssumption DEF Load, Inv, RouterOK
<1>3. CASE /\ Next /\ ~SaveBuffers /\ ~\E target \in RelativeTarget : RequestNavigation(target)
           /\ ~\E shown \in SUBSET Conditional : Load(shown)
  BY <1>3, FollowRedirectFlows, SelectUnitFlows, SubmitCodeFlows, RequestTestEndFlows,
     AnswerFlows, ReportProgressFlows, EvaluateConditionsFlows, ProcessRequestFlows, TickFlows,
     TimerEndedFlows, PauseFlows, ResumeFlows, TerminateCommandFlows, GotoFlows, ErrorOutFlows,
     FinishEndingFlows DEF Next, Answer, Flows
<1> QED
  BY <1>1, <1>2, <1>3 DEF Next

LEMMA TimelyHolds == PlainTimedBlocks => (Spec => []Timely)
<1>1. ASSUME PlainTimedBlocks PROVE Spec => []Timely
  <2>1. Init => Timely
    BY <1>1, InitTimely
  <2>2. Inv /\ Timely /\ [Next]_vars => Timely'
    BY <1>1, NextFlows
  <2> QED
    BY <2>1, <2>2, InitInv, NextInv, PTL DEF Spec
<1> QED
  BY <1>1

\* In booklets of plain timed blocks a block carries the time lock only when its time is over.
THEOREM TimeLockCorrect ==
  ASSUME PlainTimedBlocks
  PROVE  Spec => []TimeLockMeansTimeIsOver
<1>1. Inv /\ Timely => TimeLockMeansTimeIsOver
  BY BookletAssumption DEF Inv, Kept, ServiceState, Timely, OnTime, TimeLockMeansTimeIsOver
<1> QED
  BY <1>1, InvHolds, TimelyHolds, PTL

\* In booklets of plain timed blocks the timer that runs while a unit is shown is the unit's.
THEOREM RunningTimerCorrect ==
  ASSUME PlainTimedBlocks
  PROVE  Spec => [](RunningTimerIsOfCurrentBlock /\ PausedHasNoTimer)
<1>1. Timely => RunningTimerIsOfCurrentBlock /\ PausedHasNoTimer
  BY DEF Timely, OnTime, RunningTimerIsOfCurrentBlock, PausedHasNoTimer
<1> QED
  BY <1>1, TimelyHolds, PTL

\* In booklets of plain timed blocks the time that is left of a block only gets less.
THEOREM TimeRunsDownCorrect ==
  ASSUME PlainTimedBlocks
  PROVE  Spec => TimeRunsDown
<1>1. Inv /\ Timely /\ [Next]_vars =>
        [\A t \in Testlet : tc.timers[t] > 0 /\ loads' = loads => tc'.timers[t] <= tc.timers[t]]_vars
  BY NextFlows DEF Spends
<1> QED
  BY <1>1, InvHolds, TimelyHolds, PTL DEF Spec, TimeRunsDown

----------------------------------------------------------------------------------
(* Blocks that must not be left *)

HeldIn ==
  /\ ForceTimeRestrictions /\ page = "unit" /\ tc.state = "RUNNING"
  /\ tc.timerId # NoTimer /\ Leave[tc.timerId] = "forbidden"
StaysIn ==
  /\ page' = "unit" /\ TimerOfUnit(tc'.current) = tc.timerId
  /\ tc'.state \in {"RUNNING", "ERROR"}

LEMMA WayOutIsDenied ==
  ASSUME Inv, Timely, HeldIn
  PROVE  /\ tc.current \in Unit /\ TimerOfUnit(tc.current) = tc.timerId
         /\ Checked(tc, FALSE)
         /\ \A to \in UnitOrNone : ~Denies(tc, to) =>
              /\ TimerOfUnit(to) = tc.timerId
              /\ ~AsksForTimer(tc, to)
<1>1. tc.current \in Unit /\ TimerOfUnit(tc.current) = tc.timerId /\ ~Locked(tc, tc.current)
  BY TimelyFacts DEF HeldIn, OnTime, ServiceState, UnitOrNone
<1>2. Checked(tc, FALSE)
  BY <1>1 DEF HeldIn, Checked, FreeToLeave, Unit, NoUnit
<1>3. \A to \in UnitOrNone : ~Denies(tc, to) => ~LeavesTimedBlock(tc, to)
  BY DEF HeldIn, Denies
<1>4. \A to \in UnitOrNone : ~LeavesTimedBlock(tc, to) =>
        TimerOfUnit(to) = tc.timerId /\ ~AsksForTimer(tc, to)
  BY DEF HeldIn, LeavesTimedBlock, AsksForTimer
<1> QED
  BY <1>1, <1>2, <1>3, <1>4

\* A unit that is activated from the block, with its timer, is a unit of the block.
LEMMA ActivateStaysIn ==
  ASSUME Inv, Timely, HeldIn, NEW s \in ServiceState, s.state = tc.state,
         s.current = tc.current, NEW to \in UnitOrNone, TimerOfUnit(to) = tc.timerId,
         Activate(s, to, page)
  PROVE  StaysIn
<1>1. CASE tc' = s /\ page' = page
  BY <1>1, WayOutIsDenied DEF HeldIn, StaysIn
<1>2. CASE to # NoUnit /\ tc' = Open(s, to) /\ page' = "unit"
  BY <1>2, OpenFacts DEF HeldIn, StaysIn, UnitOrNone
<1> QED
  BY <1>1, <1>2 DEF Activate

LEMMA GoStaysIn ==
  ASSUME PlainTimedBlocks, Inv, Timely, HeldIn, NEW to \in UnitOrNone, Go(tc, to, FALSE)
  PROVE  StaysIn
<1>1. tc.current \in Unit /\ TimerOfUnit(tc.current) = tc.timerId /\ Checked(tc, FALSE)
  BY WayOutIsDenied
<1>2. CASE Stay(tc)
  BY <1>1, <1>2 DEF HeldIn, Stay, StaysIn
<1>3. CASE ~Denies(tc, to) /\ Ask(tc, to, FALSE)
  <2>1. TimerOfUnit(to) = tc.timerId /\ ~AsksForTimer(tc, to)
    BY <1>3, WayOutIsDenied
  <2>2. Stay(SolveTimer(tc, to)) /\ SolveTimer(tc, to) = tc
    BY <1>3, <2>1, TimelyFacts, SolveTimerTime DEF Ask
  <2> QED
    BY <1>2, <2>2
<1>4. CASE Allows(tc, to) /\ Activate(SolveLeave(tc, to), to, page)
  <2>1. TimerOfUnit(to) = tc.timerId
    BY <1>4, WayOutIsDenied DEF Allows
  <2>2. /\ SolveLeave(tc, to) \in ServiceState /\ SolveLeave(tc, to).state = tc.state
        /\ SolveLeave(tc, to).current = tc.current
    BY <1>1, TimelyFacts, SolveLeaveTime DEF Unit, NoUnit
  <2> QED
    BY <1>4, <2>1, <2>2, ActivateStaysIn
<1> QED
  BY <1>1, <1>2, <1>3, <1>4 DEF Go, Ask, AsksForTimer, AsksForLock

LEMMA AnswerStaysIn ==
  ASSUME PlainTimedBlocks, Inv, Timely, HeldIn, NEW d \in dialogs, d.live,
         AnswerStay(d) \/ AnswerLeave(d)
  PROVE  StaysIn
<1>1. tc.current \in Unit /\ TimerOfUnit(tc.current) = tc.timerId
  BY WayOutIsDenied
<1>2. CASE AnswerStay(d)
  BY <1>1, <1>2 DEF AnswerStay, HeldIn, StaysIn
<1>3. CASE AnswerLeave(d)
  <2>1. d.asks = "lock" /\ TimerOfUnit(d.to) = tc.timerId
    BY DEF Timely, OneAsks, HeldIn
  <2>2. d.to # NoUnit /\ d.to \in UnitOrNone
    BY <2>1 DEF TimerOfUnit, HeldIn, Inv, DialogsOK, Dialog
  <2>3. ~d.exit /\ ~d.endsTest
    BY <2>2 DEF Timely, Wellformed
  <2>4. Activate(OnConfirmed(d), d.to, page)
    BY <1>3, <2>3 DEF AnswerLeave
  <2>5. /\ OnConfirmed(d) \in ServiceState /\ OnConfirmed(d).state = tc.state
        /\ OnConfirmed(d).current = tc.current
    BY OnConfirmedTime
  <2> QED
    BY <2>1, <2>2, <2>4, <2>5, ActivateStaysIn
<1> QED
  BY <1>2, <1>3

\* In booklets of plain timed blocks a testee does not get out of a block that must not be
\* left while its time runs: neither by choosing a unit, by a request, a redirect, a dialog,
\* nor by ending the test.
THEOREM ForbiddenBlockCorrect ==
  ASSUME PlainTimedBlocks
  PROVE  Spec => ForbiddenBlockIsNotLeft
<1>1. ASSUME Inv, Orderly, RequestsOK, Timely, [Next]_vars, HeldIn, movedBy' = "testee",
             commands' = commands, \A d \in dialogs : d.live
      PROVE  StaysIn
  <2>1. tc.current \in Unit /\ TimerOfUnit(tc.current) = tc.timerId /\ Checked(tc, FALSE)
        /\ tc \in ServiceState /\ page = "unit" /\ tc.state = "RUNNING"
        /\ ~Locked(tc, tc.current)
    BY <1>1, WayOutIsDenied, TimelyFacts DEF HeldIn, OnTime
  <2>2. ASSUME tc'.current = tc.current, tc'.state \in {"RUNNING", "ERROR"}, page' = page
        PROVE  StaysIn
    BY <2>1, <2>2 DEF StaysIn
  <2>3. ASSUME tc' = tc, page' = page PROVE StaysIn
    BY <2>1, <2>2, <2>3
  <2>4. CASE FollowRedirect
    <3>1. redirect \in UnitOrNone
      BY <1>1 DEF Inv, RouterOK
    <3> QED
      BY <1>1, <2>4, <3>1, GoStaysIn DEF FollowRedirect
  <2>5. ASSUME NEW u \in Unit, SelectUnit(u) PROVE StaysIn
    <3>1. CASE u = tc.current /\ Stay(Open(tc, u))
      BY <2>1, <2>2, <3>1, OpenFacts DEF Stay
    <3>2. CASE Go(tc, u, FALSE)
      BY <1>1, <3>2, GoStaysIn DEF UnitOrNone
    <3> QED
      BY <2>5, <3>1, <3>2 DEF SelectUnit, GoToUnit
  <2>6. CASE RequestTestEnd
    <3>1. TimerOfUnit(NoUnit) # tc.timerId /\ NoUnit \in UnitOrNone
      BY <1>1 DEF HeldIn, TimerOfUnit, UnitOrNone
    <3>2. Denies(tc, NoUnit)
      BY <1>1, <3>1, WayOutIsDenied
    <3>3. Stay(tc)
      BY <2>1, <2>6, <3>2 DEF RequestTestEnd, Ask, AsksForTimer, AsksForLock, Allows
    <3> QED
      BY <2>3, <3>3 DEF Stay
  <2>7. CASE Answer
    BY <1>1, <2>7, AnswerStaysIn DEF Answer
  <2>8. CASE ProcessRequest
    <3> DEFINE r == Head(requests)
    <3>1. r \in OwnRequest /\ r.by = "testee"
      BY <1>1, <2>8 DEF ProcessRequest, CarryOut, RequestsOK
    <3>2. r.force = FALSE /\ r.target # "PAUSE"
      BY <3>1 DEF OwnRequest, Asked
    <3>3. /\ tc.navigation.next \in UnitOrNone /\ tc.navigation.previous \in UnitOrNone
          /\ tc.navigation.first \in UnitOrNone /\ tc.navigation.last \in UnitOrNone
      BY <2>1 DEF ServiceState, NavigationTargets
    <3>4. PICK to \in UnitOrNone : Go(tc, to, r.force)
      BY <2>8, <3>2, <3>3 DEF ProcessRequest, CarryOut
    <3>5. Go(tc, to, FALSE)
      BY <3>2, <3>4, Zenon
    <3> QED
      BY <1>1, <3>5, GoStaysIn
  <2>9. CASE SubmitCode
    BY <2>1, <2>9 DEF SubmitCode, LockedByCode
  <2>10. ASSUME NEW done \in BOOLEAN, ReportProgress(done) PROVE StaysIn
    BY <2>1, <2>2, <2>10 DEF ReportProgress, ServiceState
  <2>11. ASSUME NEW shown \in SUBSET Conditional, EvaluateConditions(shown) PROVE StaysIn
    BY <2>1, <2>2, <2>11, UpdateAllShowLocksFacts DEF EvaluateConditions, SameUnit
  <2>12. CASE Tick
    <3>1. tc.timerId \in Testlet /\ tc.timers[tc.timerId] - 1 \in Int
      BY <2>1, <2>12 DEF Tick, ServiceState, Times
    <3> QED
      BY <2>1, <2>2, <2>12, <3>1, SetTimeLeftFacts DEF Tick, SameUnit
  <2>13. CASE TimerEnded
    BY <2>1, <2>2, <2>13, CloseTimedBlockFacts DEF TimerEnded, SameUnit
  <2>14. CASE ErrorOut
    BY <2>1, <2>2, <2>14, SetStateFacts DEF ErrorOut, State
  <2>15. CASE FinishEnding
    BY <1>1, <2>15 DEF FinishEnding, HeldIn, Orderly, EndsProperly, Ended
  <2>16. CASE SaveBuffers \/ (\E target \in RelativeTarget : RequestNavigation(target))
              \/ UNCHANGED vars
    BY <2>3, <2>16 DEF SaveBuffers, RequestNavigation, vars
  <2>17. ASSUME Commanded PROVE FALSE
    BY <1>1, <2>17 DEF Commanded, Inv, RouterOK
  <2>18. CASE \/ Pause \/ Resume \/ \E lock \in BOOLEAN : TerminateCommand(lock)
              \/ \E u \in Unit, given \in GivenTime \cup {NotANumber} : Goto(u, given)
    BY <2>17, <2>18 DEF Pause, Resume, TerminateCommand, Goto
  <2>19. CASE \E shown \in SUBSET Conditional : Load(shown)
    BY <1>1, <2>19 DEF Load
  <2> QED
    BY <1>1, <2>4, <2>5, <2>6, <2>7, <2>8, <2>9, <2>10, <2>11, <2>12, <2>13, <2>14, <2>15,
       <2>16, <2>18, <2>19 DEF Next
<1>2. Inv /\ Orderly /\ RequestsOK /\ Timely /\ [Next]_vars =>
        [   /\ ForceTimeRestrictions /\ page = "unit" /\ tc.state = "RUNNING"
            /\ tc.timerId # NoTimer /\ TimerOfUnit(tc.current) = tc.timerId
            /\ Leave[tc.timerId] = "forbidden"
            /\ movedBy' = "testee" /\ commands' = commands /\ \A d \in dialogs : d.live
         => /\ page' = "unit" /\ TimerOfUnit(tc'.current) = tc.timerId
            /\ tc'.state \in {"RUNNING", "ERROR"}]_vars
  BY <1>1 DEF HeldIn, StaysIn
<1> QED
  BY <1>2, InvHolds, OrderHolds, RequestsHold, TimelyHolds, PTL DEF Spec, ForbiddenBlockIsNotLeft

----------------------------------------------------------------------------------
(* Reloading.  As long as no goto has changed anything that is not stored, what is    *)
(* stored says which unit was shown, which codes were entered and what time was left. *)
Recorded ==
  reopened = {} => /\ Mirror(tc)
                   /\ saved.clearedCode \subseteq Coded
                   /\ \A t \in Testlet : saved.timeLeft[t] # NotANumber

LEMMA ActivateMirrors ==
  ASSUME NEW s \in ServiceState, Mirror(s), NEW to \in UnitOrNone, NEW from, Activate(s, to, from)
  PROVE  Mirror(tc')
<1>1. to # NoUnit => to \in Unit
  BY DEF UnitOrNone
<1> QED
  BY <1>1, OpenMirrors DEF Activate

LEMMA AskMirrors ==
  ASSUME NEW s \in ServiceState, Mirror(s), NEW to \in UnitOrNone, NEW exit, Ask(s, to, exit)
  PROVE  Mirror(tc')
  BY SolveTimerMirrors DEF Ask, Stay

LEMMA LeftUncheckedMirrors ==
  ASSUME NEW s \in ServiceState, Mirror(s)
  PROVE  LeftUnchecked(s) \in ServiceState /\ Mirror(LeftUnchecked(s))
  BY LeftUncheckedStep, InterruptTimerMirrors DEF LeftUnchecked, Step

LEMMA GoMirrors ==
  ASSUME NEW s \in ServiceState, Mirror(s), NEW to \in UnitOrNone, NEW force, Go(s, to, force)
  PROVE  Mirror(tc')
<1>1. CASE Stay(s)
  BY <1>1 DEF Stay
<1>2. CASE Activate(LeftUnchecked(s), to, page)
  BY <1>2, LeftUncheckedMirrors, ActivateMirrors
<1>3. CASE Ask(s, to, FALSE)
  BY <1>3, AskMirrors
<1>4. CASE Checked(s, force) /\ Activate(SolveLeave(s, to), to, page)
  <2>1. SolveLeave(s, to) \in ServiceState /\ Mirror(SolveLeave(s, to))
    BY <1>4, SolveLeaveStep, SolveLeaveMirrors DEF Step, Checked, FreeToLeave
  <2> QED
    BY <1>4, <2>1, ActivateMirrors
<1> QED
  BY <1>1, <1>2, <1>3, <1>4 DEF Go

LEMMA GoToUnitMirrors ==
  ASSUME NEW s \in ServiceState, Mirror(s), NEW u \in Unit, NEW force, GoToUnit(s, u, force)
  PROVE  Mirror(tc')
  BY OpenMirrors, GoMirrors DEF GoToUnit, Stay, UnitOrNone

LEMMA BeginEndingMirrors ==
  ASSUME NEW s \in ServiceState, Mirror(s), BeginEnding(s)
  PROVE  Mirror(tc')
  BY TerminateMirrors DEF BeginEnding, Stay

LEMMA ConfirmEndMirrors ==
  ASSUME NEW s \in ServiceState, Mirror(s), NEW open, ConfirmEnd(s, open)
  PROVE  Mirror(tc')
  BY BeginEndingMirrors DEF ConfirmEnd, Stay

LEMMA AnswerMirrors ==
  ASSUME Inv, Mirror(tc), Answer
  PROVE  Mirror(tc')
<1> PICK d \in dialogs : AnswerStay(d) \/ AnswerLeave(d)
  BY DEF Answer
<1>1. d \in Dialog /\ (d.asks = "lock" => d.unit # NoUnit) /\ tc \in ServiceState
  BY DEF Inv, DialogsOK, Kept
<1>2. d.to \in UnitOrNone /\ (d.asks = "lock" => d.unit \in Unit)
  BY <1>1 DEF Dialog, UnitOrNone
<1>3. OnConfirmed(d) \in ServiceState /\ Mirror(OnConfirmed(d))
  BY <1>1, <1>2, CancelTimerStep, CancelTimerMirrors, LeaveLockStep, LeaveLockMirrors
     DEF OnConfirmed, Step
<1>4. CASE AnswerStay(d)
  BY <1>4 DEF AnswerStay
<1>5. CASE AnswerLeave(d)
  <2> DEFINE s == OnConfirmed(d)
  <2>1. BeginEnding(s) \/ ConfirmEnd(s, dialogs \ {d}) \/ Activate(s, d.to, page) \/ Stay(s)
    BY <1>5 DEF AnswerLeave
  <2> HIDE DEF s
  <2>2. s \in ServiceState /\ Mirror(s)
    BY <1>3 DEF s
  <2> QED
    BY <1>2, <2>1, <2>2, BeginEndingMirrors, ConfirmEndMirrors, ActivateMirrors DEF Stay
<1> QED
  BY <1>4, <1>5

LEMMA RequestTestEndMirrors ==
  ASSUME Inv, Mirror(tc), RequestTestEnd
  PROVE  Mirror(tc')
<1>1. tc \in ServiceState /\ NoUnit \in UnitOrNone
  BY DEF Inv, Kept, UnitOrNone
<1>2. CASE Checked(tc, FALSE) /\ ConfirmEnd(SolveLeave(tc, NoUnit), {})
  <2>1. SolveLeave(tc, NoUnit) \in ServiceState /\ Mirror(SolveLeave(tc, NoUnit))
    BY <1>1, <1>2, SolveLeaveStep, SolveLeaveMirrors DEF Step, Checked, FreeToLeave
  <2> QED
    BY <1>2, <2>1, ConfirmEndMirrors
<1> QED
  BY <1>1, <1>2, ConfirmEndMirrors, AskMirrors DEF RequestTestEnd, Stay

LEMMA SubmitCodeMirrors ==
  ASSUME Inv, Mirror(tc), SubmitCode
  PROVE  Mirror(tc')
<1> DEFINE t == LockedThrough(tc, tc.current)
           s == ClearCodeLock(tc, t)
<1>1. t \in Testlet
  BY LockedThroughType DEF SubmitCode, LockedByCode, Inv, Kept, ServiceState, UnitOrNone
<1>2. tc' = RunUnit(s) /\ tc \in ServiceState
  BY DEF SubmitCode, Inv, Kept
<1>3. s \in ServiceState /\ Mirror(s)
  <2> HIDE DEF t
  <2> QED
    BY <1>1, <1>2, ClearCodeLockStep, ClearCodeLockMirrors DEF Step
<1> HIDE DEF s
<1> QED
  BY <1>2, <1>3, RunUnitMirrors

LEMMA ReportProgressMirrors ==
  ASSUME Inv, Mirror(tc), NEW done \in BOOLEAN, ReportProgress(done)
  PROVE  Mirror(tc')
<1> DEFINE complete == IF done THEN tc.complete \cup {tc.current} ELSE tc.complete \ {tc.current}
<1>1. tc' = [tc EXCEPT !.complete = complete, !.testState.complete = complete]
  BY DEF ReportProgress
<1> HIDE DEF complete
<1>2. /\ tc'.current = tc.current /\ tc'.code = tc.code /\ tc'.timers = tc.timers
      /\ tc'.testState.unit = tc.testState.unit /\ tc'.testState.timeLeft = tc.testState.timeLeft
      /\ tc'.testState.clearedCode = tc.testState.clearedCode
  BY <1>1 DEF Inv, Kept, ServiceState, TestState
<1> QED
  BY <1>2, MirrorStays

LEMMA ProcessRequestMirrors ==
  ASSUME Inv, Mirror(tc), ProcessRequest
  PROVE  Mirror(tc')
<1> DEFINE r == Head(requests)
<1>1. tc \in ServiceState
  BY DEF Inv, Kept
<1>2. /\ tc.navigation.next \in UnitOrNone /\ tc.navigation.previous \in UnitOrNone
      /\ tc.navigation.first \in UnitOrNone /\ tc.navigation.last \in UnitOrNone
  BY <1>1 DEF ServiceState, NavigationTargets
<1>3. tc' = LeftUnchecked(tc) \/ \E to \in UnitOrNone : Go(tc, to, r.force)
  BY <1>2 DEF ProcessRequest, CarryOut
<1> QED
  BY <1>1, <1>3, LeftUncheckedMirrors, GoMirrors

\* Of the commands a goto is the exception.
LEMMA CommandMirrors ==
  ASSUME Inv, Mirror(tc), Pause \/ Resume \/ \E lock \in BOOLEAN : TerminateCommand(lock)
  PROVE  Mirror(tc')
<1>1. tc \in ServiceState
  BY DEF Inv, Kept
<1>2. CASE Pause
  <2>1. InterruptTimer(tc) \in ServiceState /\ Mirror(InterruptTimer(tc))
    BY <1>1, InterruptTimerStep, InterruptTimerMirrors DEF Step
  <2> QED
    BY <1>2, <2>1, SetStateMirrors DEF Pause, State
<1>3. CASE Resume
  <2> DEFINE s == SetState(tc, "RUNNING")
  <2>1. s \in ServiceState /\ Mirror(s)
    BY <1>1, SetStateStep, SetStateMirrors DEF Step, State
  <2> HIDE DEF s
  <2>2. tc' = s \/ (tc.current # NoUnit /\ GoToUnit(s, tc.current, TRUE))
    BY <1>3 DEF Resume, s
  <2>3. tc.current # NoUnit => tc.current \in Unit
    BY <1>1 DEF ServiceState, UnitOrNone
  <2> QED
    BY <2>1, <2>2, <2>3, GoToUnitMirrors
<1>4. CASE \E lock \in BOOLEAN : TerminateCommand(lock)
  BY <1>1, <1>4, TerminateMirrors DEF TerminateCommand
<1> QED
  BY <1>2, <1>3, <1>4

\* What is restored is what was stored.
LEMMA RestoredFacts ==
  ASSUME NEW laststate \in TestState, NEW shown \in SUBSET Conditional
  PROVE  LET s == RestoreLastState(laststate, shown) IN
         /\ s \in ServiceState /\ s.current = NoUnit /\ s.testState = laststate
         /\ s.show = Conditional \ shown /\ s.code = Coded \ laststate.clearedCode
         /\ s.time = {t \in Testlet : MaxTime[t] # 0 /\ laststate.timeLeft[t] = 0}
         /\ s.afterLeave \subseteq laststate.lockedTestlets
         /\ s.lockedUnits = laststate.lockedUnits /\ s.timers = laststate.timeLeft
<1>1. RestoreLastState(laststate, shown) \in ServiceState
  BY RestoreLastStateType
<1> QED
  BY <1>1 DEF RestoreLastState, RestoredLocks, UpdateNavigationState

LEMMA RestoredMirrors ==
  ASSUME NEW laststate \in TestState, NEW shown \in SUBSET Conditional,
         laststate.clearedCode \subseteq Coded,
         \A t \in Testlet : laststate.timeLeft[t] # NotANumber
  PROVE  Mirror(RestoreLastState(laststate, shown))
<1> DEFINE s == RestoreLastState(laststate, shown)
<1>1. /\ s.current = NoUnit /\ s.testState = laststate /\ s.timers = laststate.timeLeft
      /\ s.code = Coded \ laststate.clearedCode
  BY RestoredFacts
<1> HIDE DEF s
<1>2. Mirror(s)
  BY <1>1 DEF Mirror
<1> QED
  BY <1>2 DEF s

\* A load opens the unit that was stored last, or none.
LEMMA LoadOpens ==
  ASSUME Inv, NEW shown \in SUBSET Conditional, Load(shown)
  PROVE  LET s == RestoreLastState(saved, shown) IN
         /\ SameLocks(s, tc') /\ tc'.lockedUnits = s.lockedUnits
         /\ Mirror(s) => Mirror(tc')
<1> DEFINE s == RestoreLastState(saved, shown)
           resumed == IF saved.unit = NoUnit THEN 1 ELSE saved.unit
<1>1. saved \in TestState
  BY DEF Inv, Kept, Held
<1>2. s \in ServiceState
  BY <1>1, RestoredFacts
<1>3. resumed \in UnitOrNone /\ (resumed # NoUnit => resumed \in Unit)
  BY <1>1, BookletAssumption DEF TestState, UnitOrNone, Unit
<1>4. \/ tc' = SetState(s, "PAUSED")
      \/ Activate(SetState(s, "RUNNING"), resumed, "loading")
  BY DEF Load
<1> HIDE DEF s, resumed
<1>5. \A state \in State : LET q == SetState(s, state) IN
        q \in ServiceState /\ SameLocks(s, q) /\ q.lockedUnits = s.lockedUnits
        /\ (Mirror(s) => Mirror(q))
  BY <1>2, SetStateStep, SetStateFacts, SetStateMirrors DEF Step
<1>6. CASE tc' = SetState(s, "PAUSED")
  BY <1>5, <1>6 DEF State, s
<1>7. CASE Activate(SetState(s, "RUNNING"), resumed, "loading")
  <2> DEFINE q == SetState(s, "RUNNING")
  <2>1. q \in ServiceState /\ SameLocks(s, q) /\ q.lockedUnits = s.lockedUnits
        /\ (Mirror(s) => Mirror(q))
    BY <1>5 DEF State
  <2>2. tc' = q \/ (resumed # NoUnit /\ tc' = Open(q, resumed))
    BY <1>7 DEF Activate
  <2> HIDE DEF q
  <2>3. SameLocks(q, tc') /\ tc'.lockedUnits = q.lockedUnits /\ (Mirror(q) => Mirror(tc'))
    BY <1>3, <2>1, <2>2, OpenFacts, OpenMirrors DEF SameLocks
  <2> QED
    BY <2>1, <2>3 DEF SameLocks, s
<1> QED
  BY <1>4, <1>6, <1>7

LEMMA InitRecorded == Init => Recorded
<1> SUFFICES ASSUME Init PROVE Recorded
  OBVIOUS
<1>1. NewTestState \in TestState
  BY DEF NewTestState, TestState, State, UnitOrNone, Times, NotStarted
<1>2. NewTestState.clearedCode \subseteq Coded
      /\ \A t \in Testlet : NewTestState.timeLeft[t] # NotANumber
  BY DEF NewTestState, NotStarted, NotANumber
<1> QED
  BY <1>1, <1>2, RestoredMirrors DEF Init, Recorded

LEMMA NextRecorded == Inv /\ Recorded /\ [Next]_vars => Recorded'
<1> SUFFICES ASSUME Inv, Recorded, [Next]_vars, reopened' = {}
             PROVE  /\ Mirror(tc') /\ saved'.clearedCode \subseteq Coded
                    /\ \A t \in Testlet : saved'.timeLeft[t] # NotANumber
  BY DEF Recorded, Mirror
<1>1. CASE \E u \in Unit, given \in GivenTime \cup {NotANumber} : Goto(u, given)
  BY <1>1 DEF Goto
<1>2. CASE reopened = {}
  <2>1. /\ tc \in ServiceState /\ saved \in TestState /\ redirect \in UnitOrNone /\ Mirror(tc)
        /\ saved.clearedCode \subseteq Coded /\ \A t \in Testlet : saved.timeLeft[t] # NotANumber
    BY <1>2 DEF Recorded, Inv, RouterOK, Kept, Held
  <2>2. ASSUME Mirror(tc'), saved' = saved \/ saved' = tc.testState
        PROVE  /\ Mirror(tc') /\ saved'.clearedCode \subseteq Coded
               /\ \A t \in Testlet : saved'.timeLeft[t] # NotANumber
    BY <2>1, <2>2 DEF Mirror
  <2>3. CASE \/ UNCHANGED vars \/ SaveBuffers
             \/ \E target \in RelativeTarget : RequestNavigation(target)
    <3>1. tc' = tc /\ (saved' = saved \/ saved' = tc.testState)
      BY <2>3 DEF vars, outside, RequestNavigation, SaveBuffers
    <3> QED
      BY <2>1, <2>2, <3>1
  <2>4. CASE FollowRedirect
    BY <2>1, <2>2, <2>4, GoMirrors DEF FollowRedirect, outside
  <2>5. CASE \E u \in Unit : SelectUnit(u)
    BY <2>1, <2>2, <2>5, GoToUnitMirrors DEF SelectUnit, outside
  <2>6. CASE SubmitCode
    BY <2>1, <2>2, <2>6, SubmitCodeMirrors DEF SubmitCode, outside
  <2>7. CASE RequestTestEnd
    BY <2>1, <2>2, <2>7, RequestTestEndMirrors DEF RequestTestEnd, outside
  <2>8. CASE Answer
    BY <2>1, <2>2, <2>8, AnswerMirrors DEF Answer, AnswerStay, AnswerLeave, outside
  <2>9. CASE \E done \in BOOLEAN : ReportProgress(done)
    BY <2>1, <2>2, <2>9, ReportProgressMirrors DEF ReportProgress, outside
  <2>10. CASE \E shown \in SUBSET Conditional : EvaluateConditions(shown)
    BY <2>1, <2>2, <2>10, UpdateAllShowLocksMirrors DEF EvaluateConditions, outside
  <2>11. CASE \E shown \in SUBSET Conditional : Load(shown)
    <3>1. PICK shown \in SUBSET Conditional : Load(shown)
      BY <2>11
    <3>2. Mirror(tc') /\ saved' = saved
      BY <2>1, <3>1, LoadOpens, RestoredMirrors DEF Load
    <3> QED
      BY <2>2, <3>2
  <2>12. CASE ProcessRequest
    BY <2>1, <2>2, <2>12, ProcessRequestMirrors DEF ProcessRequest, CarryOut, outside
  <2>13. CASE Tick
    <3>1. tc.timerId \in Testlet /\ tc.timers[tc.timerId] - 1 \in Int
          /\ tc.timers[tc.timerId] - 1 # NotANumber
      BY <2>1, <2>13 DEF Tick, ServiceState, Times, NotANumber
    <3> QED
      BY <2>1, <2>2, <2>13, <3>1, SetTimeLeftMirrors DEF Tick, outside
  <2>14. CASE TimerEnded
    BY <2>1, <2>2, <2>14, CloseTimedBlockMirrors DEF TimerEnded, outside
  <2>15. CASE Pause \/ Resume \/ \E lock \in BOOLEAN : TerminateCommand(lock)
    BY <2>1, <2>2, <2>15, CommandMirrors DEF Pause, Resume, TerminateCommand, outside
  <2>16. CASE ErrorOut
    BY <2>1, <2>2, <2>16, SetStateMirrors DEF ErrorOut, State, outside
  <2>17. CASE FinishEnding
    BY <2>1, <2>2, <2>17, LeftUncheckedMirrors DEF FinishEnding, LeaveEnded
  <2> QED
    BY <1>1, <2>3, <2>4, <2>5, <2>6, <2>7, <2>8, <2>9, <2>10, <2>11, <2>12, <2>13, <2>14,
       <2>15, <2>16, <2>17 DEF Next
<1>3. CASE reopened # {}
  BY <1>1, <1>3 DEF Next, vars, outside, FollowRedirect, SelectUnit, RequestNavigation, SubmitCode,
     RequestTestEnd, Answer, AnswerStay, AnswerLeave, ReportProgress, EvaluateConditions, Load,
     ProcessRequest, CarryOut, Tick, TimerEnded, Pause, Resume, TerminateCommand, ErrorOut,
     FinishEnding, LeaveEnded, SaveBuffers
<1> QED
  BY <1>2, <1>3

\* The outermost of nested testlets is unique.
LEMMA OutermostIs ==
  ASSUME NEW t \in Testlet, NEW T \in SUBSET Above[t], NEW a \in T, \A b \in T : a \in Above[b]
  PROVE  Outermost(T) = a
<1>1. \A b \in T : b \in Testlet
  BY BookletAssumption
<1>2. Outermost(T) \in T /\ \A b \in T : Outermost(T) \in Above[b]
  BY DEF Outermost
<1> QED
  BY <1>1, <1>2, BookletAssumption

\* Where nothing else is locked and the codes are the same, no unit is closed that was open.
LEMMA FewerLocks ==
  ASSUME NEW s \in ServiceState, NEW r, NEW u \in Unit, ~UnitIsInaccessible(s, u),
         r.lockedUnits \subseteq s.lockedUnits, r.show \subseteq s.show, r.code = s.code,
         r.afterLeave \subseteq s.afterLeave, r.time \cap Above[ParentOf[u]] \subseteq s.time
  PROVE  ~UnitIsInaccessible(r, u)
<1> DEFINE t == ParentOf[u]
<1>1. t \in Testlet /\ t \in Above[t] /\ Above[t] \in SUBSET Testlet
  BY BookletAssumption
<1>2. u \notin r.lockedUnits
  BY DEF UnitIsInaccessible
<1>3. LocksAbove(r, u) \subseteq LocksAbove(s, u)
  BY DEF LocksAbove
<1>4. CASE ~Locked(r, u)
  BY <1>2, <1>4 DEF UnitIsInaccessible
<1>5. CASE Locked(r, u)
  <2>1. /\ LockedByCode(s, u) /\ u \in FirstInBlock
        /\ t \notin s.show \cup s.time \cup s.afterLeave
    BY <1>3, <1>5 DEF UnitIsInaccessible, Locked
  <2>2. t \notin r.show \cup r.time \cup r.afterLeave
    BY <1>1, <2>1
  <2> DEFINE a == LockedThrough(s, u)
  <2>3. a \in s.code \ (s.show \cup s.time)
    BY <2>1 DEF LockedByCode
  <2>4. a \in LocksAbove(s, u) /\ \A b \in LocksAbove(s, u) : a \in Above[b]
    <3>1. LocksAbove(s, u) \in SUBSET Above[t] /\ LocksAbove(s, u) # {}
      BY <2>1 DEF LocksAbove, LockedByCode, Locked
    <3>2. \E b \in LocksAbove(s, u) : \A c \in LocksAbove(s, u) : b \in Above[c]
      BY <1>1, <3>1, BookletAssumption
    <3> QED
      BY <3>2 DEF LockedThrough, Outermost
  <2>5. a \in LocksAbove(r, u)
    BY <2>3, <2>4 DEF LocksAbove
  <2>6. LockedThrough(r, u) = a
    <3>1. LocksAbove(r, u) \in SUBSET Above[t]
      BY DEF LocksAbove
    <3> HIDE DEF a
    <3> QED
      BY <1>1, <1>3, <2>4, <2>5, <3>1, OutermostIs DEF LockedThrough
  <2>7. a \in r.code \ (r.show \cup r.time)
    BY <2>3, <2>4 DEF LocksAbove
  <2>8. LockedByCode(r, u)
    BY <1>5, <2>6, <2>7 DEF LockedByCode
  <2> QED
    BY <1>2, <2>1, <2>2, <2>8 DEF UnitIsInaccessible
<1> QED
  BY <1>4, <1>5

LEMMA RecordedHolds == Spec => []Recorded
  BY InitRecorded, InitInv, NextInv, NextRecorded, PTL DEF Spec

\* A reload with everything saved does not shut the testee out of the unit that was open.
THEOREM ReloadCorrect == Spec => ReloadKeepsAccess
<1>1. ASSUME Inv, Recorded, [Next]_vars,
             loads' # loads, page = "unit", saved = tc.testState, reopened = {},
             ~UnitIsInaccessible(tc, tc.current), tc'.show \subseteq tc.show,
             \A t \in Above[ParentOf[tc.current]] : tc.timers[t] # 0
      PROVE  ~UnitIsInaccessible(tc', saved.unit)
  <2>1. PICK shown \in SUBSET Conditional : Load(shown)
    BY <1>1 DEF Next, vars, outside, FollowRedirect, SelectUnit, RequestNavigation, SubmitCode,
       RequestTestEnd, Answer, AnswerStay, AnswerLeave, ReportProgress, EvaluateConditions,
       ProcessRequest, CarryOut, Tick, TimerEnded, Pause, Resume, TerminateCommand, Goto, ErrorOut,
       FinishEnding, LeaveEnded, SaveBuffers
  <2>2. /\ tc \in ServiceState /\ saved \in TestState /\ tc.current \in Unit /\ Mirror(tc)
        /\ Held(saved, tc, {})
    BY <1>1 DEF Inv, Kept, Held, Shown, ServiceState, UnitOrNone, Recorded
  <2>3. saved.unit = tc.current
    BY <1>1, <2>2 DEF Mirror, Unit, NoUnit
  <2> DEFINE s == RestoreLastState(saved, shown)
  <2>4. /\ s.code = Coded \ saved.clearedCode
        /\ s.time = {t \in Testlet : MaxTime[t] # 0 /\ saved.timeLeft[t] = 0}
        /\ s.afterLeave \subseteq saved.lockedTestlets /\ s.lockedUnits = saved.lockedUnits
    BY <2>2, RestoredFacts
  <2>5. SameLocks(s, tc') /\ tc'.lockedUnits = s.lockedUnits
    BY <1>1, <2>1, LoadOpens
  <2> HIDE DEF s
  <2>6. s.code = tc.code
    BY <1>1, <2>2, <2>4 DEF Mirror
  <2>7. s.time \cap Above[ParentOf[tc.current]] = {}
    BY <1>1, <2>2, <2>4 DEF Mirror
  <2>8. s.afterLeave \subseteq tc.afterLeave /\ s.lockedUnits \subseteq tc.lockedUnits
    BY <2>2, <2>4 DEF Held
  <2>9. /\ tc'.lockedUnits \subseteq tc.lockedUnits /\ tc'.code = tc.code
        /\ tc'.afterLeave \subseteq tc.afterLeave
        /\ tc'.time \cap Above[ParentOf[tc.current]] \subseteq tc.time
    BY <2>5, <2>6, <2>7, <2>8 DEF SameLocks
  <2>10. ~UnitIsInaccessible(tc', tc.current)
    BY <1>1, <2>2, <2>9, FewerLocks
  <2> QED
    BY <2>3, <2>10
<1> QED
  BY <1>1, InvHolds, RecordedHolds, PTL DEF Spec, ReloadKeepsAccess

----------------------------------------------------------------------------------
(* Navigation targets *)

\* The targets are those of the locks as they are.
Exact(s) == s.navigation = GetNavigationState(s, s.current)
SameAccess(s, r) == SameLocks(s, r) /\ r.lockedUnits = s.lockedUnits

\* From s to r the targets are computed anew, or there was no need to.
Redraws(s, r) ==
  /\ r.current = s.current
  /\ Exact(r) \/ (r.navigation = s.navigation /\ SameAccess(s, r))

LEMMA AccessAlike ==
  ASSUME NEW s, NEW r, SameAccess(s, r)
  PROVE  /\ \A u : UnitIsInaccessible(r, u) <=> UnitIsInaccessible(s, u)
         /\ \A from : GetNavigationState(r, from) = GetNavigationState(s, from)
<1>1. ASSUME NEW u PROVE UnitIsInaccessible(r, u) <=> UnitIsInaccessible(s, u)
  <2>1. LocksAbove(r, u) = LocksAbove(s, u)
    BY DEF SameAccess, SameLocks, LocksAbove
  <2> QED
    BY <2>1 DEF SameAccess, SameLocks, UnitIsInaccessible, Locked, LockedByCode, LockedThrough
<1>2. {u \in Unit : ~UnitIsInaccessible(r, u)} = {u \in Unit : ~UnitIsInaccessible(s, u)}
  BY <1>1
<1> QED
  BY <1>1, <1>2 DEF GetNavigationState

LEMMA Navigates ==
  ASSUME NEW s, NEW from \in UnitOrNone
  PROVE  LET n == GetNavigationState(s, from) IN
         /\ n.next \in UnitOrNone /\ n.previous \in UnitOrNone
         /\ n.next = NoUnit => \A v \in Unit : v > from => UnitIsInaccessible(s, v)
         /\ n.next # NoUnit => n.next > from /\ ~UnitIsInaccessible(s, n.next)
         /\ n.previous # NoUnit => n.previous < from /\ ~UnitIsInaccessible(s, n.previous)
         /\ n.previous = NoUnit => \A v \in Unit : v < from => UnitIsInaccessible(s, v)
<1> DEFINE open == {u \in Unit : ~UnitIsInaccessible(s, u)}
           before == {u \in open : u < from}
           after == {u \in open : u > from}
<1>1. before \in SUBSET Unit /\ after \in SUBSET Unit /\ NoUnit \notin Unit
  BY DEF Unit, NoUnit
<1>2. /\ Highest(before) \in before \cup {NoUnit} /\ (before # {} => Highest(before) \in before)
      /\ Lowest(after) \in after \cup {NoUnit} /\ (after # {} => Lowest(after) \in after)
  <2> HIDE DEF before, after
  <2> QED
    BY <1>1, HighestExists, LowestExists
<1>3. /\ GetNavigationState(s, from).next = Lowest(after)
      /\ GetNavigationState(s, from).previous = Highest(before)
  BY DEF GetNavigationState
<1>4. Lowest(after) = NoUnit => after = {}
  <2> HIDE DEF after
  <2> QED
    BY <1>1, <1>2
<1>5. Highest(before) = NoUnit => before = {}
  <2> HIDE DEF before
  <2> QED
    BY <1>1, <1>2
<1> QED
  BY <1>2, <1>3, <1>4, <1>5 DEF UnitOrNone

LEMMA RedrawsChain ==
  ASSUME NEW s, NEW r, NEW q, Redraws(s, r), Redraws(r, q)
  PROVE  Redraws(s, q)
<1>1. CASE Exact(q)
  BY <1>1 DEF Redraws
<1>2. CASE q.navigation = r.navigation /\ SameAccess(r, q) /\ Exact(r)
  <2>1. Exact(q)
    BY <1>2, AccessAlike DEF Exact, Redraws
  <2> QED
    BY <2>1 DEF Redraws
<1>3. CASE /\ q.navigation = r.navigation /\ SameAccess(r, q)
           /\ r.navigation = s.navigation /\ SameAccess(s, r)
  BY <1>3 DEF Redraws, SameAccess, SameLocks
<1> QED
  BY <1>1, <1>2, <1>3 DEF Redraws

LEMMA UpdateNavigationStateExact ==
  ASSUME NEW s \in ServiceState
  PROVE  Exact(UpdateNavigationState(s)) /\ UpdateNavigationState(s).current = s.current
<1> DEFINE r == UpdateNavigationState(s)
<1>1. SameAccess(s, r) /\ r.current = s.current
  BY UpdateNavigationStateFacts DEF SameAccess, SameUnit
<1>2. r.navigation = GetNavigationState(s, s.current)
  BY DEF UpdateNavigationState, ServiceState
<1> HIDE DEF r
<1>3. Exact(r)
  BY <1>1, <1>2, AccessAlike DEF Exact
<1> QED
  BY <1>1, <1>3 DEF r

\* What leaves locks and targets alone.
LEMMA PlainRedraws ==
  ASSUME NEW s \in ServiceState
  PROVE  /\ Redraws(s, s)
         /\ Redraws(s, InterruptTimer(s)) /\ InterruptTimer(s).navigation = s.navigation
         /\ \A state \in State : /\ Redraws(s, SetState(s, state))
                                 /\ SetState(s, state).navigation = s.navigation
         /\ \A t \in Testlet, left \in Int : /\ Redraws(s, SetTimeLeft(s, t, left))
                                             /\ SetTimeLeft(s, t, left).navigation = s.navigation
<1>1. Redraws(s, s)
  BY DEF Redraws, SameAccess, SameLocks
<1>2. Redraws(s, InterruptTimer(s)) /\ InterruptTimer(s).navigation = s.navigation
  BY DEF Redraws, SameAccess, SameLocks, InterruptTimer, ServiceState
<1>3. ASSUME NEW state \in State
      PROVE  Redraws(s, SetState(s, state)) /\ SetState(s, state).navigation = s.navigation
  BY DEF Redraws, SameAccess, SameLocks, SetState, ServiceState
<1>4. ASSUME NEW t \in Testlet, NEW left \in Int
      PROVE  Redraws(s, SetTimeLeft(s, t, left)) /\ SetTimeLeft(s, t, left).navigation = s.navigation
  BY DEF Redraws, SameAccess, SameLocks, SetTimeLeft, ServiceState
<1> QED
  BY <1>1, <1>2, <1>3, <1>4

LEMMA CloseTimedBlockRedraws ==
  ASSUME NEW s \in ServiceState, s.timerId # NoTimer
  PROVE  Redraws(s, CloseTimedBlock(s))
<1> DEFINE stopped == SetTimeLeft(s, s.timerId, 0)
           locked == [stopped EXCEPT !.time = @ \cup {ParentOf[s.current]}]
           drawn == UpdateNavigationState(locked)
<1>1. s.timerId \in Testlet
  BY DEF ServiceState
<1>2. stopped \in ServiceState /\ Redraws(s, stopped) /\ stopped.current = s.current
  BY <1>1, SetTimeLeftStep, SetTimeLeftFacts, PlainRedraws DEF Step, SameUnit
<1>3. CASE ForceTimeRestrictions /\ s.current # NoUnit
  <2>1. ParentOf[s.current] \in Testlet
    BY <1>3, BookletAssumption DEF ServiceState, UnitOrNone
  <2>2. locked \in ServiceState /\ locked.current = s.current
    <3> HIDE DEF stopped
    <3> QED
      BY <1>2, <2>1 DEF ServiceState
  <2>3. CloseTimedBlock(s) = InterruptTimer(drawn)
    BY <1>3 DEF CloseTimedBlock
  <2> HIDE DEF locked
  <2>4. drawn \in ServiceState /\ Exact(drawn) /\ drawn.current = s.current
    BY <2>2, UpdateNavigationStateStep, UpdateNavigationStateExact DEF Step
  <2> HIDE DEF drawn
  <2>5. Redraws(drawn, InterruptTimer(drawn))
    BY <2>4, PlainRedraws
  <2>6. Redraws(s, drawn)
    BY <2>4 DEF Redraws
  <2> QED
    BY <2>3, <2>5, <2>6, RedrawsChain
<1>4. CASE ~(ForceTimeRestrictions /\ s.current # NoUnit)
  <2>1. CloseTimedBlock(s) = InterruptTimer(stopped)
    BY <1>4 DEF CloseTimedBlock
  <2> HIDE DEF stopped
  <2> QED
    BY <1>2, <2>1, PlainRedraws, RedrawsChain
<1> QED
  BY <1>3, <1>4

LEMMA CancelTimerRedraws ==
  ASSUME NEW s \in ServiceState
  PROVE  Redraws(s, CancelTimer(s))
  BY CloseTimedBlockRedraws, PlainRedraws DEF CancelTimer

\* A method that computes the targets last.
LEMMA UpdatedRedraws ==
  ASSUME NEW s, NEW r \in ServiceState, r.current = s.current
  PROVE  Redraws(s, UpdateNavigationState(r))
  BY UpdateNavigationStateExact DEF Redraws

LEMMA StartTimerRedraws ==
  ASSUME NEW s \in ServiceState, NEW t \in Testlet
  PROVE  Redraws(s, StartTimer(s, t)) /\ StartTimer(s, t).navigation = s.navigation
<1> DEFINE left == IF s.timers[t] > 0 /\ s.timers[t] < MaxTime[t] THEN s.timers[t] ELSE MaxTime[t]
           r == SetTimeLeft(s, t, left)
<1>1. left \in Int
  BY RestrictionAssumption DEF ServiceState, Times
<1>2. StartTimer(s, t) = [r EXCEPT !.timerId = t]
  BY DEF StartTimer
<1> HIDE DEF left
<1>3. /\ r \in ServiceState /\ SameUnit(s, r) /\ SameLocks(s, r) /\ r.lockedUnits = s.lockedUnits
      /\ r.navigation = s.navigation
  BY <1>1, SetTimeLeftStep, SetTimeLeftFacts, PlainRedraws DEF Step
<1> HIDE DEF r
<1>4. LET q == [r EXCEPT !.timerId = t] IN q.navigation = r.navigation
  BY <1>3 DEF ServiceState
<1> QED
  BY <1>2, <1>3, <1>4, StartTimerFacts DEF Redraws, SameAccess, SameUnit

LEMMA RestoreTimeRedraws ==
  ASSUME NEW s \in ServiceState, NEW t \in Testlet, NEW given \in Int
  PROVE  Redraws(s, RestoreTime(s, t, given))
<1> DEFINE r == [s EXCEPT !.timers[t] = IF @ = NotANumber THEN @ ELSE given,
                          !.time = @ \ {t}]
<1>1. CASE RestoreTime(s, t, given) = s
  BY <1>1, PlainRedraws
<1>2. CASE RestoreTime(s, t, given) = UpdateNavigationState(r)
  <2>1. r \in ServiceState /\ r.current = s.current
    BY DEF ServiceState, Times
  <2> HIDE DEF r
  <2> QED
    BY <1>2, <2>1, UpdatedRedraws
<1> QED
  BY <1>1, <1>2 DEF RestoreTime

LEMMA ClearCodeLockRedraws ==
  ASSUME NEW s \in ServiceState, NEW t \in Testlet
  PROVE  Redraws(s, ClearCodeLock(s, t))
<1> DEFINE cleared == (Coded \ s.code) \cup {t}
           r == [s EXCEPT !.code = @ \ {t}, !.testState.clearedCode = cleared]
<1>1. CASE ClearCodeLock(s, t) = s
  BY <1>1, PlainRedraws
<1>2. CASE ClearCodeLock(s, t) = UpdateNavigationState(r)
  <2>1. cleared \in SUBSET Testlet
    BY RestrictionAssumption
  <2> HIDE DEF cleared
  <2>2. r \in ServiceState /\ r.current = s.current
    BY <2>1 DEF ServiceState, TestState
  <2> HIDE DEF r
  <2> QED
    BY <1>2, <2>2, UpdatedRedraws
<1> QED
  BY <1>1, <1>2 DEF ClearCodeLock

\* A unit that is locked on being left is the one case where the targets stay as they were.
LEMMA LeaveLockRedraws ==
  ASSUME NEW s \in ServiceState, NEW u \in Unit
  PROVE  \/ Redraws(s, LeaveLock(s, u))
         \/ /\ ForceNaviRestrictions /\ LockScope[ParentOf[u]] = "unit"
            /\ LeaveLock(s, u).navigation = s.navigation
<1> DEFINE t == ParentOf[u]
<1>1. t \in Testlet
  BY BookletAssumption
<1>2. CASE LeaveLock(s, u) = s
  BY <1>2, PlainRedraws
<1>3. CASE LeaveLock(s, u) = ActivateTestletLeaveLock(s, t)
  <2> DEFINE locked == s.afterLeave \cup {t}
             kept == {a \in locked : LockScope[a] = "testlet"}
             r == [s EXCEPT !.afterLeave = locked, !.testState.lockedTestlets = kept]
  <2>1. LeaveLock(s, u) = UpdateNavigationState(r)
    BY <1>3 DEF ActivateTestletLeaveLock
  <2>2. locked \in SUBSET Testlet /\ kept \in SUBSET Testlet
    BY <1>1 DEF ServiceState
  <2> HIDE DEF locked, kept
  <2>3. r \in ServiceState /\ r.current = s.current
    BY <2>2 DEF ServiceState, TestState
  <2> HIDE DEF r
  <2> QED
    BY <2>1, <2>3, UpdatedRedraws
<1>4. CASE /\ ForceNaviRestrictions /\ LockScope[t] = "unit"
           /\ LeaveLock(s, u) = ActivateUnitLeaveLock(s, u)
  BY <1>4 DEF ActivateUnitLeaveLock, ServiceState
<1> QED
  BY <1>2, <1>3, <1>4, ModeAssumption DEF LeaveLock

LEMMA UpdateAllShowLocksRedraws ==
  ASSUME NEW s \in ServiceState, NEW shown \in SUBSET Conditional
  PROVE  Redraws(s, UpdateAllShowLocks(s, shown))
<1> DEFINE r == [s EXCEPT !.show = Conditional \ shown]
<1>1. r \in ServiceState /\ r.current = s.current
  BY RestrictionAssumption DEF ServiceState
<1>2. UpdateAllShowLocks(s, shown) = UpdateNavigationState(r)
  BY DEF UpdateAllShowLocks
<1> HIDE DEF r
<1> QED
  BY <1>1, <1>2, UpdatedRedraws

\* A unit that runs has exact targets; a locked one is shown with those there were.
LEMMA RunUnitRedraws ==
  ASSUME NEW s \in ServiceState
  PROVE  /\ Redraws(s, RunUnit(s))
         /\ ~Locked(s, s.current) => Exact(RunUnit(s))
         /\ Locked(s, s.current) => RunUnit(s) = s
<1> DEFINE t == TimerOfUnit(s.current)
           r == IF t = NoTimer \/ t = s.timerId THEN s ELSE StartTimer(s, t)
<1>1. CASE Locked(s, s.current)
  BY <1>1, PlainRedraws DEF RunUnit
<1>2. CASE ~Locked(s, s.current)
  <2>1. t \in Testlet \cup {NoTimer}
    BY TimerOfUnitType DEF ServiceState
  <2>2. RunUnit(s) = UpdateNavigationState(r)
    BY <1>2 DEF RunUnit
  <2> HIDE DEF t
  <2>3. r \in ServiceState /\ r.current = s.current
    BY <2>1, StartTimerStep, StartTimerFacts DEF Step, SameUnit
  <2> HIDE DEF r
  <2> QED
    BY <1>2, <2>2, <2>3, UpdatedRedraws, UpdateNavigationStateExact
<1> QED
  BY <1>1, <1>2

LEMMA OpenRedraws ==
  ASSUME NEW s \in ServiceState, NEW u \in Unit
  PROVE  /\ ~Locked(s, u) => Exact(Open(s, u))
         /\ Locked(s, u) => Open(s, u).navigation = s.navigation
         /\ SameAccess(s, Open(s, u))
<1> DEFINE r == [s EXCEPT !.current = u, !.testState.unit = u]
<1>1. u \in UnitOrNone
  BY DEF UnitOrNone
<1>2. r \in ServiceState /\ r.current = u /\ SameLocks(s, r) /\ r.navigation = s.navigation
  BY <1>1 DEF ServiceState, TestState, SameLocks
<1>3. Open(s, u) = RunUnit(r)
  BY DEF Open
<1> HIDE DEF r
<1>4. Locked(s, u) <=> Locked(r, u)
  BY <1>2, LockedAlike
<1>5. SameAccess(s, Open(s, u))
  BY OpenFacts DEF SameAccess
<1> QED
  BY <1>2, <1>3, <1>4, <1>5, RunUnitRedraws

LEMMA LeftUncheckedRedraws ==
  ASSUME NEW s \in ServiceState
  PROVE  Redraws(s, LeftUnchecked(s)) /\ LeftUnchecked(s).navigation = s.navigation
  BY PlainRedraws DEF LeftUnchecked

LEMMA SolveTimerRedraws ==
  ASSUME NEW s \in ServiceState, NEW to
  PROVE  Redraws(s, SolveTimer(s, to))
<1>1. CASE ~LeavesTimedBlock(s, to)
  BY <1>1, PlainRedraws DEF SolveTimer
<1>2. CASE LeavesTimedBlock(s, to) /\ Leave[s.timerId] = "allowed"
  BY <1>2, CancelTimerRedraws DEF SolveTimer
<1>3. CASE LeavesTimedBlock(s, to) /\ Leave[s.timerId] # "allowed"
  BY <1>3, PlainRedraws DEF SolveTimer
<1> QED
  BY <1>1, <1>2, <1>3

LEMMA TerminateRedraws ==
  ASSUME NEW s \in ServiceState
  PROVE  Redraws(s, Terminate(s)) /\ Terminate(s).navigation = s.navigation
  BY TerminateFacts DEF Redraws, SameAccess, Terminate, SetState, InterruptTimer, ServiceState

----------------------------------------------------------------------------------
(* The way out of a closed block *)

\* Booklets without codes and conditions, which lock a unit without asking.  A code or a
\* condition opens and closes units without a navigation, and so does a late answer to the
\* question about a unit; the proof below relies on targets that are computed anew.
PlainLocks ==
  /\ Coded = {} /\ Conditional = {}
  /\ \A t \in LockConfirm : LockScope[t] # "unit"

\* The targets are open, as far as there are any, and only units of blocks whose units are
\* locked one by one are locked by themselves.
Aims(s) ==
  /\ s.show = {} /\ s.code = {}
  /\ s.navigation.next # NoUnit => ~UnitIsInaccessible(s, s.navigation.next)
  /\ s.navigation.previous # NoUnit => ~UnitIsInaccessible(s, s.navigation.previous)
  /\ \A u \in s.lockedUnits \cup s.testState.lockedUnits : LockScope[ParentOf[u]] = "unit"

\* An open unit that is shown is not its own target.
Elsewhere(s, p) ==
  p = "unit" /\ s.current # NoUnit /\ ~Locked(s, s.current)
    => s.current # s.navigation.next /\ s.current # s.navigation.previous

\* From s to r the targets are computed anew where it is needed, and no unit is locked.
Moves(s, r) ==
  /\ Step(s, r) /\ Redraws(s, r)
  /\ r.show = s.show /\ r.code \subseteq s.code /\ r.lockedUnits = s.lockedUnits

LEMMA PlainAccess ==
  ASSUME NEW s, s.code = {}, NEW u
  PROVE  UnitIsInaccessible(s, u) <=> u \in s.lockedUnits \/ Locked(s, u)
  BY DEF UnitIsInaccessible, LockedByCode

\* Exact targets are open and elsewhere.
LEMMA ExactAims ==
  ASSUME NEW s \in ServiceState, Exact(s), s.show = {}, s.code = {},
         \A u \in s.lockedUnits \cup s.testState.lockedUnits : LockScope[ParentOf[u]] = "unit"
  PROVE  Aims(s) /\ \A p : Elsewhere(s, p)
<1> DEFINE n == GetNavigationState(s, s.current)
<1>1. s.current \in UnitOrNone
  BY DEF ServiceState
<1>2. /\ n.next # NoUnit => n.next > s.current /\ ~UnitIsInaccessible(s, n.next)
      /\ n.previous # NoUnit => n.previous < s.current /\ ~UnitIsInaccessible(s, n.previous)
      /\ n.next \in UnitOrNone /\ n.previous \in UnitOrNone
  BY <1>1, Navigates
<1>3. s.navigation = n
  BY DEF Exact
<1> HIDE DEF n
<1>4. Aims(s)
  BY <1>2, <1>3 DEF Aims
<1>5. s.current # NoUnit => s.current # n.next /\ s.current # n.previous
  BY <1>1, <1>2 DEF UnitOrNone, Unit, NoUnit
<1> QED
  BY <1>3, <1>4, <1>5 DEF Elsewhere

LEMMA MovesKeep ==
  ASSUME NEW s, NEW r, Aims(s), Moves(s, r)
  PROVE  Aims(r) /\ \A p : Elsewhere(s, p) => Elsewhere(r, p)
<1>1. /\ r \in ServiceState /\ r.show = {} /\ r.code = {} /\ r.current = s.current
      /\ \A u \in r.lockedUnits \cup r.testState.lockedUnits : LockScope[ParentOf[u]] = "unit"
  BY DEF Moves, Step, Aims, Redraws
<1>2. CASE Exact(r)
  BY <1>1, <1>2, ExactAims
<1>3. CASE r.navigation = s.navigation /\ SameAccess(s, r)
  <2>1. \A u : UnitIsInaccessible(r, u) <=> UnitIsInaccessible(s, u)
    BY <1>3, AccessAlike
  <2>2. \A u : Locked(s, u) <=> Locked(r, u)
    BY <1>3, LockedAlike DEF SameAccess
  <2> QED
    BY <1>1, <1>3, <2>1, <2>2 DEF Aims, Elsewhere
<1> QED
  BY <1>2, <1>3 DEF Moves, Redraws

LEMMA MovesChain ==
  ASSUME NEW s, NEW r, NEW q, Moves(s, r), Moves(r, q)
  PROVE  Moves(s, q)
  BY StepChain, RedrawsChain DEF Moves

LEMMA MethodsMove ==
  ASSUME NEW s \in ServiceState
  PROVE  /\ Moves(s, s)
         /\ Moves(s, InterruptTimer(s)) /\ Moves(s, LeftUnchecked(s))
         /\ Moves(s, CancelTimer(s)) /\ Moves(s, Terminate(s))
         /\ s.timerId # NoTimer => Moves(s, CloseTimedBlock(s))
         /\ \A state \in State : Moves(s, SetState(s, state))
         /\ \A to \in UnitOrNone : Moves(s, SolveTimer(s, to))
         /\ \A t \in Testlet, left \in Int : Moves(s, SetTimeLeft(s, t, left))
         /\ \A t \in Testlet, given \in Int : Moves(s, RestoreTime(s, t, given))
<1>1. Moves(s, s)
  BY StepStays, PlainRedraws DEF Moves
<1>2. Moves(s, InterruptTimer(s))
  BY InterruptTimerStep, InterruptTimerFacts, PlainRedraws DEF Moves, SameLocks
<1>3. Moves(s, LeftUnchecked(s))
  BY <1>1, <1>2 DEF LeftUnchecked
<1>4. Moves(s, CancelTimer(s))
  BY CancelTimerStep, CancelTimerFacts, CancelTimerRedraws DEF Moves
<1>5. Moves(s, Terminate(s))
  BY TerminateStep, TerminateFacts, TerminateRedraws DEF Moves, SameLocks
<1>6. s.timerId # NoTimer => Moves(s, CloseTimedBlock(s))
  BY CloseTimedBlockStep, CloseTimedBlockFacts, CloseTimedBlockRedraws DEF Moves
<1>7. ASSUME NEW state \in State PROVE Moves(s, SetState(s, state))
  BY SetStateStep, SetStateFacts, PlainRedraws DEF Moves, SameLocks
<1>8. ASSUME NEW to \in UnitOrNone PROVE Moves(s, SolveTimer(s, to))
  BY SolveTimerStep, SolveTimerFacts, SolveTimerRedraws DEF Moves
<1>9. ASSUME NEW t \in Testlet, NEW left \in Int PROVE Moves(s, SetTimeLeft(s, t, left))
  BY SetTimeLeftStep, SetTimeLeftFacts, PlainRedraws DEF Moves, SameLocks
<1>10. ASSUME NEW t \in Testlet, NEW given \in Int PROVE Moves(s, RestoreTime(s, t, given))
  BY RestoreTimeStep, RestoreTimeFacts, RestoreTimeRedraws DEF Moves
<1> QED
  BY <1>1, <1>2, <1>3, <1>4, <1>5, <1>6, <1>7, <1>8, <1>9, <1>10

\* A unit that is locked on being left is none of the targets.
LEMMA LeaveLockAims ==
  ASSUME NEW s \in ServiceState, Aims(s), NEW u \in Unit,
         LockScope[ParentOf[u]] # "unit" \/ (s.current = u /\ Elsewhere(s, "unit"))
  PROVE  LET r == LeaveLock(s, u) IN
         Aims(r) /\ \A p : Elsewhere(s, p) => Elsewhere(r, p)
<1> DEFINE r == LeaveLock(s, u)
<1>1. /\ Step(s, r) /\ r.current = s.current /\ r.show = s.show /\ r.code = s.code
      /\ r.time = s.time
      /\ r.lockedUnits = IF ForceNaviRestrictions /\ LockScope[ParentOf[u]] = "unit"
                         THEN s.lockedUnits \cup {u} ELSE s.lockedUnits
      /\ r.afterLeave = IF ForceNaviRestrictions /\ LockScope[ParentOf[u]] = "testlet"
                        THEN s.afterLeave \cup {ParentOf[u]} ELSE s.afterLeave
  BY LeaveLockStep, LeaveLockFacts DEF SameUnit
<1>2. \/ Redraws(s, r)
      \/ /\ ForceNaviRestrictions /\ LockScope[ParentOf[u]] = "unit"
         /\ r.navigation = s.navigation
  BY LeaveLockRedraws
<1> HIDE DEF r
<1>3. CASE ~(ForceNaviRestrictions /\ LockScope[ParentOf[u]] = "unit")
  <2>1. r.lockedUnits = s.lockedUnits /\ Redraws(s, r)
    BY <1>1, <1>2, <1>3, ModeAssumption
  <2>2. Moves(s, r)
    BY <1>1, <2>1 DEF Moves
  <2> QED
    BY <2>2, MovesKeep DEF r
<1>4. CASE Redraws(s, r) /\ ForceNaviRestrictions /\ LockScope[ParentOf[u]] = "unit" /\ Exact(r)
  <2>1. \A v \in r.lockedUnits \cup r.testState.lockedUnits : LockScope[ParentOf[v]] = "unit"
    BY <1>1, <1>4 DEF Step, Aims
  <2>2. r \in ServiceState /\ r.show = {} /\ r.code = {}
    BY <1>1 DEF Step, Aims
  <2> QED
    BY <1>4, <2>1, <2>2, ExactAims DEF r
<1>5. CASE r.navigation = s.navigation /\ ForceNaviRestrictions /\ LockScope[ParentOf[u]] = "unit"
  <2>1. \A v \in r.lockedUnits \cup r.testState.lockedUnits : LockScope[ParentOf[v]] = "unit"
    BY <1>1, <1>5 DEF Step, Aims
  <2>2. \A v : Locked(s, v) <=> Locked(r, v)
    BY <1>1, <1>5, LockedAlike DEF SameLocks
  <2>3. /\ \A v : UnitIsInaccessible(s, v) <=> v \in s.lockedUnits \/ Locked(s, v)
        /\ \A v : UnitIsInaccessible(r, v) <=> v \in r.lockedUnits \/ Locked(r, v)
    BY <1>1, PlainAccess DEF Aims
  <2>4. \A v : v # u /\ ~UnitIsInaccessible(s, v) => ~UnitIsInaccessible(r, v)
    BY <1>1, <1>5, <2>2, <2>3
  <2>5. s.current = u /\ Elsewhere(s, "unit") /\ u # NoUnit
    BY <1>5 DEF Unit, NoUnit
  <2>6. ~UnitIsInaccessible(s, u) => s.navigation.next # u /\ s.navigation.previous # u
    BY <2>3, <2>5 DEF Elsewhere
  <2>7. Aims(r)
    BY <1>1, <1>5, <2>1, <2>4, <2>6 DEF Aims
  <2>8. \A p : Elsewhere(s, p) => Elsewhere(r, p)
    BY <1>1, <1>5, <2>2 DEF Elsewhere
  <2> QED
    BY <2>7, <2>8 DEF r
<1>6. CASE Redraws(s, r) /\ r.navigation = s.navigation /\ ForceNaviRestrictions
           /\ LockScope[ParentOf[u]] = "unit"
  BY <1>5, <1>6
<1> QED
  BY <1>2, <1>3, <1>4, <1>5, <1>6 DEF Redraws, r

LEMMA OpenAims ==
  ASSUME NEW s \in ServiceState, Aims(s), NEW u \in Unit
  PROVE  Aims(Open(s, u)) /\ \A p : Elsewhere(Open(s, u), p)
<1> DEFINE r == Open(s, u)
<1>1. /\ Step(s, r) /\ r.current = u /\ SameLocks(s, r) /\ r.lockedUnits = s.lockedUnits
  BY OpenStep, OpenFacts
<1>2. /\ ~Locked(s, u) => Exact(r)
      /\ Locked(s, u) => r.navigation = s.navigation
      /\ SameAccess(s, r)
  BY OpenRedraws
<1> HIDE DEF r
<1>3. /\ r \in ServiceState /\ r.show = {} /\ r.code = {}
      /\ \A v \in r.lockedUnits \cup r.testState.lockedUnits : LockScope[ParentOf[v]] = "unit"
  BY <1>1 DEF Step, SameLocks, Aims
<1>4. CASE ~Locked(s, u)
  BY <1>2, <1>3, <1>4, ExactAims DEF r
<1>5. CASE Locked(s, u)
  <2>1. \A v : UnitIsInaccessible(r, v) <=> UnitIsInaccessible(s, v)
    BY <1>2, AccessAlike
  <2>2. Locked(r, u)
    BY <1>1, <1>5, LockedAlike
  <2> QED
    BY <1>1, <1>2, <1>3, <1>5, <2>1, <2>2 DEF Aims, Elsewhere, r
<1> QED
  BY <1>4, <1>5

LEMMA ActivateAims ==
  ASSUME NEW s \in ServiceState, NEW to \in UnitOrNone, NEW from, Aims(s), Elsewhere(s, from),
         Activate(s, to, from)
  PROVE  Aims(tc') /\ Elsewhere(tc', page')
<1>1. CASE tc' = s /\ page' = from
  BY <1>1
<1>2. CASE to # NoUnit /\ tc' = Open(s, to)
  <2>1. to \in Unit
    BY <1>2 DEF UnitOrNone
  <2> QED
    BY <1>2, <2>1, OpenAims
<1> QED
  BY <1>1, <1>2 DEF Activate

LEMMA SolveLeaveAims ==
  ASSUME NEW s \in ServiceState, NEW to \in UnitOrNone, Aims(s), Elsewhere(s, "unit"),
         s.current # NoUnit
  PROVE  Aims(SolveLeave(s, to)) /\ Elsewhere(SolveLeave(s, to), "unit")
<1> DEFINE q == SolveTimer(s, to)
<1>1. Moves(s, q) /\ q \in ServiceState /\ s.current \in Unit
  BY MethodsMove, SolveLeaveFacts
<1>2. SolveLeave(s, to) = IF LeavesLockedArea(s, to) THEN LeaveLock(q, s.current) ELSE q
  BY DEF SolveLeave
<1> HIDE DEF q
<1>3. Aims(q) /\ Elsewhere(q, "unit") /\ q.current = s.current
  BY <1>1, MovesKeep DEF Moves, Redraws
<1> QED
  BY <1>1, <1>2, <1>3, LeaveLockAims

LEMMA GoAims ==
  ASSUME NEW s \in ServiceState, NEW to \in UnitOrNone, NEW force \in BOOLEAN,
         Aims(s), Elsewhere(s, page), Go(s, to, force)
  PROVE  Aims(tc') /\ Elsewhere(tc', page')
<1>1. CASE Stay(s)
  BY <1>1 DEF Stay
<1>2. CASE Activate(LeftUnchecked(s), to, page)
  <2>1. Moves(s, LeftUnchecked(s)) /\ LeftUnchecked(s) \in ServiceState
    BY MethodsMove DEF Moves, Step
  <2>2. Aims(LeftUnchecked(s)) /\ Elsewhere(LeftUnchecked(s), page)
    BY <2>1, MovesKeep
  <2> QED
    BY <1>2, <2>1, <2>2, ActivateAims
<1>3. CASE Checked(s, force) /\ Ask(s, to, FALSE)
  <2>1. Stay(s) \/ Stay(SolveTimer(s, to))
    BY <1>3 DEF Ask
  <2> QED
    BY <2>1, MethodsMove, MovesKeep DEF Stay
<1>4. CASE Checked(s, force) /\ Activate(SolveLeave(s, to), to, page)
  <2>1. page = "unit" /\ s.current # NoUnit
    BY <1>4 DEF Checked, FreeToLeave
  <2>2. SolveLeave(s, to) \in ServiceState
    BY <2>1, SolveLeaveStep DEF Step
  <2> QED
    BY <1>4, <2>1, <2>2, SolveLeaveAims, ActivateAims
<1> QED
  BY <1>1, <1>2, <1>3, <1>4 DEF Go

LEMMA GoToUnitAims ==
  ASSUME NEW s \in ServiceState, NEW u \in Unit, NEW force \in BOOLEAN,
         Aims(s), Elsewhere(s, page), GoToUnit(s, u, force)
  PROVE  Aims(tc') /\ Elsewhere(tc', page')
<1>1. CASE Stay(Open(s, u))
  BY <1>1, OpenAims DEF Stay
<1>2. CASE Go(s, u, force)
  BY <1>2, GoAims DEF UnitOrNone
<1> QED
  BY <1>1, <1>2 DEF GoToUnit

LEMMA ConfirmEndAims ==
  ASSUME NEW s \in ServiceState, Aims(s), Elsewhere(s, page), NEW open,
         ConfirmEnd(s, open) \/ BeginEnding(s)
  PROVE  Aims(tc') /\ Elsewhere(tc', page')
<1>1. CASE tc' = s /\ page' = "starter"
  BY <1>1 DEF Elsewhere
<1>2. CASE Stay(Terminate(s))
  BY <1>2, MethodsMove, MovesKeep DEF Stay
<1>3. CASE Stay(s)
  BY <1>3 DEF Stay
<1> QED
  BY <1>1, <1>2, <1>3 DEF ConfirmEnd, BeginEnding

LEMMA PrepareGotoAims ==
  ASSUME PlainLocks, NEW s \in ServiceState, Aims(s), NEW u \in Unit,
         NEW given \in GivenTime \cup {NotANumber}
  PROVE  LET r == PrepareGoto(s, u, given) IN
         r \in ServiceState /\ Aims(r) /\ \A p : Elsewhere(r, p)
<1> DEFINE t == ParentOf[u]
           c == CancelTimer(s)
           restored == RestoreTime(c, t, given)
           timed == IF s.current = NoUnit \/ TimerOf(t) # TimerOfUnit(s.current) THEN restored ELSE s
           open == [timed EXCEPT !.afterLeave = @ \ {t}]
           unlocked == UpdateNavigationState(open)
           opened == [unlocked EXCEPT !.lockedUnits = @ \ {u}]
<1>1. t \in Testlet /\ given \in Int
  BY BookletAssumption, BoundAssumption DEF NotANumber
<1>2. Moves(s, c) /\ c \in ServiceState
  BY MethodsMove DEF Moves, Step
<1>3. Moves(s, restored)
  <2> HIDE DEF c, t
  <2>1. Moves(c, restored)
    BY <1>1, <1>2, MethodsMove
  <2> HIDE DEF restored
  <2> QED
    BY <1>2, <2>1, MovesChain
<1>4. Moves(s, timed) /\ timed \in ServiceState
  <2> HIDE DEF restored
  <2>1. Moves(s, timed)
    BY <1>3, MethodsMove
  <2> HIDE DEF timed
  <2> QED
    BY <2>1 DEF Moves, Step
<1> HIDE DEF timed
<1>5. Aims(timed)
  BY <1>4, MovesKeep
<1>6. /\ open \in ServiceState /\ open.show = {} /\ open.code = {}
      /\ open.lockedUnits = timed.lockedUnits /\ open.testState = timed.testState
  BY <1>4, <1>5 DEF ServiceState, Aims
<1> HIDE DEF open
<1>7. /\ unlocked \in ServiceState /\ SameLocks(open, unlocked)
      /\ unlocked.lockedUnits = timed.lockedUnits /\ unlocked.testState = timed.testState
      /\ Exact(unlocked)
  BY <1>6, UpdateNavigationStateStep, UpdateNavigationStateFacts, UpdateNavigationStateExact DEF Step
<1> HIDE DEF unlocked
<1>8. Aims(unlocked) /\ \A p : Elsewhere(unlocked, p)
  <2>1. unlocked.show = {} /\ unlocked.code = {}
    BY <1>6, <1>7 DEF SameLocks
  <2>2. \A v \in unlocked.lockedUnits \cup unlocked.testState.lockedUnits :
          LockScope[ParentOf[v]] = "unit"
    BY <1>5, <1>7 DEF Aims
  <2> QED
    BY <1>7, <2>1, <2>2, ExactAims
<1>9. /\ opened \in ServiceState /\ SameLocks(unlocked, opened)
      /\ opened.navigation = unlocked.navigation /\ opened.current = unlocked.current
      /\ opened.lockedUnits \subseteq unlocked.lockedUnits
      /\ opened.testState = unlocked.testState
  BY <1>7 DEF ServiceState, SameLocks
<1>10. ClearCodeLock(opened, t) = opened
  BY DEF ClearCodeLock, PlainLocks
<1>11. PrepareGoto(s, u, given) = opened
  BY <1>10 DEF PrepareGoto, opened, unlocked, open, timed
<1> HIDE DEF opened
<1>12. \A v : Locked(unlocked, v) <=> Locked(opened, v)
  BY <1>9, LockedAlike
<1>13. opened.code = {} /\ unlocked.code = {}
  BY <1>8, <1>9 DEF Aims, SameLocks
<1>14. \A v : UnitIsInaccessible(opened, v) => UnitIsInaccessible(unlocked, v)
  BY <1>9, <1>12, <1>13, PlainAccess
<1>15. Aims(opened)
  BY <1>8, <1>9, <1>14 DEF Aims, SameLocks
<1>16. \A p : Elsewhere(opened, p)
  BY <1>8, <1>9, <1>12 DEF Elsewhere
<1> QED
  BY <1>9, <1>11, <1>15, <1>16

\* Only blocks that are confirmed are asked for, and what is stored of units is their locks.
LockDialogs(D) == \A d \in D : d.asks = "lock" => ParentOf[d.unit] \in LockConfirm
SavedLocks == \A u \in saved.lockedUnits : LockScope[ParentOf[u]] = "unit"

Aiming == Aims(tc) /\ Elsewhere(tc, page) /\ LockDialogs(dialogs) /\ SavedLocks

LEMMA SupersededLocks ==
  ASSUME DialogsOK(dialogs), LockDialogs(dialogs)
  PROVE  LockDialogs(Superseded)
<1> SUFFICES ASSUME NEW d \in dialogs
             PROVE  LET e == [d EXCEPT !.live = FALSE] IN
                    e.asks = "lock" => ParentOf[e.unit] \in LockConfirm
  BY DEF LockDialogs, Superseded
<1>1. d \in Dialog /\ (d.asks = "lock" => ParentOf[d.unit] \in LockConfirm)
  BY DEF DialogsOK, LockDialogs
<1> QED
  BY <1>1 DEF Dialog

LEMMA AskLocks ==
  ASSUME DialogsOK(dialogs), LockDialogs(dialogs), NEW s, NEW to, NEW exit, Ask(s, to, exit)
  PROVE  LockDialogs(dialogs')
<1> DEFINE endsTest == exit /\ SaveResponses /\ IsTestOngoing(s)
           dialog(asks) == [asks |-> asks, unit |-> s.current, to |-> to, exit |-> exit,
                            endsTest |-> endsTest, live |-> TRUE]
<1>1. \/ dialogs' = Superseded \cup {dialog("timer")}
      \/ dialogs' = Superseded \cup {dialog("lock")} /\ ParentOf[s.current] \in LockConfirm
  BY DEF Ask, AsksForLock
<1>2. \A asks : dialog(asks).asks = asks /\ dialog(asks).unit = s.current
  OBVIOUS
<1> HIDE DEF dialog
<1> QED
  BY <1>1, <1>2, SupersededLocks DEF LockDialogs

LEMMA GoLocks ==
  ASSUME DialogsOK(dialogs), LockDialogs(dialogs), NEW s, NEW to, NEW force,
         Go(s, to, force) \/ GoToUnit(s, to, force)
  PROVE  LockDialogs(dialogs')
<1>1. Go(s, to, force) => LockDialogs(dialogs')
  BY SupersededLocks, AskLocks DEF Go
<1> QED
  BY <1>1, SupersededLocks DEF GoToUnit

LEMMA ConfirmEndLocks ==
  ASSUME NEW s, NEW open, LockDialogs(open), ConfirmEnd(s, open)
  PROVE  LockDialogs(dialogs')
<1> DEFINE end == [asks |-> "end", unit |-> s.current, to |-> NoUnit,
                   exit |-> TRUE, endsTest |-> TRUE, live |-> TRUE]
<1>1. dialogs' = open \/ dialogs' = open \cup {end}
  BY DEF ConfirmEnd
<1>2. end.asks = "end"
  OBVIOUS
<1> HIDE DEF end
<1> QED
  BY <1>1, <1>2 DEF LockDialogs

LEMMA NextLockDialogs == Inv /\ LockDialogs(dialogs) /\ [Next]_vars => LockDialogs(dialogs')
<1> SUFFICES ASSUME Inv, LockDialogs(dialogs), [Next]_vars PROVE LockDialogs(dialogs')
  OBVIOUS
<1>1. DialogsOK(dialogs)
  BY DEF Inv
<1>2. ASSUME dialogs' \subseteq dialogs PROVE LockDialogs(dialogs')
  BY <1>2 DEF LockDialogs
<1>3. ASSUME NEW s, NEW to, NEW force, Go(s, to, force) \/ GoToUnit(s, to, force)
      PROVE  LockDialogs(dialogs')
  BY <1>1, <1>3, GoLocks
<1>4. CASE FollowRedirect \/ (\E u \in Unit : SelectUnit(u))
           \/ (\E u \in Unit, given \in GivenTime \cup {NotANumber} : Goto(u, given))
  BY <1>3, <1>4 DEF FollowRedirect, SelectUnit, Goto
<1>5. CASE ProcessRequest
  BY <1>1, <1>3, <1>5, SupersededLocks DEF ProcessRequest, CarryOut
<1>6. CASE Resume
  BY <1>2, <1>3, <1>6 DEF Resume
<1>7. CASE RequestTestEnd
  <2>1. LockDialogs({})
    BY DEF LockDialogs
  <2> QED
    BY <1>1, <1>2, <1>7, <2>1, AskLocks, ConfirmEndLocks DEF RequestTestEnd
<1>8. ASSUME NEW d \in dialogs, AnswerStay(d) \/ AnswerLeave(d) PROVE LockDialogs(dialogs')
  <2>1. LockDialogs(dialogs \ {d})
    BY DEF LockDialogs
  <2> QED
    BY <1>2, <1>8, <2>1, ConfirmEndLocks DEF AnswerStay, AnswerLeave
<1>9. CASE SubmitCode \/ Tick \/ TimerEnded \/ Pause \/ ErrorOut \/ SaveBuffers \/ FinishEnding
           \/ (\E target \in RelativeTarget : RequestNavigation(target))
           \/ (\E done \in BOOLEAN : ReportProgress(done))
           \/ (\E shown \in SUBSET Conditional : EvaluateConditions(shown) \/ Load(shown))
           \/ (\E lock \in BOOLEAN : TerminateCommand(lock)) \/ UNCHANGED vars
  BY <1>2, <1>9 DEF SubmitCode, Tick, TimerEnded, Pause, ErrorOut, SaveBuffers, FinishEnding,
     LeaveEnded, RequestNavigation, ReportProgress, EvaluateConditions, Load, TerminateCommand, vars
<1> QED
  BY <1>4, <1>5, <1>6, <1>7, <1>8, <1>9 DEF Next, Answer

\* What the progress of a unit changes is no lock.
LEMMA ReportProgressMoves ==
  ASSUME Inv, NEW done \in BOOLEAN, ReportProgress(done)
  PROVE  /\ Moves(tc, tc') /\ SameTimes(tc, tc') /\ tc'.state = tc.state
         /\ SameAccess(tc, tc') /\ tc'.navigation = tc.navigation
<1> DEFINE complete == IF done THEN tc.complete \cup {tc.current} ELSE tc.complete \ {tc.current}
<1>1. complete \in SUBSET Unit
  BY DEF ReportProgress, Inv, Shown, Kept, ServiceState, UnitOrNone
<1>2. tc' = [tc EXCEPT !.complete = complete, !.testState.complete = complete]
  BY DEF ReportProgress
<1>3. tc \in ServiceState
  BY DEF Inv, Kept
<1> HIDE DEF complete
<1>4. Step(tc, tc')
  BY <1>1, <1>2, <1>3 DEF Step, ServiceState, TestState
<1>5. /\ tc'.current = tc.current /\ tc'.state = tc.state /\ SameTimes(tc, tc')
      /\ tc'.navigation = tc.navigation /\ SameAccess(tc, tc')
  BY <1>2, <1>3 DEF ServiceState, SameAccess, SameLocks, SameTimes
<1> QED
  BY <1>4, <1>5 DEF Moves, Redraws, SameAccess, SameLocks

\* The targets of a restored service are computed at the end.
LEMMA RestoredExact ==
  ASSUME NEW laststate \in TestState, NEW shown \in SUBSET Conditional
  PROVE  Exact(RestoreLastState(laststate, shown))
<1> DEFINE bare ==
      [state       |-> "INIT",
       current     |-> NoUnit,
       show        |-> Conditional \ shown,
       time        |-> {t \in Testlet : MaxTime[t] # 0 /\ laststate.timeLeft[t] = 0},
       code        |-> Coded \ laststate.clearedCode,
       afterLeave  |-> RestoredLocks(laststate),
       lockedUnits |-> laststate.lockedUnits,
       complete    |-> laststate.complete,
       timers      |-> laststate.timeLeft,
       timerId     |-> NoTimer,
       navigation  |-> [next |-> NoUnit, previous |-> NoUnit, first |-> NoUnit, last |-> NoUnit],
       testState   |-> laststate]
<1>1. RestoreLastState(laststate, shown) = UpdateNavigationState(bare)
  BY DEF RestoreLastState
<1>2. bare \in ServiceState
  <2>1. /\ RestoredLocks(laststate) \in SUBSET Testlet /\ Conditional \ shown \in SUBSET Testlet
        /\ Coded \ laststate.clearedCode \in SUBSET Testlet
    BY RestrictionAssumption DEF RestoredLocks, TestState
  <2>2. {t \in Testlet : MaxTime[t] # 0 /\ laststate.timeLeft[t] = 0} \in SUBSET Testlet
    OBVIOUS
  <2> QED
    BY <2>1, <2>2 DEF TestState, ServiceState, State, UnitOrNone, NavigationTargets
<1> HIDE DEF bare
<1> QED
  BY <1>1, <1>2, UpdateNavigationStateExact

\* What is loaded aims at open units.
LEMMA LoadAims ==
  ASSUME PlainLocks, Inv, SavedLocks, NEW shown \in SUBSET Conditional, Load(shown)
  PROVE  Aims(tc') /\ Elsewhere(tc', page')
<1> DEFINE s == RestoreLastState(saved, shown)
           resumed == IF saved.unit = NoUnit THEN 1 ELSE saved.unit
<1>1. saved \in TestState
  BY DEF Inv, Kept, Held
<1>2. /\ s \in ServiceState /\ s.current = NoUnit /\ s.testState = saved
      /\ s.show = {} /\ s.code = {} /\ s.lockedUnits = saved.lockedUnits
  BY <1>1, RestoredFacts DEF PlainLocks
<1>3. Exact(s)
  BY <1>1, RestoredExact
<1> HIDE DEF s
<1>4. Aims(s) /\ \A p : Elsewhere(s, p)
  <2>1. \A u \in s.lockedUnits \cup s.testState.lockedUnits : LockScope[ParentOf[u]] = "unit"
    BY <1>2 DEF SavedLocks
  <2> QED
    BY <1>2, <1>3, <2>1, ExactAims
<1>5. ASSUME NEW state \in State
      PROVE  /\ SetState(s, state) \in ServiceState /\ Aims(SetState(s, state))
             /\ \A p : Elsewhere(SetState(s, state), p)
  <2>1. Moves(s, SetState(s, state))
    BY <1>2, MethodsMove
  <2> QED
    BY <1>4, <2>1, MovesKeep DEF Moves, Step
<1>6. CASE tc' = SetState(s, "PAUSED")
  BY <1>5, <1>6 DEF State
<1>7. CASE Activate(SetState(s, "RUNNING"), resumed, "loading")
  <2>1. resumed \in UnitOrNone
    BY <1>1, BookletAssumption DEF TestState, UnitOrNone, Unit
  <2>2. "RUNNING" \in State
    BY DEF State
  <2> HIDE DEF resumed
  <2> QED
    BY <1>5, <1>7, <2>1, <2>2, ActivateAims
<1> QED
  BY <1>6, <1>7 DEF Load, s

LEMMA NextAims ==
  ASSUME PlainLocks, Inv, Aiming, [Next]_vars
  PROVE  Aims(tc') /\ Elsewhere(tc', page')
<1>1. tc \in ServiceState /\ Aims(tc) /\ Elsewhere(tc, page) /\ DialogsOK(dialogs)
  BY DEF Inv, Kept, Aiming
<1>2. ASSUME NEW r, Moves(tc, r), tc' = r, page' = page PROVE Aims(tc') /\ Elsewhere(tc', page')
  BY <1>1, <1>2, MovesKeep
<1>3. Moves(tc, tc)
  BY <1>1, MethodsMove
<1>4. redirect \in UnitOrNone /\ requests \in Seq(Request)
  BY DEF Inv, RouterOK
<1>5. CASE FollowRedirect
  BY <1>1, <1>4, <1>5, GoAims DEF FollowRedirect
<1>6. ASSUME NEW u \in Unit, SelectUnit(u) PROVE Aims(tc') /\ Elsewhere(tc', page')
  BY <1>1, <1>6, GoToUnitAims DEF SelectUnit
<1>7. CASE SubmitCode
  BY <1>1, <1>7 DEF SubmitCode, LockedByCode, Aims
<1>8. CASE RequestTestEnd
  <2>1. CASE ConfirmEnd(tc, {})
    BY <1>1, <2>1, ConfirmEndAims
  <2>2. CASE Stay(tc)
    BY <1>2, <1>3, <2>2 DEF Stay
  <2>3. CASE Ask(tc, NoUnit, TRUE)
    <3>1. Stay(tc) \/ Stay(SolveTimer(tc, NoUnit))
      BY <2>3 DEF Ask
    <3> QED
      BY <1>1, <1>2, <3>1, MethodsMove DEF Stay, UnitOrNone
  <2>4. CASE Checked(tc, FALSE) /\ ConfirmEnd(SolveLeave(tc, NoUnit), {})
    <3>1. page = "unit" /\ tc.current # NoUnit /\ NoUnit \in UnitOrNone
      BY <2>4 DEF Checked, FreeToLeave, UnitOrNone
    <3>2. SolveLeave(tc, NoUnit) \in ServiceState
      BY <1>1, <3>1, SolveLeaveStep DEF Step
    <3> QED
      BY <1>1, <2>4, <3>1, <3>2, SolveLeaveAims, ConfirmEndAims
  <2> QED
    BY <1>8, <2>1, <2>2, <2>3, <2>4 DEF RequestTestEnd
<1>9. ASSUME NEW d \in dialogs, AnswerStay(d) \/ AnswerLeave(d)
      PROVE  Aims(tc') /\ Elsewhere(tc', page')
  <2> DEFINE s == OnConfirmed(d)
  <2>1. d.to \in UnitOrNone /\ (d.asks = "lock" => d.unit \in Unit)
    BY <1>1 DEF DialogsOK, Dialog, UnitOrNone
  <2>2. s \in ServiceState
    BY <1>1, <2>1, CancelTimerStep, LeaveLockStep DEF OnConfirmed, Step
  <2>3. Aims(s) /\ Elsewhere(s, page)
    <3>1. CASE d.asks = "lock"
      <4>1. LockScope[ParentOf[d.unit]] # "unit"
        BY <3>1 DEF Aiming, LockDialogs, PlainLocks
      <4>2. s = LeaveLock(tc, d.unit)
        BY <3>1 DEF OnConfirmed
      <4> QED
        BY <1>1, <2>1, <3>1, <4>1, <4>2, LeaveLockAims
    <3>2. CASE d.asks = "timer"
      <4>1. s = CancelTimer(tc)
        BY <3>2 DEF OnConfirmed
      <4> QED
        BY <1>1, <4>1, MethodsMove, MovesKeep
    <3>3. CASE d.asks \notin {"lock", "timer"}
      BY <1>1, <3>3 DEF OnConfirmed
    <3> QED
      BY <3>1, <3>2, <3>3
  <2>4. \/ AnswerStay(d) \/ BeginEnding(s) \/ ConfirmEnd(s, dialogs \ {d})
        \/ Activate(s, d.to, page) \/ Stay(s)
    BY <1>9 DEF AnswerLeave
  <2> HIDE DEF s
  <2>5. CASE AnswerStay(d)
    BY <1>2, <1>3, <2>5 DEF AnswerStay
  <2>6. CASE BeginEnding(s) \/ ConfirmEnd(s, dialogs \ {d})
    BY <2>2, <2>3, <2>6, ConfirmEndAims
  <2>7. CASE Activate(s, d.to, page)
    BY <2>1, <2>2, <2>3, <2>7, ActivateAims
  <2>8. CASE Stay(s)
    BY <2>3, <2>8 DEF Stay
  <2> QED
    BY <2>4, <2>5, <2>6, <2>7, <2>8
<1>10. ASSUME NEW done \in BOOLEAN, ReportProgress(done) PROVE Aims(tc') /\ Elsewhere(tc', page')
  BY <1>2, <1>10, ReportProgressMoves DEF ReportProgress
<1>11. ASSUME NEW shown, EvaluateConditions(shown) PROVE Aims(tc') /\ Elsewhere(tc', page')
  BY <1>1, <1>11 DEF EvaluateConditions, PlainLocks, Aims
<1>12. ASSUME NEW shown \in SUBSET Conditional, Load(shown) PROVE Aims(tc') /\ Elsewhere(tc', page')
  BY <1>12, LoadAims DEF Aiming
<1>13. CASE ProcessRequest
  <2>1. Head(requests).force \in BOOLEAN
    <3>1. Head(requests) \in Request
      BY <1>4, <1>13 DEF ProcessRequest
    <3> QED
      BY <3>1 DEF Request
  <2>2. /\ tc.navigation.next \in UnitOrNone /\ tc.navigation.previous \in UnitOrNone
        /\ tc.navigation.first \in UnitOrNone /\ tc.navigation.last \in UnitOrNone
    BY <1>1 DEF ServiceState, NavigationTargets
  <2>3. CASE tc' = LeftUnchecked(tc) /\ page' = "status"
    BY <1>1, <2>3, MethodsMove, MovesKeep DEF Elsewhere
  <2> QED
    BY <1>1, <1>13, <2>1, <2>2, <2>3, GoAims DEF ProcessRequest, CarryOut
<1>14. CASE Tick
  <2>1. tc.timerId \in Testlet /\ tc.timers[tc.timerId] - 1 \in Int
    BY <1>1, <1>14 DEF Tick, ServiceState, Times
  <2> QED
    BY <1>1, <1>2, <1>14, <2>1, MethodsMove DEF Tick
<1>15. CASE TimerEnded
  BY <1>1, <1>2, <1>15, MethodsMove DEF TimerEnded
<1>16. CASE Pause
  <2>1. Moves(tc, InterruptTimer(tc)) /\ InterruptTimer(tc) \in ServiceState
    BY <1>1, MethodsMove DEF Moves, Step
  <2>2. Moves(InterruptTimer(tc), SetState(InterruptTimer(tc), "PAUSED"))
    BY <2>1, MethodsMove DEF State
  <2>3. Moves(tc, SetState(InterruptTimer(tc), "PAUSED"))
    BY <2>1, <2>2, MovesChain
  <2> QED
    BY <1>2, <1>16, <2>3 DEF Pause
<1>17. CASE Resume
  <2>1. Moves(tc, SetState(tc, "RUNNING"))
    BY <1>1, MethodsMove DEF State
  <2>2. /\ SetState(tc, "RUNNING") \in ServiceState
        /\ Aims(SetState(tc, "RUNNING")) /\ Elsewhere(SetState(tc, "RUNNING"), page)
    BY <1>1, <2>1, MovesKeep DEF Moves, Step
  <2>3. tc.current # NoUnit => tc.current \in Unit
    BY <1>1 DEF ServiceState, UnitOrNone
  <2> QED
    BY <1>2, <1>17, <2>1, <2>2, <2>3, GoToUnitAims DEF Resume
<1>18. ASSUME NEW lock \in BOOLEAN, TerminateCommand(lock) PROVE Aims(tc') /\ Elsewhere(tc', page')
  BY <1>1, <1>2, <1>18, MethodsMove DEF TerminateCommand
<1>19. ASSUME NEW u \in Unit, NEW given \in GivenTime \cup {NotANumber}, Goto(u, given)
       PROVE  Aims(tc') /\ Elsewhere(tc', page')
  <2> DEFINE s == SetState(tc, "RUNNING")
  <2>1. s \in ServiceState /\ Aims(s)
    <3>1. Moves(tc, s)
      BY <1>1, MethodsMove DEF State
    <3> HIDE DEF s
    <3> QED
      BY <1>1, <3>1, MovesKeep DEF Moves, Step
  <2>2. GoToUnit(PrepareGoto(s, u, given), u, TRUE)
    BY <1>19 DEF Goto
  <2> HIDE DEF s
  <2> QED
    BY <2>1, <2>2, PrepareGotoAims, GoToUnitAims
<1>20. CASE ErrorOut
  BY <1>1, <1>2, <1>20, MethodsMove DEF ErrorOut, State
<1>21. CASE FinishEnding
  BY <1>1, <1>21, MethodsMove, MovesKeep DEF FinishEnding, LeaveEnded, Elsewhere
<1>22. CASE SaveBuffers \/ UNCHANGED vars \/ \E target \in RelativeTarget : RequestNavigation(target)
  BY <1>2, <1>3, <1>22 DEF SaveBuffers, vars, RequestNavigation
<1> QED
  BY <1>5, <1>6, <1>7, <1>8, <1>9, <1>10, <1>11, <1>12, <1>13, <1>14, <1>15, <1>16, <1>17, <1>18,
     <1>19, <1>20, <1>21, <1>22 DEF Next, Answer

LEMMA NextAiming ==
  ASSUME PlainLocks, Inv, Aiming, [Next]_vars
  PROVE  Aiming'
<1>1. Aims(tc') /\ Elsewhere(tc', page')
  BY NextAims
<1>2. LockDialogs(dialogs')
  BY NextLockDialogs DEF Aiming
<1>3. SavedLocks'
  <2>1. saved' = saved \/ saved' = tc.testState
    BY DEF Next, vars, outside, FollowRedirect, SelectUnit, RequestNavigation, SubmitCode,
       RequestTestEnd, Answer, AnswerStay, AnswerLeave, ReportProgress, EvaluateConditions, Load,
       ProcessRequest, CarryOut, Tick, TimerEnded, Pause, Resume, TerminateCommand, Goto,
       ErrorOut, FinishEnding, LeaveEnded, SaveBuffers
  <2> QED
    BY <2>1 DEF Aiming, Aims, SavedLocks
<1> QED
  BY <1>1, <1>2, <1>3 DEF Aiming, Aims, Elsewhere, LockDialogs, UnitIsInaccessible, Locked,
     LocksAbove, LockedByCode, LockedThrough

LEMMA InitAiming == PlainLocks /\ Init => Aiming
<1> SUFFICES ASSUME PlainLocks, Init PROVE Aiming
  OBVIOUS
<1>1. NewTestState \in TestState /\ {} \in SUBSET Conditional /\ NewTestState.lockedUnits = {}
  BY DEF NewTestState, TestState, State, UnitOrNone, Times, NotStarted
<1>2. /\ tc \in ServiceState /\ tc.current = NoUnit /\ tc.testState = NewTestState
      /\ tc.show = {} /\ tc.code = {} /\ tc.lockedUnits = {}
  BY <1>1, RestoredFacts DEF Init, PlainLocks
<1>3. Exact(tc)
  BY <1>1, RestoredExact DEF Init
<1>4. Aims(tc) /\ Elsewhere(tc, page)
  BY <1>1, <1>2, <1>3, ExactAims
<1> QED
  BY <1>1, <1>4 DEF Init, Aiming, LockDialogs, SavedLocks

\* The testee has come to an open unit, or there is none.
MovedOn(s) ==
  ~UnitIsInaccessible(s, s.current) \/ (Exact(s) => \A u \in Unit : UnitIsInaccessible(s, u))

\* A redirect to an open unit, from a closed one that nothing holds the testee in.
GetsAway(s, p, to) ==
  /\ ~UnitIsInaccessible(s, to)
  /\ p = "unit" => /\ UnitIsInaccessible(s, s.current)
                   /\ FreeToLeave(s) \/ s.timerId = NoTimer

WayOut ==
  movedBy = "timer" =>
    /\ redirect = NoUnit /\ page = "unit" /\ tc.state = "RUNNING" /\ ~Waiting("timer") => MovedOn(tc)
    /\ redirect # NoUnit => GetsAway(tc, page, redirect)

LEMMA OpenAccess ==
  ASSUME NEW s \in ServiceState, NEW u \in Unit
  PROVE  /\ Open(s, u).current = u
         /\ UnitIsInaccessible(Open(s, u), u) <=> UnitIsInaccessible(s, u)
  BY OpenFacts, OpenRedraws, AccessAlike

\* Where the targets are exact and there are none, nothing is open but the unit itself.
LEMMA NoTargets ==
  ASSUME NEW s \in ServiceState, s.current \in Unit, s.navigation.next = NoUnit,
         s.navigation.previous = NoUnit, UnitIsInaccessible(s, s.current), Exact(s)
  PROVE  \A u \in Unit : UnitIsInaccessible(s, u)
<1> DEFINE n == GetNavigationState(s, s.current)
<1>1. /\ n.next = NoUnit => \A v \in Unit : v > s.current => UnitIsInaccessible(s, v)
      /\ n.previous = NoUnit => \A v \in Unit : v < s.current => UnitIsInaccessible(s, v)
  BY Navigates DEF UnitOrNone
<1>2. n.next = NoUnit /\ n.previous = NoUnit
  BY DEF Exact
<1> HIDE DEF n
<1>3. \A v \in Unit : v > s.current \/ v < s.current \/ v = s.current
  BY DEF Unit
<1> QED
  BY <1>1, <1>2, <1>3

\* The forced way on leads to an open unit, or back, or nowhere since there is none.
LEMMA ForcedWayOut ==
  ASSUME NEW s \in ServiceState, Aims(s), Shown(s, page), Go(s, s.navigation.next, TRUE)
  PROVE  /\ redirect' = NoUnit /\ page' = "unit" /\ tc'.state = "RUNNING" => MovedOn(tc')
         /\ redirect' # NoUnit => GetsAway(tc', page', redirect')
<1> DEFINE to == s.navigation.next
           r == LeftUnchecked(s)
<1>1. to \in UnitOrNone /\ (to # NoUnit => to \in Unit /\ ~UnitIsInaccessible(s, to))
  BY DEF Aims, ServiceState, NavigationTargets, UnitOrNone
<1>2. CASE to # NoUnit /\ to = s.current /\ Stay(s)
  BY <1>1, <1>2 DEF Stay, MovedOn
<1>3. CASE Activate(r, to, page)
  <2>1. /\ r \in ServiceState /\ r.current = s.current /\ r.navigation = s.navigation
        /\ SameAccess(s, r)
    BY LeftUncheckedStep, LeftUncheckedRedraws, InterruptTimerFacts
       DEF Step, Redraws, LeftUnchecked, SameUnit, SameAccess, SameLocks
  <2>2. \A u : UnitIsInaccessible(r, u) <=> UnitIsInaccessible(s, u)
    BY <2>1, AccessAlike
  <2>3. r.current \in UnitOrNone /\ (page = "unit" => r.current \in Unit)
    BY <2>1 DEF ServiceState, Shown, UnitOrNone
  <2>4. page = "unit" => FreeToLeave(r) \/ r.timerId = NoTimer
    BY InterruptTimerFacts DEF LeftUnchecked
  <2> HIDE DEF r, to
  <2>5. CASE tc' = r /\ page' = page /\ redirect' = NoUnit /\ ActivationBlocked(r)
    BY <2>5 DEF ActivationBlocked, MovedOn
  <2>6. CASE /\ tc' = r /\ page' = page /\ redirect' = NoUnit
             /\ to = NoUnit /\ Detour(r, NoUnit) = NoUnit
    <3>1. ASSUME page = "unit", UnitIsInaccessible(r, r.current), Exact(r)
          PROVE  \A u \in Unit : UnitIsInaccessible(r, u)
      <4>1. r.navigation.previous = NoUnit /\ r.navigation.next = NoUnit
        BY <2>1, <2>6, <3>1 DEF Detour, to
      <4> QED
        BY <2>1, <2>3, <3>1, <4>1, NoTargets
    <3> QED
      BY <2>6, <3>1 DEF MovedOn
  <2>7. CASE tc' = r /\ page' = page /\ Detour(r, to) # NoUnit /\ redirect' = Detour(r, to)
    <3>1. to = NoUnit
      BY <1>1, <2>2, <2>7 DEF Detour
    <3>2. /\ redirect' = r.navigation.previous
          /\ r.current = NoUnit \/ UnitIsInaccessible(r, r.current)
      BY <2>7, <3>1 DEF Detour
    <3>3. ~UnitIsInaccessible(r, redirect')
      BY <2>1, <2>2, <2>7, <3>2 DEF Aims
    <3>4. page = "unit" => UnitIsInaccessible(r, r.current)
      BY <2>3, <3>2 DEF Unit, NoUnit
    <3> QED
      BY <2>4, <2>7, <3>3, <3>4 DEF GetsAway
  <2>8. CASE to # NoUnit /\ tc' = Open(r, to) /\ redirect' = NoUnit
    BY <1>1, <2>1, <2>2, <2>8, OpenAccess DEF MovedOn
  <2> QED
    BY <1>3, <2>5, <2>6, <2>7, <2>8 DEF Activate
<1> QED
  BY <1>2, <1>3 DEF Go, Checked

\* A redirect to an open unit is followed to the end.
LEMMA FollowsWayOut ==
  ASSUME PlainLocks, NEW s \in ServiceState, Aims(s), Shown(s, page), NEW to \in Unit,
         GetsAway(s, page, to), Go(s, to, FALSE)
  PROVE  /\ redirect' = NoUnit
         /\ page' = "unit" /\ tc'.state = "RUNNING" => MovedOn(tc')
<1>1. to # NoUnit
  BY DEF Unit, NoUnit
<1>2. ~(page = "unit" /\ to = s.current)
  BY DEF GetsAway
<1>3. ASSUME NEW r \in ServiceState, ~UnitIsInaccessible(r, to), Activate(r, to, page)
      PROVE  /\ redirect' = NoUnit
             /\ page' = "unit" /\ tc'.state = "RUNNING" => MovedOn(tc')
  <2>1. Detour(r, to) = NoUnit
    BY <1>1, <1>3 DEF Detour
  <2>2. CASE tc' = r /\ redirect' = NoUnit /\ ActivationBlocked(r)
    BY <2>2 DEF ActivationBlocked
  <2>3. CASE tc' = Open(r, to) /\ redirect' = NoUnit
    BY <1>3, <2>3, OpenAccess DEF MovedOn
  <2> QED
    BY <1>1, <1>3, <2>1, <2>2, <2>3 DEF Activate
<1>4. CASE ~Checked(s, FALSE)
  <2>1. Activate(LeftUnchecked(s), to, page) /\ LeftUnchecked(s) = s
    BY <1>2, <1>4 DEF Go, Checked, LeftUnchecked
  <2> QED
    BY <1>3, <2>1 DEF GetsAway
<1>5. CASE Checked(s, FALSE)
  <2>1. /\ page = "unit" /\ ~FreeToLeave(s) /\ ~Locked(s, s.current) /\ s.current \in Unit
        /\ s.timerId = NoTimer
    BY <1>5 DEF Checked, FreeToLeave, GetsAway, ServiceState, UnitOrNone
  <2>2. s.current \in s.lockedUnits
    BY <2>1, PlainAccess DEF GetsAway, Aims
  <2>3. LockScope[ParentOf[s.current]] = "unit" /\ ParentOf[s.current] \notin LockConfirm
    BY <2>2 DEF Aims, PlainLocks
  <2>4. ~LeavesTimedBlock(s, to)
    BY <2>1 DEF LeavesTimedBlock
  <2>5. ~Denies(s, to) /\ ~AsksForTimer(s, to) /\ ~AsksForLock(s, to)
    BY <2>2, <2>3, <2>4 DEF Denies, Incomplete, AsksForTimer, AsksForLock
  <2>6. Activate(SolveLeave(s, to), to, page)
    BY <1>2, <1>5, <2>5 DEF Go, Ask
  <2>7. SolveTimer(s, to) = s
    BY <2>4 DEF SolveTimer
  <2>8. SolveLeave(s, to) = s \/ SolveLeave(s, to) = LeaveLock(s, s.current)
    BY <2>7 DEF SolveLeave
  <2>9. LET q == LeaveLock(s, s.current) IN
        /\ q \in ServiceState /\ SameLocks(s, q) /\ q.lockedUnits = s.lockedUnits
    <3>1. LET q == LeaveLock(s, s.current) IN
          /\ q \in ServiceState /\ q.show = s.show /\ q.time = s.time /\ q.code = s.code
          /\ q.afterLeave = IF ForceNaviRestrictions /\ LockScope[ParentOf[s.current]] = "testlet"
                            THEN s.afterLeave \cup {ParentOf[s.current]} ELSE s.afterLeave
          /\ q.lockedUnits = IF ForceNaviRestrictions /\ LockScope[ParentOf[s.current]] = "unit"
                             THEN s.lockedUnits \cup {s.current} ELSE s.lockedUnits
      BY <2>1, LeaveLockStep, LeaveLockFacts DEF Step
    <3>2. s.lockedUnits \cup {s.current} = s.lockedUnits
      BY <2>2
    <3> QED
      BY <2>3, <3>1, <3>2 DEF SameLocks
  <2>10. ~UnitIsInaccessible(SolveLeave(s, to), to) /\ SolveLeave(s, to) \in ServiceState
    BY <2>8, <2>9, AccessAlike DEF GetsAway, SameAccess
  <2> QED
    BY <1>3, <2>6, <2>10
<1> QED
  BY <1>4, <1>5

LEMMA NextWayOut ==
  ASSUME PlainLocks, Inv, RequestsOK, Aiming, WayOut, [Next]_vars
  PROVE  WayOut'
<1>1. tc \in ServiceState /\ Aims(tc) /\ Shown(tc, page) /\ requests \in Seq(Request)
  BY DEF Inv, RouterOK, Kept, Aiming
<1>2. ASSUME movedBy' # "timer" PROVE WayOut'
  BY <1>2 DEF WayOut
<1>3. ASSUME redirect' = NoUnit, page' = "unit" /\ tc'.state = "RUNNING" => MovedOn(tc')
      PROVE  WayOut'
  BY <1>3 DEF WayOut, MovedOn, Exact
<1>4. ASSUME redirect' = NoUnit, page' # "unit" \/ tc'.state # "RUNNING" PROVE WayOut'
  BY <1>3, <1>4
<1>5. ASSUME redirect' = NoUnit, Waiting("timer")' PROVE WayOut'
  BY <1>5 DEF WayOut
<1>6. ASSUME Quiet, UNCHANGED <<page, redirect, movedBy>>, tc'.state = tc.state,
             tc'.current = tc.current, tc'.navigation = tc.navigation, SameAccess(tc, tc'),
             requests' = requests \/ \E r : requests' = Append(requests, r)
      PROVE  WayOut'
  <2>1. Waiting("timer") => Waiting("timer")'
    <3>1. CASE requests' = requests
      BY <3>1 DEF Waiting
    <3>2. ASSUME NEW r, requests' = Append(requests, r), NEW i \in 1..Len(requests),
                 requests[i].by = "timer"
          PROVE  Waiting("timer")'
      <4>1. i \in 1..Len(requests') /\ requests'[i] = requests[i]
        BY <1>1, <3>2
      <4> QED
        BY <3>2, <4>1 DEF Waiting
    <3> QED
      BY <1>6, <3>1, <3>2 DEF Waiting
  <2>2. MovedOn(tc) => MovedOn(tc')
    <3>1. /\ \A u : UnitIsInaccessible(tc', u) <=> UnitIsInaccessible(tc, u)
          /\ Exact(tc') <=> Exact(tc)
      BY <1>6, AccessAlike DEF Exact
    <3> QED
      BY <1>6, <3>1 DEF MovedOn
  <2>3. CASE movedBy = "timer" /\ ~Waiting("timer")' /\ page = "unit" /\ tc.state = "RUNNING"
    <3>1. MovedOn(tc')
      BY <1>6, <2>1, <2>2, <2>3 DEF WayOut, Quiet
    <3> QED
      BY <1>3, <1>6, <3>1 DEF Quiet
  <2> QED
    BY <1>2, <1>4, <1>5, <1>6, <2>3 DEF Quiet
<1>7. SameAccess(tc, tc)
  BY DEF SameAccess, SameLocks
<1>8. CASE FollowRedirect
  <2>1. redirect \in Unit
    BY <1>8 DEF FollowRedirect, Inv, RouterOK, UnitOrNone
  <2>2. movedBy = "timer" => GetsAway(tc, page, redirect)
    BY <1>8 DEF FollowRedirect, WayOut
  <2> QED
    BY <1>1, <1>2, <1>3, <1>8, <2>1, <2>2, FollowsWayOut DEF FollowRedirect
<1>9. CASE ProcessRequest
  <2> DEFINE r == Head(requests)
  <2>1. r \in OwnRequest /\ movedBy' = r.by
    BY <1>9 DEF ProcessRequest, CarryOut, RequestsOK
  <2>2. CASE r.by = "timer"
    <3>1. r.target = "NEXT" /\ r.force = TRUE
      BY <2>1, <2>2 DEF OwnRequest, Asked
    <3>2. Go(tc, tc.navigation.next, TRUE)
      BY <1>9, <3>1 DEF ProcessRequest, CarryOut
    <3>3. /\ redirect' = NoUnit /\ page' = "unit" /\ tc'.state = "RUNNING" => MovedOn(tc')
          /\ redirect' # NoUnit => GetsAway(tc', page', redirect')
      BY <1>1, <3>2, ForcedWayOut
    <3> QED
      BY <3>3 DEF WayOut, MovedOn, Exact, GetsAway, FreeToLeave
  <2> QED
    BY <1>2, <2>1, <2>2
<1>10. CASE TimerEnded
  <2>1. CASE ForceTimeRestrictions
    <3>1. requests' = Append(requests, [by |-> "timer", target |-> "NEXT", force |-> TRUE])
      BY <1>10, <2>1 DEF TimerEnded, Enqueue
    <3>2. Len(requests') \in 1..Len(requests') /\ requests'[Len(requests')].by = "timer"
      BY <1>1, <3>1
    <3> QED
      BY <1>5, <1>10, <3>2 DEF TimerEnded, Quiet, Waiting
  <2>2. CASE ~ForceTimeRestrictions
    <3> DEFINE s == SetTimeLeft(tc, tc.timerId, 0)
    <3>1. tc.timerId \in Testlet /\ 0 \in Int
      BY <1>1, <1>10 DEF TimerEnded, ServiceState
    <3>2. /\ s \in ServiceState /\ SameUnit(tc, s) /\ SameAccess(tc, s)
          /\ s.navigation = tc.navigation
      BY <1>1, <3>1, SetTimeLeftStep, SetTimeLeftFacts, PlainRedraws DEF Step, SameAccess
    <3>3. tc' = InterruptTimer(s)
      BY <1>10, <2>2 DEF TimerEnded, CloseTimedBlock
    <3> HIDE DEF s
    <3>4. /\ SameUnit(s, tc') /\ SameAccess(s, tc') /\ tc'.navigation = s.navigation
      BY <3>2, <3>3, InterruptTimerFacts, PlainRedraws DEF SameAccess
    <3>5. SameUnit(tc, tc') /\ SameAccess(tc, tc') /\ tc'.navigation = tc.navigation
      BY <3>2, <3>4 DEF SameUnit, SameAccess, SameLocks
    <3>6. requests' = requests
      BY <1>10, <2>2 DEF TimerEnded
    <3> QED
      BY <1>6, <1>10, <3>5, <3>6 DEF TimerEnded, SameUnit
  <2> QED
    BY <2>1, <2>2
<1>11. CASE Tick
  <2>1. tc.timerId \in Testlet /\ tc.timers[tc.timerId] - 1 \in Int
    BY <1>1, <1>11 DEF Tick, ServiceState, Times
  <2>2. /\ SameUnit(tc, tc') /\ SameAccess(tc, tc') /\ tc'.navigation = tc.navigation
    BY <1>1, <1>11, <2>1, SetTimeLeftFacts, PlainRedraws DEF Tick, SameAccess
  <2> QED
    BY <1>6, <1>11, <2>2 DEF Tick, SameUnit
<1>12. CASE \E done \in BOOLEAN : ReportProgress(done)
  <2>1. Quiet /\ UNCHANGED <<page, redirect, movedBy, requests>>
    BY <1>12 DEF ReportProgress
  <2>2. /\ tc'.state = tc.state /\ tc'.current = tc.current /\ SameAccess(tc, tc')
        /\ tc'.navigation = tc.navigation
    BY <1>12, ReportProgressMoves DEF Moves, Redraws
  <2> QED
    BY <1>6, <2>1, <2>2
<1>13. CASE SubmitCode \/ \E shown \in SUBSET Conditional : EvaluateConditions(shown)
  BY <1>1, <1>13 DEF SubmitCode, LockedByCode, EvaluateConditions, PlainLocks, Aims
<1>14. CASE Pause \/ (\E lock \in BOOLEAN : TerminateCommand(lock)) \/ ErrorOut
  <2>1. redirect' = NoUnit
    BY <1>14 DEF Pause, TerminateCommand, Commanded, ErrorOut, Quiet
  <2>2. CASE Pause
    <3>1. tc'.state = "PAUSED"
      BY <1>1, <2>2, InterruptTimerStep, SetStateFacts DEF Pause, Step, State
    <3> QED
      BY <1>4, <2>1, <3>1
  <2>3. CASE \E lock \in BOOLEAN : TerminateCommand(lock)
    BY <1>1, <1>4, <2>1, <2>3, TerminateFacts DEF TerminateCommand
  <2>4. CASE ErrorOut
    BY <1>1, <1>4, <2>1, <2>4, SetStateFacts DEF ErrorOut, State
  <2> QED
    BY <1>14, <2>2, <2>3, <2>4
<1>15. CASE Resume
  BY <1>1, <1>2, <1>4, <1>15 DEF Resume, Commanded, Quiet, Shown
<1>16. ASSUME NEW d \in dialogs, Quiet, AnswerStay(d) \/ AnswerLeave(d) PROVE WayOut'
  BY <1>2, <1>6, <1>7, <1>16 DEF AnswerStay, AnswerLeave
<1>17. CASE SaveBuffers \/ \E target \in RelativeTarget : RequestNavigation(target)
  BY <1>6, <1>7, <1>17 DEF SaveBuffers, RequestNavigation, Active, Enqueue
<1>18. CASE FinishEnding
  BY <1>4, <1>18 DEF FinishEnding, LeaveEnded
<1>19. CASE RequestTestEnd \/ (\E u \in Unit : SelectUnit(u))
            \/ (\E u \in Unit, given \in GivenTime \cup {NotANumber} : Goto(u, given))
            \/ (\E shown \in SUBSET Conditional : Load(shown))
  BY <1>2, <1>19 DEF RequestTestEnd, SelectUnit, Goto, Load
<1>20. CASE UNCHANGED vars
  <2>1. (WayOut <=> WayOut')
    BY <1>20, Zenon DEF vars, WayOut, Waiting, MovedOn, Exact, GetsAway, FreeToLeave
  <2> QED
    BY <2>1
<1> QED
  BY <1>8, <1>9, <1>10, <1>11, <1>12, <1>13, <1>14, <1>15, <1>16, <1>17, <1>18, <1>19, <1>20
     DEF Next, Answer

LEMMA AimingHolds == PlainLocks => (Spec => [](Aiming /\ WayOut))
<1> SUFFICES ASSUME PlainLocks PROVE Spec => [](Aiming /\ WayOut)
  OBVIOUS
<1>1. Init => Aiming /\ WayOut
  BY InitAiming DEF Init, WayOut
<1>2. Inv /\ RequestsOK /\ Aiming /\ WayOut /\ [Next]_vars => (Aiming /\ WayOut)'
  BY NextAiming, NextWayOut
<1> QED
  BY <1>1, <1>2, InvHolds, RequestsHold, PTL DEF Spec

\* In booklets with plain locks a testee whose time is over is not left in the closed block:
\* the forced way on, the way back it may turn into, and whatever commands, answers and
\* failures come in between, lead to an open unit, unless all are closed.
THEOREM NotLeftCorrect ==
  ASSUME PlainLocks
  PROVE  Spec => []NotLeftInClosedBlock
<1>1. Inv /\ WayOut => NotLeftInClosedBlock
  <2> SUFFICES ASSUME Inv, WayOut, Settled, dialogs = {}, page = "unit", tc.state = "RUNNING",
                      movedBy = "timer", tc.navigation = GetNavigationState(tc, tc.current),
                      UnitIsInaccessible(tc, tc.current)
               PROVE  \A u \in Unit : UnitIsInaccessible(tc, u)
    BY DEF NotLeftInClosedBlock
  <2>1. ~Waiting("timer")
    BY DEF Settled, Waiting
  <2>2. MovedOn(tc)
    BY <2>1 DEF Settled, WayOut
  <2> QED
    BY <2>2 DEF MovedOn, Exact
<1> QED
  BY <1>1, InvHolds, AimingHolds, PTL

----------------------------------------------------------------------------------
(* The timer of the unit that is worked on *)

\* Booklets in whose timed blocks nothing else holds the testee back: no unit has to be
\* complete and no lock is asked for, and no condition opens or closes a unit behind one.  The
\* proof relies on it where a navigation has stopped the timer and is not completed yet.
SteadyTimedBlocks ==
  /\ PlainTimedBlocks
  /\ \A t \in Testlet : TimerOf(t) # NoTimer =>
       /\ ForceNaviRestrictions => DenyIncomplete[t] = "OFF"
       /\ LockScope[t] = "none" \/ t \notin LockConfirm
  /\ \A u, v \in Unit : u < v /\ TimerOfUnit(u) # NoTimer =>
       Above[ParentOf[v]] \cap Conditional = {}

\* The testee works in a timed block and no timer runs.
Idles(s, p) ==
  /\ ForceTimeRestrictions /\ p = "unit" /\ s.state = "RUNNING"
  /\ TimerOfUnit(s.current) # NoTimer /\ ~Locked(s, s.current)
  /\ s.timerId = NoTimer

NoneAhead(s) == \A v \in Unit : v > s.current => UnitIsInaccessible(s, v)
LastOpen(s) == s.navigation.next = NoUnit /\ NoneAhead(s)

\* Where nothing comes next, nothing is open ahead; and what comes next lies ahead.
Foresees(s, p) ==
  p = "unit" /\ s.current # NoUnit /\ ~Locked(s, s.current) =>
    /\ s.navigation.next = NoUnit => NoneAhead(s)
    /\ s.navigation.next # NoUnit => s.navigation.next > s.current

\* A navigation that gets somewhere else: to an open unit or to any unit ahead.
Away(s, to) ==
  to # NoUnit /\ ((~UnitIsInaccessible(s, to) /\ to # s.current) \/ s.current < to)

\* Whoever idles is about to be led away, or is in the last unit that is open.
Onward(s, p, re) ==
  Idles(s, p) =>
    \/ LastOpen(s)
    \/ re # NoUnit /\ re # s.current /\ ~UnitIsInaccessible(s, re)

LEMMA ExactForesees ==
  ASSUME NEW s \in ServiceState, Exact(s)
  PROVE  \A p : Foresees(s, p)
<1> DEFINE n == GetNavigationState(s, s.current)
<1>1. /\ n.next = NoUnit => \A v \in Unit : v > s.current => UnitIsInaccessible(s, v)
      /\ n.next # NoUnit => n.next > s.current /\ ~UnitIsInaccessible(s, n.next)
  BY Navigates DEF ServiceState
<1>2. s.navigation = n
  BY DEF Exact
<1> HIDE DEF n
<1> QED
  BY <1>1, <1>2 DEF Foresees, NoneAhead

LEMMA AlikeAhead ==
  ASSUME NEW s, NEW r, r.current = s.current, SameAccess(s, r)
  PROVE  /\ Locked(r, r.current) <=> Locked(s, s.current)
         /\ NoneAhead(r) <=> NoneAhead(s)
<1>1. \A u : UnitIsInaccessible(r, u) <=> UnitIsInaccessible(s, u)
  BY AccessAlike
<1>2. \A u : Locked(s, u) <=> Locked(r, u)
  BY LockedAlike DEF SameAccess
<1> QED
  BY <1>1, <1>2 DEF NoneAhead

LEMMA RedrawsForesees ==
  ASSUME NEW s, NEW r \in ServiceState, Redraws(s, r)
  PROVE  \A p : Foresees(s, p) => Foresees(r, p)
<1>1. CASE Exact(r)
  BY <1>1, ExactForesees
<1>2. CASE r.navigation = s.navigation /\ SameAccess(s, r)
  BY <1>2, AlikeAhead DEF Foresees, Redraws
<1> QED
  BY <1>1, <1>2 DEF Redraws

\* Where targets are computed anew, and nothing is open ahead, nothing comes next.
LEMMA ExactLastOpen ==
  ASSUME NEW s \in ServiceState, Exact(s), NoneAhead(s)
  PROVE  LastOpen(s)
<1> DEFINE n == GetNavigationState(s, s.current)
<1>1. /\ n.next \in UnitOrNone
      /\ n.next # NoUnit => n.next > s.current /\ ~UnitIsInaccessible(s, n.next)
  BY Navigates DEF ServiceState
<1>2. s.navigation = n
  BY DEF Exact
<1> HIDE DEF n
<1> QED
  BY <1>1, <1>2 DEF LastOpen, NoneAhead, UnitOrNone

LEMMA RedrawsLastOpen ==
  ASSUME NEW s, NEW r \in ServiceState, Redraws(s, r), s.navigation.next = NoUnit, NoneAhead(r)
  PROVE  LastOpen(r)
  BY ExactLastOpen DEF Redraws, LastOpen

\* What is closed stays closed when locks are added.
LEMMA MoreLocks ==
  ASSUME NEW s, NEW r \in ServiceState, r.show = s.show, r.code = s.code,
         s.time \subseteq r.time, s.afterLeave \subseteq r.afterLeave,
         s.lockedUnits \subseteq r.lockedUnits
  PROVE  /\ \A u \in Unit : UnitIsInaccessible(s, u) => UnitIsInaccessible(r, u)
         /\ \A u : Locked(s, u) => Locked(r, u)
<1>1. ASSUME NEW u \in Unit, ~UnitIsInaccessible(r, u) PROVE ~UnitIsInaccessible(s, u)
  <2>1. s.time \cap Above[ParentOf[u]] \subseteq r.time
    OBVIOUS
  <2> QED
    BY <1>1, <2>1, FewerLocks
<1>2. \A u : Locked(s, u) => Locked(r, u)
  BY DEF Locked, LocksAbove
<1> QED
  BY <1>1, <1>2

\* A unit that is opened runs its timer, or is locked.
LEMMA OpenSteady ==
  ASSUME NEW s \in ServiceState, NEW u \in Unit
  PROVE  \A p : Foresees(Open(s, u), p) /\ ~Idles(Open(s, u), p)
<1> DEFINE r == Open(s, u)
           t == TimerOfUnit(u)
<1>1. /\ r \in ServiceState /\ r.current = u /\ SameLocks(s, r)
      /\ Locked(s, u) \/ t = NoTimer \/ t = s.timerId => r.timerId = s.timerId
      /\ ~Locked(s, u) /\ t # NoTimer /\ t # s.timerId => r.timerId = t
  BY OpenStep, OpenFacts DEF Step, SameTimes
<1>2. ~Locked(s, u) => Exact(r)
  BY OpenRedraws
<1>3. Locked(s, u) <=> Locked(r, u)
  BY <1>1, LockedAlike
<1> HIDE DEF r, t
<1>4. \A p : Foresees(r, p)
  BY <1>1, <1>2, <1>3, ExactForesees DEF Foresees
<1>5. \A p : ~Idles(r, p)
  BY <1>1, <1>3 DEF Idles, t
<1> QED
  BY <1>4, <1>5 DEF r

LEMMA RunUnitSteady ==
  ASSUME NEW s \in ServiceState, \A p : Foresees(s, p)
  PROVE  \A p : Foresees(RunUnit(s), p) /\ ~Idles(RunUnit(s), p)
<1> DEFINE r == RunUnit(s)
           t == TimerOfUnit(s.current)
<1>1. /\ r \in ServiceState /\ r.current = s.current /\ SameLocks(s, r)
      /\ Locked(s, s.current) \/ t = NoTimer \/ t = s.timerId => r.timerId = s.timerId
      /\ ~Locked(s, s.current) /\ t # NoTimer /\ t # s.timerId => r.timerId = t
  BY RunUnitStep, RunUnitFacts DEF Step, SameTimes, SameUnit
<1>2. Redraws(s, r)
  BY RunUnitRedraws
<1>3. Locked(s, s.current) <=> Locked(r, s.current)
  BY <1>1, LockedAlike
<1> HIDE DEF r
<1>4. \A p : Foresees(r, p)
  BY <1>1, <1>2, RedrawsForesees
<1> HIDE DEF t
<1>5. \A p : ~Idles(r, p)
  BY <1>1, <1>3 DEF Idles, t
<1> QED
  BY <1>4, <1>5 DEF r

\* The activation guards let nobody idle.
LEMMA ActivateSteady ==
  ASSUME NEW s \in ServiceState, NEW to \in UnitOrNone, NEW from, Foresees(s, from),
         Idles(s, from) => LastOpen(s) \/ Away(s, to), Activate(s, to, from)
  PROVE  Foresees(tc', page') /\ Onward(tc', page', redirect')
<1>1. CASE ActivationBlocked(s) /\ tc' = s /\ page' = from
  BY <1>1 DEF ActivationBlocked, Onward, Idles
<1>2. CASE to = NoUnit /\ tc' = s /\ page' = from
  BY <1>2 DEF Onward, Away
<1>3. CASE /\ tc' = s /\ page' = from /\ Detour(s, to) # NoUnit /\ redirect' = Detour(s, to)
  <2>1. CASE Idles(s, from) /\ Away(s, to)
    <3> DEFINE n == GetNavigationState(s, to)
    <3>1. to # NoUnit /\ UnitIsInaccessible(s, to) /\ redirect' = n.next
      BY <1>3, <2>1 DEF Away, Detour
    <3>2. n.next \in UnitOrNone /\ (n.next # NoUnit => n.next > to /\ ~UnitIsInaccessible(s, n.next))
      BY Navigates
    <3> HIDE DEF n
    <3>3. s.current < to /\ redirect' > to /\ redirect' # NoUnit /\ ~UnitIsInaccessible(s, redirect')
      BY <1>3, <2>1, <3>1, <3>2 DEF Away
    <3>4. s.current \in Int /\ to \in Int /\ redirect' \in Int
      BY <3>1, <3>2, BookletAssumption DEF ServiceState, UnitOrNone, Unit, NoUnit
    <3>5. redirect' # s.current
      BY <3>3, <3>4
    <3> QED
      BY <1>3, <3>3, <3>5 DEF Onward
  <2> QED
    BY <1>3, <2>1 DEF Onward
<1>4. CASE to # NoUnit /\ tc' = Open(s, to)
  <2>1. to \in Unit
    BY <1>4 DEF UnitOrNone
  <2> QED
    BY <1>4, <2>1, OpenSteady DEF Onward
<1> QED
  BY <1>1, <1>2, <1>3, <1>4 DEF Activate

\* A leave lock opens nothing, and the timer is none of its business.
LEMMA LeaveLockSteady ==
  ASSUME NEW s \in ServiceState, NEW u \in Unit
  PROVE  LET r == LeaveLock(s, u) IN
         /\ r \in ServiceState /\ r.state = s.state /\ r.current = s.current
         /\ r.timerId = s.timerId
         /\ \A v \in Unit : UnitIsInaccessible(s, v) => UnitIsInaccessible(r, v)
         /\ \A v : Locked(s, v) => Locked(r, v)
         /\ \A p : Foresees(s, p) => Foresees(r, p)
         /\ \A p : Idles(r, p) => Idles(s, p)
         /\ LastOpen(s) => LastOpen(r)
<1> DEFINE r == LeaveLock(s, u)
<1>1. /\ r \in ServiceState /\ SameUnit(s, r) /\ SameTimes(s, r) /\ r.show = s.show
      /\ r.code = s.code /\ s.time \subseteq r.time
      /\ s.afterLeave \subseteq r.afterLeave /\ s.lockedUnits \subseteq r.lockedUnits
  BY LeaveLockStep, LeaveLockFacts DEF Step
<1>2. Redraws(s, r) \/ r.navigation = s.navigation
  BY LeaveLockRedraws
<1> HIDE DEF r
<1>3. /\ \A v \in Unit : UnitIsInaccessible(s, v) => UnitIsInaccessible(r, v)
      /\ \A v : Locked(s, v) => Locked(r, v)
  BY <1>1, MoreLocks
<1>4. NoneAhead(s) => NoneAhead(r)
  BY <1>1, <1>3 DEF NoneAhead, SameUnit
<1>5. \A p : Foresees(s, p) => Foresees(r, p)
  <2>1. CASE Redraws(s, r)
    BY <1>1, <2>1, RedrawsForesees
  <2>2. CASE r.navigation = s.navigation
    BY <1>1, <1>3, <1>4, <2>2 DEF Foresees, SameUnit
  <2> QED
    BY <1>2, <2>1, <2>2
<1>6. \A p : Idles(r, p) => Idles(s, p)
  BY <1>1, <1>3 DEF Idles, SameUnit, SameTimes
<1>7. LastOpen(s) => LastOpen(r)
  BY <1>1, <1>2, <1>4, RedrawsLastOpen DEF LastOpen
<1> QED
  BY <1>1, <1>3, <1>5, <1>6, <1>7 DEF SameUnit, SameTimes, r

\* A timer that is stopped for good locks the block.
LEMMA CancelTimerSteady ==
  ASSUME NEW s \in ServiceState
  PROVE  LET r == CancelTimer(s) IN
         /\ \A p : Foresees(s, p) => Foresees(r, p)
         /\ \A p : Idles(r, p) => s.timerId = NoTimer /\ r = s
<1> DEFINE r == CancelTimer(s)
<1>1. /\ r \in ServiceState /\ r.current = s.current
      /\ r.time = IF s.timerId # NoTimer /\ ForceTimeRestrictions /\ s.current # NoUnit
                  THEN s.time \cup {ParentOf[s.current]} ELSE s.time
  BY CancelTimerStep, CancelTimerFacts DEF Step, SameUnit
<1>2. Redraws(s, r)
  BY CancelTimerRedraws
<1>3. s.timerId = NoTimer => r = s
  BY DEF CancelTimer
<1> HIDE DEF r
<1>4. \A p : Foresees(s, p) => Foresees(r, p)
  BY <1>1, <1>2, RedrawsForesees
<1>5. ASSUME NEW p, Idles(r, p) PROVE s.timerId = NoTimer
  <2>1. s.current \in Unit /\ s.current # NoUnit
    BY <1>1, <1>5 DEF Idles, TimerOfUnit, ServiceState, UnitOrNone
  <2>2. ParentOf[s.current] \in Above[ParentOf[s.current]]
    BY <2>1, BookletAssumption
  <2> QED
    BY <1>1, <1>5, <2>1, <2>2 DEF Idles, Locked, LocksAbove
<1> QED
  BY <1>3, <1>4, <1>5 DEF r

\* Whoever idles after a check that let them leave, has idled before it.
LEMMA SolveLeaveSteady ==
  ASSUME NEW s \in ServiceState, s.current # NoUnit, NEW to \in UnitOrNone, Allows(s, to),
         Foresees(s, page), Idles(s, page) => LastOpen(s) \/ Away(s, to)
  PROVE  LET r == SolveLeave(s, to) IN
         /\ r \in ServiceState /\ Foresees(r, page)
         /\ Idles(r, page) => LastOpen(r) \/ Away(r, to)
         /\ to = NoUnit => (Idles(r, page) => LastOpen(r))
<1> DEFINE q == SolveTimer(s, to)
           r == SolveLeave(s, to)
<1>1. /\ q \in ServiceState /\ s.current \in Unit /\ r \in ServiceState
      /\ r = IF LeavesLockedArea(s, to) THEN LeaveLock(q, s.current) ELSE q
      /\ q.current = s.current /\ r.current = s.current
  <2>1. /\ q \in ServiceState /\ s.current \in Unit /\ SameUnit(s, r)
        /\ r = IF LeavesLockedArea(s, to) THEN LeaveLock(q, s.current) ELSE q
    BY SolveLeaveFacts
  <2>2. r \in ServiceState
    BY SolveLeaveStep DEF Step
  <2>3. SameUnit(s, q)
    BY SolveTimerFacts
  <2> HIDE DEF q, r
  <2> QED
    BY <2>1, <2>2, <2>3 DEF SameUnit
<1>2. Foresees(q, page)
  BY <1>1, SolveTimerRedraws, RedrawsForesees
<1>3. Idles(q, page) => q = s
  <2>1. CASE ~LeavesTimedBlock(s, to)
    BY <2>1 DEF SolveTimer
  <2>2. CASE LeavesTimedBlock(s, to) /\ ForceTimeRestrictions
    <3>1. Leave[s.timerId] = "allowed"
      <4>1. s.timerId \in Testlet
        BY <2>2 DEF LeavesTimedBlock, ServiceState
      <4> QED
        BY <2>2, <4>1, RestrictionAssumption DEF Allows, Denies, AsksForTimer
    <3>2. q = CancelTimer(s)
      BY <2>2, <3>1 DEF SolveTimer
    <3> QED
      BY <3>2, CancelTimerSteady
  <2>3. CASE ~ForceTimeRestrictions
    BY <2>3 DEF Idles
  <2> QED
    BY <2>1, <2>2, <2>3
<1> HIDE DEF q, r
<1>4. CASE r = q
  BY <1>1, <1>2, <1>3, <1>4 DEF Away, r
<1>5. CASE r = LeaveLock(q, s.current) /\ LeavesLockedArea(s, to)
  <2>1. /\ Foresees(r, page)
        /\ Idles(r, page) => Idles(q, page)
        /\ LastOpen(q) => LastOpen(r)
    BY <1>1, <1>2, <1>5, LeaveLockSteady
  <2>2. ASSUME Idles(r, page), Away(s, to) PROVE Away(r, to)
    <3>1. q = s
      BY <1>3, <2>1, <2>2
    <3>2. /\ r.show = s.show /\ r.time = s.time /\ r.code = s.code
          /\ r.afterLeave = IF ForceNaviRestrictions /\ LockScope[ParentOf[s.current]] = "testlet"
                            THEN s.afterLeave \cup {ParentOf[s.current]} ELSE s.afterLeave
          /\ r.lockedUnits \subseteq s.lockedUnits \cup {s.current}
      <4>1. r = LeaveLock(s, s.current)
        BY <1>5, <3>1
      <4> QED
        BY <1>1, <4>1, LeaveLockFacts
    <3>3. ParentOf[s.current] \notin r.afterLeave
      <4>1. ParentOf[s.current] \in Above[ParentOf[s.current]]
        BY <1>1, BookletAssumption
      <4> QED
        BY <1>1, <2>2, <4>1 DEF Idles, Locked, LocksAbove
    <3>4. SameLocks(s, r)
      BY <3>2, <3>3 DEF SameLocks
    <3>5. LocksAbove(r, to) = LocksAbove(s, to)
      BY <3>4 DEF LocksAbove, SameLocks
    <3>6. ~UnitIsInaccessible(s, to) /\ to # s.current => ~UnitIsInaccessible(r, to)
      BY <3>2, <3>4, <3>5 DEF UnitIsInaccessible, Locked, LockedByCode, LockedThrough, SameLocks
    <3> QED
      BY <1>1, <2>2, <3>6 DEF Away
  <2> QED
    BY <1>1, <1>3, <2>1, <2>2 DEF r, Away
<1> QED
  BY <1>1, <1>4, <1>5

\* No question is asked of whoever idles.
LEMMA AskSteady ==
  ASSUME SteadyTimedBlocks, NEW s \in ServiceState, Foresees(s, page), s.current # NoUnit,
         NEW to \in UnitOrNone, NEW exit, Ask(s, to, exit)
  PROVE  Foresees(tc', page') /\ Onward(tc', page', redirect')
<1>1. CASE AsksForTimer(s, to) /\ Stay(s)
  BY <1>1 DEF Stay, AsksForTimer, LeavesTimedBlock, Onward, Idles
<1>2. CASE AsksForLock(s, to) /\ Stay(SolveTimer(s, to))
  <2> DEFINE r == SolveTimer(s, to)
  <2>1. r \in ServiceState /\ r.current = s.current /\ Foresees(r, page)
    BY SolveLeaveFacts, SolveTimerFacts, SolveTimerRedraws, RedrawsForesees DEF SameUnit
  <2> HIDE DEF r
  <2>2. s.current \in Unit /\ ParentOf[s.current] \in Testlet
    BY BookletAssumption DEF ServiceState, UnitOrNone
  <2>3. ~Idles(r, page)
    BY <1>2, <2>1, <2>2 DEF AsksForLock, LeavesLockedArea, Idles, SteadyTimedBlocks, TimerOfUnit
  <2> QED
    BY <1>2, <2>1, <2>3 DEF Stay, Onward, r
<1> QED
  BY <1>1, <1>2 DEF Ask

\* Nor is anything denied to whoever idles.
LEMMA NothingDenied ==
  ASSUME SteadyTimedBlocks, NEW s \in ServiceState, Idles(s, page), NEW to
  PROVE  ~Denies(s, to)
<1>1. s.current \in Unit /\ ParentOf[s.current] \in Testlet /\ TimerOf(ParentOf[s.current]) # NoTimer
  BY BookletAssumption DEF Idles, TimerOfUnit, ServiceState, UnitOrNone
<1>2. ForceNaviRestrictions => DenyIncomplete[ParentOf[s.current]] = "OFF"
  BY <1>1 DEF SteadyTimedBlocks
<1> QED
  BY <1>2 DEF Denies, Incomplete, LeavesTimedBlock, Idles

LEMMA GoSteady ==
  ASSUME SteadyTimedBlocks, NEW s \in ServiceState, NEW to \in UnitOrNone, NEW force \in BOOLEAN,
         Foresees(s, page), Go(s, to, force),
         Idles(s, page) => LastOpen(s) \/ Away(s, to),
         force /\ Idles(InterruptTimer(s), page) => LastOpen(s) \/ Away(s, to)
  PROVE  Foresees(tc', page') /\ Onward(tc', page', redirect')
<1>1. CASE to # NoUnit /\ to = s.current /\ Stay(s)
  <2>1. ~(s.current < to)
    BY <1>1, BookletAssumption DEF UnitOrNone, Unit, NoUnit
  <2> QED
    BY <1>1, <2>1 DEF Stay, Onward, Away
<1>2. CASE ~Checked(s, force) /\ Activate(LeftUnchecked(s), to, page)
  <2> DEFINE r == LeftUnchecked(s)
  <2>1. /\ r \in ServiceState /\ r.current = s.current /\ r.navigation = s.navigation
        /\ SameAccess(s, r)
    BY LeftUncheckedStep, LeftUncheckedRedraws, InterruptTimerFacts
       DEF Step, Redraws, LeftUnchecked, SameUnit, SameAccess, SameLocks
  <2>2. Foresees(r, page)
    BY <2>1, AlikeAhead DEF Foresees
  <2>3. /\ LastOpen(s) => LastOpen(r)
        /\ Away(s, to) => Away(r, to)
    BY <2>1, AlikeAhead, AccessAlike DEF LastOpen, Away
  <2>4. r = s \/ (force /\ r = InterruptTimer(s))
    BY <1>2 DEF LeftUnchecked, Checked
  <2> HIDE DEF r
  <2>5. Idles(r, page) => LastOpen(r) \/ Away(r, to)
    BY <2>3, <2>4
  <2> QED
    BY <1>2, <2>1, <2>2, <2>5, ActivateSteady DEF r
<1>3. CASE Checked(s, force) /\ Denies(s, to) /\ Stay(s)
  BY <1>3, NothingDenied DEF Stay, Onward
<1>4. CASE Checked(s, force) /\ Ask(s, to, FALSE)
  BY <1>4, AskSteady DEF Checked, FreeToLeave
<1>5. CASE Checked(s, force) /\ Allows(s, to) /\ Activate(SolveLeave(s, to), to, page)
  BY <1>5, SolveLeaveSteady, ActivateSteady DEF Checked, FreeToLeave
<1> QED
  BY <1>1, <1>2, <1>3, <1>4, <1>5 DEF Go

LEMMA GoToUnitSteady ==
  ASSUME SteadyTimedBlocks, NEW s \in ServiceState, NEW u \in Unit, NEW force \in BOOLEAN,
         Foresees(s, page), GoToUnit(s, u, force),
         Idles(s, page) => LastOpen(s) \/ Away(s, u),
         force /\ Idles(InterruptTimer(s), page) /\ u # s.current => LastOpen(s) \/ Away(s, u)
  PROVE  Foresees(tc', page') /\ Onward(tc', page', redirect')
<1>1. CASE Stay(Open(s, u))
  BY <1>1, OpenSteady DEF Stay, Onward
<1>2. CASE ~(page = "unit" /\ u = s.current) /\ Go(s, u, force)
  <2>1. Idles(InterruptTimer(s), page) => u # s.current
    BY <1>2 DEF Idles
  <2> QED
    BY <1>2, <2>1, GoSteady DEF UnitOrNone
<1> QED
  BY <1>1, <1>2 DEF GoToUnit

LEMMA ConfirmEndSteady ==
  ASSUME NEW s \in ServiceState, Foresees(s, page), Idles(s, page) => LastOpen(s), NEW open,
         ConfirmEnd(s, open) \/ BeginEnding(s)
  PROVE  Foresees(tc', page') /\ Onward(tc', page', redirect')
<1>1. CASE page' = "starter"
  BY <1>1 DEF Foresees, Onward, Idles
<1>2. CASE Stay(Terminate(s))
  <2>1. /\ Terminate(s) \in ServiceState /\ Redraws(s, Terminate(s))
        /\ Terminate(s).state # "RUNNING"
    BY TerminateStep, TerminateFacts, TerminateRedraws DEF Step
  <2>2. Foresees(Terminate(s), page) /\ ~Idles(Terminate(s), page)
    BY <2>1, RedrawsForesees DEF Idles
  <2> QED
    BY <1>2, <2>2 DEF Stay, Onward
<1>3. CASE Stay(s)
  BY <1>3 DEF Stay, Onward
<1> QED
  BY <1>1, <1>2, <1>3 DEF ConfirmEnd, BeginEnding

\* Access to a unit depends on the locks above it and on its own.
LEMMA AccessLocal ==
  ASSUME NEW s, NEW r, NEW v \in Unit, s.show \cap Above[ParentOf[v]] = r.show \cap Above[ParentOf[v]],
         s.time \cap Above[ParentOf[v]] = r.time \cap Above[ParentOf[v]],
         s.code \cap Above[ParentOf[v]] = r.code \cap Above[ParentOf[v]],
         s.afterLeave \cap Above[ParentOf[v]] = r.afterLeave \cap Above[ParentOf[v]],
         v \in s.lockedUnits <=> v \in r.lockedUnits
  PROVE  /\ Locked(s, v) <=> Locked(r, v)
         /\ UnitIsInaccessible(s, v) <=> UnitIsInaccessible(r, v)
<1> DEFINE t == ParentOf[v]
           L == LocksAbove(s, v)
<1>1. L = LocksAbove(r, v)
  BY DEF LocksAbove
<1>2. t \in Testlet /\ t \in Above[t] /\ Above[t] \in SUBSET Testlet
  BY BookletAssumption
<1>3. Locked(s, v) <=> Locked(r, v)
  BY <1>1 DEF Locked
<1>4. LockedThrough(s, v) = LockedThrough(r, v)
  BY <1>1 DEF LockedThrough
<1>5. Locked(s, v) => LockedThrough(s, v) \in Above[t]
  <2>1. L \in SUBSET Above[t]
    BY DEF LocksAbove
  <2> HIDE DEF L
  <2> QED
    BY <1>2, <2>1, OutermostExists DEF Locked, LockedThrough, L
<1>6. LockedByCode(s, v) <=> LockedByCode(r, v)
  BY <1>3, <1>4, <1>5 DEF LockedByCode
<1>7. t \in s.show \cup s.time \cup s.afterLeave <=> t \in r.show \cup r.time \cup r.afterLeave
  BY <1>2
<1> QED
  BY <1>3, <1>6, <1>7 DEF UnitIsInaccessible

\* The goto command opens the unit and its testlet, and closes the block that is left for it.
LEMMA PrepareGotoLocks ==
  ASSUME NEW s \in ServiceState, NEW u \in Unit, NEW given \in GivenTime \cup {NotANumber}
  PROVE  LET r == PrepareGoto(s, u, given)
             t == ParentOf[u]
             apart == s.current = NoUnit \/ TimerOf(t) # TimerOfUnit(s.current) IN
         /\ r \in ServiceState /\ r.current = s.current /\ r.state = s.state
         /\ r.show = s.show /\ r.lockedUnits = s.lockedUnits \ {u}
         /\ r.code \subseteq s.code /\ s.code \ {t} \subseteq r.code
         /\ r.afterLeave = s.afterLeave \ {t}
         /\ s.time \ {t} \subseteq r.time
         /\ s.timerId = NoTimer => r.time \subseteq s.time
         /\ apart /\ s.timerId # NoTimer /\ ForceTimeRestrictions /\ s.current # NoUnit
            /\ ParentOf[s.current] # t => ParentOf[s.current] \in r.time
         /\ UnitIsInaccessible(r, u) => \A p : Foresees(r, p)
         /\ NoneAhead(r) => r.navigation.next = NoUnit
<1> DEFINE t == ParentOf[u]
           c == CancelTimer(s)
           restored == RestoreTime(c, t, given)
           apart == s.current = NoUnit \/ TimerOf(t) # TimerOfUnit(s.current)
           timed == IF apart THEN restored ELSE s
           open == [timed EXCEPT !.afterLeave = @ \ {t}]
           unlocked == UpdateNavigationState(open)
           opened == [unlocked EXCEPT !.lockedUnits = @ \ {u}]
           r == ClearCodeLock(opened, t)
<1>1. t \in Testlet /\ given \in Int
  BY BookletAssumption, BoundAssumption DEF NotANumber
<1>2. PrepareGoto(s, u, given) = r
  BY DEF PrepareGoto
<1> HIDE DEF t
<1>3. /\ c \in ServiceState /\ SameUnit(s, c) /\ c.lockedUnits = s.lockedUnits
      /\ c.show = s.show /\ c.code = s.code /\ c.afterLeave = s.afterLeave
      /\ c.time = IF s.timerId # NoTimer /\ ForceTimeRestrictions /\ s.current # NoUnit
                  THEN s.time \cup {ParentOf[s.current]} ELSE s.time
  BY CancelTimerStep, CancelTimerFacts DEF Step
<1> HIDE DEF c
<1>4. /\ restored \in ServiceState /\ SameUnit(c, restored) /\ restored.lockedUnits = c.lockedUnits
      /\ restored.show = c.show /\ restored.code = c.code /\ restored.afterLeave = c.afterLeave
      /\ restored.time = c.time \ {t} \/ restored.time = c.time
  <2>1. restored \in ServiceState
    BY <1>1, <1>3, RestoreTimeStep DEF Step
  <2> QED
    BY <1>1, <1>3, <2>1, RestoreTimeFacts
<1> HIDE DEF restored
<1>5. /\ timed \in ServiceState /\ SameUnit(s, timed) /\ timed.lockedUnits = s.lockedUnits
      /\ timed.show = s.show /\ timed.code = s.code /\ timed.afterLeave = s.afterLeave
      /\ s.time \ {t} \subseteq timed.time
      /\ s.timerId = NoTimer => timed.time \subseteq s.time
      /\ apart /\ s.timerId # NoTimer /\ ForceTimeRestrictions /\ s.current # NoUnit
         /\ ParentOf[s.current] # t => ParentOf[s.current] \in timed.time
  <2>1. CASE apart
    <3>1. timed = restored
      BY <2>1
    <3> HIDE DEF timed
    <3> QED
      BY <1>3, <1>4, <2>1, <3>1 DEF SameUnit
  <2>2. CASE ~apart
    <3>1. timed = s
      BY <2>2
    <3> HIDE DEF timed
    <3> QED
      BY <2>2, <3>1 DEF SameUnit
  <2> QED
    BY <2>1, <2>2
<1> HIDE DEF timed
<1>6. /\ open \in ServiceState /\ SameUnit(timed, open) /\ open.lockedUnits = timed.lockedUnits
      /\ open.show = timed.show /\ open.time = timed.time /\ open.code = timed.code
      /\ open.afterLeave = timed.afterLeave \ {t}
  BY <1>5 DEF ServiceState, SameUnit
<1> HIDE DEF open
<1>7. /\ unlocked \in ServiceState /\ SameUnit(open, unlocked) /\ SameLocks(open, unlocked)
      /\ unlocked.lockedUnits = open.lockedUnits /\ Exact(unlocked)
  BY <1>6, UpdateNavigationStateStep, UpdateNavigationStateFacts, UpdateNavigationStateExact DEF Step
<1> HIDE DEF unlocked
<1>8. /\ opened \in ServiceState /\ SameUnit(unlocked, opened) /\ SameLocks(unlocked, opened)
      /\ opened.lockedUnits = unlocked.lockedUnits \ {u}
      /\ opened.navigation = unlocked.navigation
  BY <1>7 DEF ServiceState, SameUnit, SameLocks
<1> HIDE DEF opened
<1>9. /\ r \in ServiceState /\ SameUnit(opened, r) /\ r.lockedUnits = opened.lockedUnits
      /\ r.show = opened.show /\ r.time = opened.time /\ r.afterLeave = opened.afterLeave
      /\ r.code \subseteq opened.code
      /\ Redraws(opened, r)
  BY <1>1, <1>8, ClearCodeLockStep, ClearCodeLockFacts, ClearCodeLockRedraws DEF Step
<1>10. opened.code \ {t} \subseteq r.code
  BY <1>8 DEF ClearCodeLock, UpdateNavigationState, ServiceState
<1> HIDE DEF r
<1>11. ASSUME SameAccess(opened, r), NEW v \in Unit
       PROVE  /\ UnitIsInaccessible(r, v) => UnitIsInaccessible(unlocked, v)
              /\ UnitIsInaccessible(unlocked, v) /\ v # u => UnitIsInaccessible(r, v)
  <2>1. UnitIsInaccessible(r, v) <=> UnitIsInaccessible(opened, v)
    BY <1>11, AccessAlike
  <2>2. LocksAbove(opened, v) = LocksAbove(unlocked, v)
    BY <1>8 DEF SameLocks, LocksAbove
  <2> QED
    BY <1>8, <2>1, <2>2
       DEF SameLocks, UnitIsInaccessible, Locked, LockedByCode, LockedThrough
<1>12. r.current = unlocked.current
  BY <1>8, <1>9 DEF SameUnit
<1>13. ASSUME UnitIsInaccessible(r, u) PROVE \A p : Foresees(r, p)
  <2>1. CASE Exact(r)
    BY <1>9, <2>1, ExactForesees
  <2>2. CASE r.navigation = unlocked.navigation /\ SameAccess(opened, r)
    <3>1. \A v : Locked(unlocked, v) <=> Locked(r, v)
      BY <1>8, <2>2, LockedAlike DEF SameAccess
    <3>2. NoneAhead(unlocked) => NoneAhead(r)
      BY <1>11, <1>12, <1>13, <2>2 DEF NoneAhead
    <3>3. \A p : Foresees(unlocked, p)
      BY <1>7, ExactForesees
    <3> QED
      BY <1>12, <2>2, <3>1, <3>2, <3>3 DEF Foresees
  <2> QED
    BY <1>8, <1>9, <2>1, <2>2 DEF Redraws
<1>14. ASSUME NoneAhead(r) PROVE r.navigation.next = NoUnit
  <2>1. CASE Exact(r)
    BY <1>9, <1>14, <2>1, ExactLastOpen DEF LastOpen
  <2>2. CASE r.navigation = unlocked.navigation /\ SameAccess(opened, r)
    <3>1. NoneAhead(unlocked)
      BY <1>11, <1>12, <1>14, <2>2 DEF NoneAhead
    <3> QED
      BY <1>7, <2>2, <3>1, ExactLastOpen DEF LastOpen
  <2> QED
    BY <1>8, <1>9, <2>1, <2>2 DEF Redraws
<1>15. /\ r.current = s.current /\ r.state = s.state
       /\ r.show = s.show /\ r.lockedUnits = s.lockedUnits \ {u}
       /\ r.code \subseteq s.code /\ s.code \ {t} \subseteq r.code
       /\ r.afterLeave = s.afterLeave \ {t} /\ r.time = timed.time
  BY <1>5, <1>6, <1>7, <1>8, <1>9, <1>10 DEF SameUnit, SameLocks
<1> QED
  BY <1>2, <1>5, <1>9, <1>13, <1>14, <1>15 DEF t

\* A forced way into an open unit ends there.
LEMMA ForcedInto ==
  ASSUME NEW s \in ServiceState, s.state = "RUNNING", NEW u \in Unit, ~UnitIsInaccessible(s, u),
         Go(s, u, TRUE), page # "unit" \/ u # s.current
  PROVE  Foresees(tc', page') /\ Onward(tc', page', redirect')
<1> DEFINE r == LeftUnchecked(s)
<1>1. /\ r \in ServiceState /\ r.state = "RUNNING" /\ SameAccess(s, r)
  BY LeftUncheckedStep, InterruptTimerFacts
     DEF Step, LeftUnchecked, SameUnit, SameAccess, SameLocks
<1>2. Activate(r, u, page) /\ u # NoUnit
  BY DEF Go, Checked, Unit, NoUnit
<1> HIDE DEF r
<1>3. ~UnitIsInaccessible(r, u) /\ ~ActivationBlocked(r)
  BY <1>1, AccessAlike DEF ActivationBlocked
<1>4. tc' = Open(r, u)
  BY <1>2, <1>3 DEF Activate, Detour
<1> QED
  BY <1>1, <1>4, OpenSteady DEF Onward

\* A paused test is shown with its unit only as long as the request to hide it waits.
PauseWaits == page = "unit" /\ tc.state = "PAUSED" => Waiting("monitor")

\* A request for the first unit waits only as long as none is opened.
FirstWaits ==
  \A i \in 1..Len(requests) :
    requests[i].by = "monitor" /\ requests[i].target = "FIRST" => tc.current = NoUnit

Steady == Foresees(tc, page) /\ Onward(tc, page, redirect)

\* The goto command into a closed unit leaves no block that is open, unless the testee was in
\* the last open unit already.
LEMMA GotoIntoClosed ==
  ASSUME SteadyTimedBlocks, Inv, Timely, Steady, PauseWaits, Commanded,
         NEW u \in Unit, NEW given \in GivenTime \cup {NotANumber}, NEW r,
         r = PrepareGoto(SetState(tc, "RUNNING"), u, given), UnitIsInaccessible(r, u),
         Idles(InterruptTimer(r), page), u < r.current
  PROVE  LastOpen(r)
<1> DEFINE s == SetState(tc, "RUNNING")
           t == ParentOf[u]
           at == ParentOf[tc.current]
<1>1. tc \in ServiceState /\ OnTime(tc, page)
  BY TimelyFacts
<1>2. /\ s \in ServiceState /\ s.current = tc.current /\ SameLocks(tc, s) /\ SameTimes(tc, s)
      /\ s.lockedUnits = tc.lockedUnits
  BY <1>1, SetStateStep, SetStateFacts DEF State, Step
<1> HIDE DEF s
<1>3. /\ r \in ServiceState /\ r.current = tc.current /\ r.show = tc.show
      /\ r.lockedUnits = tc.lockedUnits \ {u} /\ r.afterLeave = tc.afterLeave \ {t}
      /\ r.code \subseteq tc.code /\ tc.code \ {t} \subseteq r.code
      /\ tc.time \ {t} \subseteq r.time
      /\ tc.timerId = NoTimer => r.time \subseteq tc.time
      /\ NoneAhead(r) => r.navigation.next = NoUnit
  BY <1>2, PrepareGotoLocks DEF SameLocks, SameTimes, s
<1>4. /\ page = "unit" /\ ForceTimeRestrictions /\ TimerOfUnit(tc.current) # NoTimer
      /\ ~Locked(r, tc.current)
  BY <1>3, InterruptTimerFacts, LockedAlike DEF Idles, SameUnit
<1>5. TimerOf(t) # TimerOfUnit(tc.current) /\ tc.timerId # NoTimer /\ at # t => at \in r.time
  <2>1. tc.current # NoUnit
    BY <1>4 DEF TimerOfUnit
  <2>2. s.timerId = tc.timerId
    BY <1>2 DEF SameTimes
  <2> HIDE DEF t, at
  <2> QED
    BY <1>2, <1>4, <2>1, <2>2, PrepareGotoLocks DEF s, t, at
<1>6. tc.current \in Unit /\ at \in Testlet /\ t \in Testlet /\ u \in UnitOrNone
      /\ tc.current \in UnitOrNone
  BY <1>1, <1>4, BookletAssumption DEF TimerOfUnit, ServiceState, UnitOrNone
<1>7. LocksAbove(r, tc.current) = {}
  BY <1>4 DEF Locked
<1>8. t \in Above[t] /\ at \in Above[at]
  BY <1>6, BookletAssumption
\* Were the unit in the same block or in one around it, it would be open.
<1>9. t \notin Above[at]
  <2>1. ASSUME t \in Above[at] PROVE FALSE
    <3>1. Above[t] \subseteq Above[at]
      BY <1>6, <2>1, OrderAssumption
    <3>2. LocksAbove(r, u) = {}
      BY <1>7, <3>1 DEF LocksAbove
    <3> QED
      BY <1>3, <3>2 DEF UnitIsInaccessible, Locked
  <2> QED
    BY <2>1
<1>10. at # t /\ TimerOf(t) # TimerOfUnit(tc.current)
  <2>1. at # t
    BY <1>8, <1>9
  <2>2. TimerOfUnit(u) = TimerOf(t)
    BY DEF TimerOfUnit, Unit, NoUnit
  <2>3. TimerOf(t) # TimerOfUnit(tc.current)
    BY <1>4, <1>6, <2>1, <2>2, SameBlock DEF SteadyTimedBlocks
  <2> QED
    BY <2>1, <2>3
<1>11. tc.timerId = NoTimer
  BY <1>5, <1>7, <1>8, <1>10 DEF LocksAbove
<1> HIDE DEF t, at
<1>12. ASSUME NEW v \in Unit, t \notin Above[ParentOf[v]], v # u
       PROVE  /\ Locked(tc, v) <=> Locked(r, v)
              /\ UnitIsInaccessible(tc, v) <=> UnitIsInaccessible(r, v)
  BY <1>3, <1>11, <1>12, AccessLocal
<1>13. u # tc.current
  BY <1>10 DEF at, t
<1>14. ~Locked(tc, tc.current)
  BY <1>4, <1>6, <1>9, <1>12, <1>13 DEF at
<1>15. LastOpen(tc)
  <2>1. tc.state = "RUNNING"
    BY <1>4 DEF Commanded, IsTestOngoing, PauseWaits
  <2>2. Idles(tc, page) /\ redirect = NoUnit
    BY <1>4, <1>11, <1>14, <2>1 DEF Idles, Commanded, Quiet
  <2> QED
    BY <2>2 DEF Steady, Onward
<1>16. NoneAhead(r)
  <2>1. ASSUME NEW v \in Unit, v > tc.current PROVE UnitIsInaccessible(r, v)
    <3>1. u < tc.current /\ tc.current < v /\ v # u
      <4>1. u \in Int /\ v \in Int /\ tc.current \in Int
        BY <1>6, BookletAssumption DEF Unit
      <4> QED
        BY <1>3, <2>1, <4>1
    <3>2. Above[ParentOf[u]] \cap Above[ParentOf[v]] \subseteq Above[ParentOf[tc.current]]
      BY <1>6, <3>1, OrderAssumption
    <3>3. t \notin Above[ParentOf[v]]
      BY <1>8, <1>9, <3>2 DEF at, t
    <3> QED
      BY <1>12, <1>15, <2>1, <3>1, <3>3 DEF LastOpen, NoneAhead
  <2> QED
    BY <1>3, <2>1 DEF NoneAhead
<1> QED
  BY <1>3, <1>16 DEF LastOpen

LEMMA GotoSteady ==
  ASSUME SteadyTimedBlocks, Inv, Timely, Steady, PauseWaits,
         NEW u \in Unit, NEW given \in GivenTime \cup {NotANumber}, Goto(u, given)
  PROVE  Foresees(tc', page') /\ Onward(tc', page', redirect')
<1> DEFINE s == SetState(tc, "RUNNING")
           r == PrepareGoto(s, u, given)
<1>1. s \in ServiceState /\ s.state = "RUNNING"
  BY TimelyFacts, SetStateStep, SetStateFacts DEF State, Step
<1> HIDE DEF s
<1>2. /\ r \in ServiceState /\ r.state = "RUNNING"
      /\ UnitIsInaccessible(r, u) => \A p : Foresees(r, p)
  BY <1>1, PrepareGotoLocks
<1>3. GoToUnit(r, u, TRUE) /\ Commanded
  BY DEF Goto, s
<1> HIDE DEF r
<1>4. CASE page = "unit" /\ u = r.current
  BY <1>2, <1>3, <1>4, OpenSteady DEF GoToUnit, Stay, Onward
<1>5. CASE ~(page = "unit" /\ u = r.current) /\ ~UnitIsInaccessible(r, u)
  BY <1>2, <1>3, <1>5, ForcedInto DEF GoToUnit
<1>6. CASE ~(page = "unit" /\ u = r.current) /\ UnitIsInaccessible(r, u)
  <2>1. Idles(r, page) => Idles(InterruptTimer(r), page)
    <3>1. \A v : Locked(r, v) <=> Locked(InterruptTimer(r), v)
      BY <1>2, InterruptTimerFacts, LockedAlike
    <3> QED
      BY <1>2, <3>1, InterruptTimerFacts DEF Idles, SameUnit
  <2>2. ASSUME Idles(InterruptTimer(r), page) PROVE LastOpen(r) \/ Away(r, u)
    <3>1. page = "unit" /\ u # r.current
      BY <1>6, <2>2 DEF Idles
    <3>2. CASE u < r.current
      BY <1>3, <1>6, <2>2, <3>2, GotoIntoClosed DEF r, s
    <3>3. CASE r.current < u
      BY <3>3 DEF Away, Unit, NoUnit
    <3>4. u \in Int /\ r.current \in Int
      BY <1>2, BookletAssumption DEF ServiceState, UnitOrNone, Unit, NoUnit
    <3> QED
      BY <3>1, <3>2, <3>3, <3>4
  <2> QED
    BY <1>2, <1>3, <1>6, <2>1, <2>2, GoToUnitSteady
<1> QED
  BY <1>4, <1>5, <1>6

\* What changes neither the unit nor the timer, the targets or a lock.
LEMMA PlainSteady ==
  ASSUME Steady, UNCHANGED <<page, redirect>>, tc'.state = tc.state, tc'.current = tc.current,
         tc'.navigation = tc.navigation, SameAccess(tc, tc'),
         tc'.timerId = tc.timerId
  PROVE  Foresees(tc', page') /\ Onward(tc', page', redirect')
<1>1. /\ Locked(tc', tc'.current) <=> Locked(tc, tc.current)
      /\ NoneAhead(tc') <=> NoneAhead(tc)
      /\ \A u : UnitIsInaccessible(tc', u) <=> UnitIsInaccessible(tc, u)
  BY AlikeAhead, AccessAlike
<1> QED
  BY <1>1 DEF Steady, Foresees, Onward, Idles, LastOpen

\* What leaves nobody idle.
LEMMA StoppedSteady ==
  ASSUME Inv, Steady, page' = page, tc' \in ServiceState, Redraws(tc, tc'), ~Idles(tc', page)
  PROVE  Foresees(tc', page') /\ Onward(tc', page', redirect')
  BY RedrawsForesees DEF Steady, Onward

LEMMA AnswerSteady ==
  ASSUME Inv, Timely, Steady, Quiet, NEW d \in dialogs, AnswerStay(d) \/ AnswerLeave(d)
  PROVE  Foresees(tc', page') /\ Onward(tc', page', redirect')
<1> DEFINE s == OnConfirmed(d)
<1>1. tc \in ServiceState /\ (Idles(tc, page) => LastOpen(tc)) /\ Foresees(tc, page)
  BY TimelyFacts DEF Steady, Onward, Quiet
<1>2. d.to \in UnitOrNone /\ (d.asks = "lock" => d.unit \in Unit)
  BY DEF Inv, DialogsOK, Dialog, UnitOrNone
<1>3. s \in ServiceState /\ Foresees(s, page) /\ (Idles(s, page) => LastOpen(s))
  <2>1. CASE d.asks = "timer"
    <3>1. s = CancelTimer(tc)
      BY <2>1 DEF OnConfirmed
    <3> HIDE DEF s
    <3> QED
      BY <1>1, <3>1, CancelTimerStep, CancelTimerSteady DEF Step
  <2>2. CASE d.asks = "lock"
    <3>1. s = LeaveLock(tc, d.unit)
      BY <2>2 DEF OnConfirmed
    <3> HIDE DEF s
    <3> QED
      BY <1>1, <1>2, <2>2, <3>1, LeaveLockSteady
  <2>3. CASE d.asks \notin {"timer", "lock"}
    BY <1>1, <2>3 DEF OnConfirmed
  <2> QED
    BY <2>1, <2>2, <2>3
<1>4. \/ AnswerStay(d) \/ BeginEnding(s) \/ ConfirmEnd(s, dialogs \ {d})
      \/ Activate(s, d.to, page) \/ Stay(s)
  BY DEF AnswerLeave
<1> HIDE DEF s
<1>5. CASE AnswerStay(d)
  BY <1>1, <1>5 DEF AnswerStay, Onward
<1>6. CASE BeginEnding(s) \/ ConfirmEnd(s, dialogs \ {d})
  BY <1>3, <1>6, ConfirmEndSteady
<1>7. CASE Activate(s, d.to, page)
  BY <1>2, <1>3, <1>7, ActivateSteady
<1>8. CASE Stay(s)
  BY <1>3, <1>8 DEF Stay, Onward
<1> QED
  BY <1>4, <1>5, <1>6, <1>7, <1>8

LEMMA RequestTestEndSteady ==
  ASSUME SteadyTimedBlocks, Inv, Timely, Steady, RequestTestEnd
  PROVE  Foresees(tc', page') /\ Onward(tc', page', redirect')
<1>1. tc \in ServiceState /\ (Idles(tc, page) => LastOpen(tc)) /\ Foresees(tc, page)
  BY TimelyFacts DEF Steady, Onward, Quiet, RequestTestEnd
<1>2. NoUnit \in UnitOrNone
  BY DEF UnitOrNone
<1>3. CASE ConfirmEnd(tc, {})
  BY <1>1, <1>3, ConfirmEndSteady
<1>4. CASE Stay(tc)
  BY <1>1, <1>4 DEF Stay, Onward
<1>5. CASE Checked(tc, FALSE) /\ Ask(tc, NoUnit, TRUE)
  BY <1>1, <1>2, <1>5, AskSteady DEF Checked, FreeToLeave
<1>6. CASE /\ Checked(tc, FALSE) /\ Allows(tc, NoUnit)
           /\ ConfirmEnd(SolveLeave(tc, NoUnit), {})
  <2>1. LET r == SolveLeave(tc, NoUnit) IN
        r \in ServiceState /\ Foresees(r, page) /\ (Idles(r, page) => LastOpen(r))
    BY <1>1, <1>2, <1>6, SolveLeaveSteady DEF Checked, FreeToLeave
  <2> QED
    BY <1>6, <2>1, ConfirmEndSteady
<1> QED
  BY <1>3, <1>4, <1>5, <1>6 DEF RequestTestEnd

\* Of the forced requests, that of the timer leads ahead, and that of the monitor is for a test
\* without a unit.
LEMMA ProcessRequestSteady ==
  ASSUME SteadyTimedBlocks, Inv, RequestsOK, Timely, FirstWaits, Steady, ProcessRequest
  PROVE  Foresees(tc', page') /\ Onward(tc', page', redirect')
<1> DEFINE r == Head(requests)
<1>1. tc \in ServiceState /\ (Idles(tc, page) => LastOpen(tc)) /\ Foresees(tc, page)
      /\ Shown(tc, page)
  BY TimelyFacts DEF Steady, Onward, Quiet, ProcessRequest
<1>2. r \in OwnRequest /\ r = requests[1] /\ 1 \in 1..Len(requests)
  BY DEF ProcessRequest, RequestsOK
<1>3. r.force \in BOOLEAN /\ Asked(r.by, r.target, r.force) /\ r.by \in Mover
  BY <1>2 DEF OwnRequest, Request
<1>4. /\ tc.navigation.next \in UnitOrNone /\ tc.navigation.previous \in UnitOrNone
      /\ tc.navigation.first \in UnitOrNone /\ tc.navigation.last \in UnitOrNone
  BY <1>1 DEF ServiceState, NavigationTargets
<1>5. CarryOut(r)
  BY DEF ProcessRequest
<1>6. r.by = "monitor" /\ r.target = "FIRST" => tc.current = NoUnit
  BY <1>2 DEF FirstWaits
<1> HIDE DEF r
<1>7. \/ r.force = FALSE
      \/ r.target = "NEXT"
      \/ r.target = "PAUSE"
      \/ tc.current = NoUnit
  BY <1>3, <1>6 DEF Asked, Mover
<1>8. ASSUME Idles(InterruptTimer(tc), page)
      PROVE  LastOpen(tc) \/ Away(tc, tc.navigation.next)
  <2>1. \A v : Locked(tc, v) <=> Locked(InterruptTimer(tc), v)
    BY <1>1, InterruptTimerFacts, LockedAlike
  <2>2. page = "unit" /\ tc.current # NoUnit /\ ~Locked(tc, tc.current)
    BY <1>1, <1>8, <2>1, InterruptTimerFacts DEF Idles, SameUnit, TimerOfUnit
  <2>3. tc.navigation.next # NoUnit => tc.current < tc.navigation.next
    <3>1. tc.current \in Int /\ tc.navigation.next \in Int
      BY <1>1, <1>4, BookletAssumption DEF ServiceState, UnitOrNone, Unit, NoUnit
    <3> QED
      BY <1>1, <2>2, <3>1 DEF Foresees
  <2> QED
    BY <1>1, <2>2, <2>3 DEF Foresees, LastOpen, Away
<1>9. CASE page' = "status"
  BY <1>9 DEF Foresees, Onward, Idles
<1>10. ASSUME NEW to \in UnitOrNone, Go(tc, to, r.force),
              r.force /\ Idles(InterruptTimer(tc), page) => LastOpen(tc) \/ Away(tc, to)
       PROVE  Foresees(tc', page') /\ Onward(tc', page', redirect')
  BY <1>1, <1>3, <1>10, GoSteady
<1>11. CASE r.target = "NEXT" /\ Go(tc, tc.navigation.next, r.force)
  BY <1>4, <1>8, <1>10, <1>11
<1>12. CASE r.target \notin {"NEXT", "PAUSE"}
  <2>1. ~(r.force /\ Idles(InterruptTimer(tc), page))
    <3>1. tc.current = NoUnit => ~Idles(InterruptTimer(tc), page)
      BY <1>1 DEF Shown, Idles
    <3> QED
      BY <1>7, <1>12, <3>1
  <2> QED
    BY <1>4, <1>5, <1>10, <1>12, <2>1 DEF CarryOut
<1> QED
  BY <1>5, <1>9, <1>11, <1>12 DEF CarryOut

\* Conditions neither open nor close a timed block or a unit behind it.
LEMMA EvaluateConditionsSteady ==
  ASSUME SteadyTimedBlocks, Inv, Timely, Steady, NEW shown \in SUBSET Conditional,
         EvaluateConditions(shown)
  PROVE  Foresees(tc', page') /\ Onward(tc', page', redirect')
<1>1. tc \in ServiceState /\ (Idles(tc, page) => LastOpen(tc)) /\ Foresees(tc, page)
      /\ OnTime(tc, page)
  BY TimelyFacts DEF Steady, Onward, Quiet, EvaluateConditions
<1>2. /\ tc' \in ServiceState /\ SameUnit(tc, tc') /\ SameTimes(tc, tc')
      /\ tc'.lockedUnits = tc.lockedUnits /\ tc'.show \subseteq Conditional
      /\ tc'.time = tc.time /\ tc'.code = tc.code /\ tc'.afterLeave = tc.afterLeave
      /\ Redraws(tc, tc') /\ page' = page
  BY <1>1, UpdateAllShowLocksStep, UpdateAllShowLocksFacts, UpdateAllShowLocksRedraws
     DEF EvaluateConditions, Step
<1>3. Foresees(tc', page)
  BY <1>1, <1>2, RedrawsForesees
<1>4. ASSUME Idles(tc', page) PROVE LastOpen(tc')
  <2>1. ASSUME NEW v \in Unit, Above[ParentOf[v]] \cap Conditional = {}
        PROVE  /\ Locked(tc, v) <=> Locked(tc', v)
               /\ UnitIsInaccessible(tc, v) <=> UnitIsInaccessible(tc', v)
    <3>1. tc.show \subseteq Conditional
      BY <1>1 DEF OnTime
    <3>2. tc.show \cap Above[ParentOf[v]] = tc'.show \cap Above[ParentOf[v]]
      BY <1>2, <2>1, <3>1
    <3> QED
      BY <1>2, <3>2, AccessLocal
  <2>2. tc.current \in Unit /\ TimerOfUnit(tc.current) # NoTimer
    BY <1>1, <1>2, <1>4 DEF Idles, TimerOfUnit, ServiceState, UnitOrNone, SameUnit
  <2>3. Above[ParentOf[tc.current]] \cap Conditional = {}
    <3>1. TimerOf(ParentOf[tc.current]) # NoTimer /\ ParentOf[tc.current] \in Testlet
      BY <2>2, BookletAssumption DEF TimerOfUnit
    <3> QED
      BY <3>1 DEF SteadyTimedBlocks, PlainTimedBlocks
  <2>4. Idles(tc, page)
    BY <1>2, <1>4, <2>1, <2>2, <2>3 DEF Idles, SameUnit, SameTimes
  <2>5. LastOpen(tc)
    BY <1>1, <2>4
  <2>6. NoneAhead(tc')
    <3>1. ASSUME NEW v \in Unit, v > tc.current PROVE UnitIsInaccessible(tc', v)
      <4>1. tc.current < v
        BY <2>2, <3>1, BookletAssumption DEF Unit
      <4>2. Above[ParentOf[v]] \cap Conditional = {}
        BY <2>2, <4>1 DEF SteadyTimedBlocks
      <4> QED
        BY <2>1, <2>5, <3>1, <4>2 DEF LastOpen, NoneAhead
    <3> QED
      BY <1>2, <3>1 DEF NoneAhead, SameUnit
  <2> QED
    BY <1>2, <2>5, <2>6, RedrawsLastOpen DEF LastOpen
<1> QED
  BY <1>2, <1>3, <1>4 DEF Onward

LEMMA NextSteady ==
  ASSUME SteadyTimedBlocks, Inv, RequestsOK, Timely, PauseWaits, FirstWaits, Steady, [Next]_vars
  PROVE  Steady'
<1>1. /\ tc \in ServiceState /\ Foresees(tc, page) /\ Onward(tc, page, redirect)
      /\ OnTime(tc, page) /\ Shown(tc, page) /\ redirect \in UnitOrNone
      /\ Quiet /\ Idles(tc, page) => LastOpen(tc)
  BY TimelyFacts DEF Steady, Onward, Quiet, Inv, RouterOK
<1> DEFINE Goal == Foresees(tc', page') /\ Onward(tc', page', redirect')
<1> SUFFICES Goal
  BY DEF Goal, Steady, Foresees, Onward, Idles, NoneAhead, LastOpen, UnitIsInaccessible,
     Locked, LocksAbove, LockedByCode, LockedThrough
<1>2. ASSUME UNCHANGED <<tc, page, redirect>> PROVE Goal
  BY <1>1, <1>2
<1>3. ASSUME page' # "unit" PROVE Goal
  BY <1>3 DEF Foresees, Onward, Idles
<1>4. CASE FollowRedirect
  <2>1. Go(tc, redirect, FALSE) /\ redirect # NoUnit
    BY <1>4 DEF FollowRedirect
  <2>2. Idles(tc, page) => LastOpen(tc) \/ Away(tc, redirect)
    BY <1>1, <2>1 DEF Onward, Away
  <2> QED
    BY <1>1, <2>1, <2>2, GoSteady
<1>5. ASSUME NEW u \in Unit, SelectUnit(u) PROVE Goal
  BY <1>1, <1>5, GoToUnitSteady DEF SelectUnit, Active
<1>6. CASE SaveBuffers \/ UNCHANGED vars \/ \E target \in RelativeTarget : RequestNavigation(target)
  BY <1>2, <1>6 DEF SaveBuffers, vars, RequestNavigation
<1>7. CASE SubmitCode
  <2> DEFINE t == LockedThrough(tc, tc.current)
             s == ClearCodeLock(tc, t)
  <2>1. tc' = RunUnit(s) /\ Locked(tc, tc.current) /\ tc.current \in Unit
    BY <1>1, <1>7 DEF SubmitCode, LockedByCode, ServiceState, UnitOrNone
  <2>2. t \in Testlet
    BY <1>1, <2>1, LockedThroughType
  <2> HIDE DEF t
  <2>3. s \in ServiceState /\ Redraws(tc, s)
    BY <1>1, <2>2, ClearCodeLockStep, ClearCodeLockRedraws DEF Step
  <2> HIDE DEF s
  <2>4. \A p : Foresees(tc, p)
    BY <2>1 DEF Foresees
  <2>5. \A p : Foresees(s, p)
    BY <2>3, <2>4, RedrawsForesees
  <2> QED
    BY <2>1, <2>3, <2>5, RunUnitSteady DEF Onward
<1>8. CASE RequestTestEnd
  BY <1>8, RequestTestEndSteady
<1>9. ASSUME NEW d \in dialogs, Quiet, AnswerStay(d) \/ AnswerLeave(d) PROVE Goal
  BY <1>9, AnswerSteady
<1>10. ASSUME NEW done \in BOOLEAN, ReportProgress(done) PROVE Goal
  <2>1. /\ Moves(tc, tc') /\ SameTimes(tc, tc') /\ tc'.state = tc.state
        /\ SameAccess(tc, tc') /\ tc'.navigation = tc.navigation
        /\ UNCHANGED <<page, redirect>>
    BY <1>10, ReportProgressMoves DEF ReportProgress
  <2> QED
    BY <2>1, PlainSteady DEF SameTimes, Moves, Redraws
<1>11. ASSUME NEW shown \in SUBSET Conditional, EvaluateConditions(shown) PROVE Goal
  BY <1>11, EvaluateConditionsSteady
<1>12. ASSUME NEW shown \in SUBSET Conditional, Load(shown) PROVE Goal
  <2> DEFINE s == RestoreLastState(saved, shown)
             r == SetState(s, "RUNNING")
             resumed == IF saved.unit = NoUnit THEN 1 ELSE saved.unit
  <2>1. saved \in TestState
    BY DEF Inv, Kept, Held
  <2>2. s \in ServiceState
    BY <2>1, RestoreLastStateType
  <2>3. resumed \in UnitOrNone
    BY <2>1, BookletAssumption DEF TestState, UnitOrNone, Unit
  <2> HIDE DEF s, resumed
  <2>4. r \in ServiceState
    BY <2>2, SetStateStep DEF Step, State
  <2>5. page' = "loading" \/ Activate(r, resumed, "loading")
    BY <1>12 DEF Load, s, resumed
  <2> HIDE DEF r
  <2>6. Foresees(r, "loading") /\ ~Idles(r, "loading")
    BY DEF Foresees, Idles
  <2> QED
    BY <1>3, <2>3, <2>4, <2>5, <2>6, ActivateSteady
<1>13. CASE ProcessRequest
  BY <1>13, ProcessRequestSteady
<1>14. CASE Tick
  <2>1. tc.timerId \in Testlet /\ tc.timers[tc.timerId] - 1 \in Int
    BY <1>1, <1>14 DEF Tick, ServiceState, Times
  <2>2. /\ SameUnit(tc, tc') /\ SameAccess(tc, tc') /\ tc'.navigation = tc.navigation
        /\ tc'.timerId = tc.timerId
    BY <1>1, <1>14, <2>1, SetTimeLeftFacts, PlainRedraws DEF Tick, SameAccess
  <2>3. UNCHANGED <<page, redirect>>
    BY <1>14 DEF Tick
  <2> QED
    BY <2>2, <2>3, PlainSteady DEF SameUnit
<1>15. CASE TimerEnded
  <2>1. tc.timerId # NoTimer /\ tc' = CloseTimedBlock(tc) /\ page' = page
    BY <1>15 DEF TimerEnded
  <2>2. tc.current \in Unit /\ ParentOf[tc.current] \in Above[ParentOf[tc.current]]
    BY <1>1, <2>1, BookletAssumption DEF OnTime, ServiceState, UnitOrNone
  <2>3. tc' \in ServiceState /\ Redraws(tc, tc')
    BY <1>1, <2>1, CloseTimedBlockStep, CloseTimedBlockRedraws DEF Step
  <2>4. ForceTimeRestrictions => ParentOf[tc'.current] \in tc'.time /\ tc'.current = tc.current
    BY <1>1, <2>1, CloseTimedBlockFacts DEF OnTime, SameUnit
  <2>5. ~Idles(tc', page)
    BY <2>2, <2>4 DEF Idles, Locked, LocksAbove
  <2> QED
    BY <2>1, <2>3, <2>5, StoppedSteady
<1>16. CASE Pause
  <2> DEFINE s == InterruptTimer(tc)
  <2>1. Moves(tc, s) /\ s \in ServiceState
    BY <1>1, MethodsMove DEF Moves, Step
  <2>2. tc' = SetState(s, "PAUSED") /\ page' = page
    BY <1>16 DEF Pause
  <2> HIDE DEF s
  <2>3. Moves(s, tc') /\ tc'.state = "PAUSED"
    BY <2>1, <2>2, MethodsMove, SetStateFacts DEF State
  <2>4. Moves(tc, tc')
    BY <2>1, <2>3, MovesChain
  <2> QED
    BY <2>2, <2>3, <2>4, StoppedSteady DEF Moves, Step, Idles
<1>17. CASE Resume
  <2> DEFINE s == SetState(tc, "RUNNING")
  <2>1. s \in ServiceState /\ s.current = tc.current
    BY <1>1, SetStateStep, SetStateFacts DEF Step, State
  <2>2. \/ tc.current # NoUnit /\ GoToUnit(s, tc.current, TRUE)
        \/ tc.current = NoUnit /\ tc' = s
    BY <1>17 DEF Resume
  <2> HIDE DEF s
  <2>3. CASE tc.current = NoUnit /\ tc' = s
    BY <2>1, <2>3 DEF Foresees, Onward, Idles, TimerOfUnit
  <2>4. CASE tc.current # NoUnit /\ GoToUnit(s, tc.current, TRUE) /\ page = "unit"
    <3>1. tc.current \in Unit
      BY <1>1, <2>4 DEF ServiceState, UnitOrNone
    <3>2. Stay(Open(s, tc.current))
      BY <2>1, <2>4 DEF GoToUnit
    <3> QED
      BY <2>1, <3>1, <3>2, OpenSteady DEF Stay, Onward
  <2>5. CASE tc.current # NoUnit /\ GoToUnit(s, tc.current, TRUE) /\ page # "unit"
    <3>1. tc.current \in Unit
      BY <1>1, <2>5 DEF ServiceState, UnitOrNone
    <3>2. Foresees(s, page) /\ ~Idles(s, page) /\ ~Idles(InterruptTimer(s), page)
      BY <2>5 DEF Foresees, Idles
    <3> QED
      BY <2>1, <2>5, <3>1, <3>2, GoToUnitSteady
  <2> QED
    BY <2>2, <2>3, <2>4, <2>5
<1>18. ASSUME NEW lock \in BOOLEAN, TerminateCommand(lock) PROVE Goal
  <2>1. tc' = Terminate(tc) /\ page' = page
    BY <1>18 DEF TerminateCommand
  <2>2. Moves(tc, tc') /\ tc'.state # "RUNNING"
    BY <1>1, <2>1, MethodsMove, TerminateFacts
  <2> QED
    BY <2>1, <2>2, StoppedSteady DEF Moves, Step, Idles
<1>19. ASSUME NEW u \in Unit, NEW given \in GivenTime \cup {NotANumber}, Goto(u, given) PROVE Goal
  BY <1>19, GotoSteady
<1>20. CASE ErrorOut
  <2>1. tc' = SetState(tc, "ERROR") /\ page' = page /\ "ERROR" \in State
    BY <1>20 DEF ErrorOut, State
  <2>2. Moves(tc, tc') /\ tc'.state # "RUNNING"
    BY <1>1, <2>1, MethodsMove, SetStateFacts
  <2> QED
    BY <2>1, <2>2, StoppedSteady DEF Moves, Step, Idles
<1>21. CASE FinishEnding
  BY <1>3, <1>21 DEF FinishEnding, LeaveEnded
<1>22. CASE Answer
  BY <1>9, <1>22 DEF Answer
<1> QED
  BY <1>4, <1>5, <1>6, <1>7, <1>8, <1>10, <1>11, <1>12, <1>13, <1>14, <1>15, <1>16, <1>17,
     <1>18, <1>19, <1>20, <1>21, <1>22 DEF Next

\* As long as no unit has been opened nothing is asked but whether to end the test, and one
\* request waits at most: that of the loader, or then that of the monitor.
Unopened ==
  tc.current = NoUnit =>
    /\ \A d \in dialogs : d.asks = "end"
    /\ Len(requests) <= 1
    /\ requests # <<>> => requests[1].by = "monitor" \/ page = "loading"
    /\ redirect # NoUnit => requests = <<>>

Pending == PauseWaits /\ FirstWaits /\ Unopened

\* A unit once opened is the current one until the test is loaded anew.
LEMMA StaysOpened ==
  ASSUME Inv, Timely, tc.current # NoUnit, [Next]_vars,
         ~\E shown \in SUBSET Conditional : Load(shown)
  PROVE  tc'.current # NoUnit
<1>1. /\ tc \in ServiceState /\ page \in Page /\ Shown(tc, page) /\ DialogsOK(dialogs)
      /\ redirect \in UnitOrNone /\ OnTime(tc, page) /\ requests \in Seq(Request)
      /\ ending \in {"no", "leave", "lock"} /\ tc.current \in Unit /\ NoUnit \in UnitOrNone
  BY TimelyFacts DEF Inv, RouterOK, ServiceState, UnitOrNone
<1>2. ASSUME NEW s, Step(tc, s), Step(s, tc') PROVE tc'.current # NoUnit
  BY <1>2 DEF Step
<1>3. ASSUME Step(tc, tc') PROVE tc'.current # NoUnit
  BY <1>3 DEF Step
<1>4. ASSUME tc' = tc PROVE tc'.current # NoUnit
  BY <1>4
<1>5. CASE FollowRedirect
  BY <1>1, <1>3, <1>5, GoLands DEF FollowRedirect, Lands
<1>6. ASSUME NEW u \in Unit, SelectUnit(u) PROVE tc'.current # NoUnit
  BY <1>1, <1>3, <1>6, GoToUnitLands DEF SelectUnit, Lands
<1>7. CASE \/ SaveBuffers \/ UNCHANGED vars \/ \E target \in RelativeTarget : RequestNavigation(target)
  BY <1>4, <1>7 DEF SaveBuffers, vars, RequestNavigation
<1>8. CASE SubmitCode
  <2> DEFINE t == LockedThrough(tc, tc.current)
             s == ClearCodeLock(tc, t)
  <2>1. tc' = RunUnit(s) /\ Locked(tc, tc.current)
    BY <1>8 DEF SubmitCode, LockedByCode
  <2>2. t \in Testlet
    BY <1>1, <2>1, LockedThroughType
  <2> HIDE DEF t
  <2>3. Step(tc, s)
    BY <1>1, <2>2, ClearCodeLockStep
  <2> HIDE DEF s
  <2> QED
    BY <1>2, <2>1, <2>3, RunUnitStep DEF Step
<1>9. CASE RequestTestEnd
  <2>1. CASE Stay(tc)
    BY <1>4, <2>1 DEF Stay
  <2>2. CASE Ask(tc, NoUnit, TRUE)
    BY <1>1, <1>3, <2>2, AskLands DEF Lands
  <2>3. CASE ConfirmEnd(tc, {})
    BY <1>1, <1>3, <2>3, ConfirmEndLands DEF Lands, DialogsOK
  <2>4. CASE ConfirmEnd(SolveLeave(tc, NoUnit), {})
    <3> DEFINE s == SolveLeave(tc, NoUnit)
    <3>1. Step(tc, s)
      BY <1>1, SolveLeaveStep
    <3>2. ConfirmEnd(s, {})
      BY <2>4
    <3> HIDE DEF s
    <3> QED
      BY <1>1, <1>2, <3>1, <3>2, ConfirmEndLands DEF Lands, DialogsOK, Step, Shown
  <2> QED
    BY <1>9, <2>1, <2>2, <2>3, <2>4 DEF RequestTestEnd
<1>10. ASSUME NEW d \in dialogs, AnswerStay(d) \/ AnswerLeave(d) PROVE tc'.current # NoUnit
  <2> DEFINE s == OnConfirmed(d)
  <2>1. d.to \in UnitOrNone /\ (d.asks = "lock" => d.unit \in Unit)
    BY <1>1 DEF DialogsOK, Dialog, UnitOrNone
  <2>2. Step(tc, s)
    BY <1>1, <2>1, StepStays, CancelTimerStep, LeaveLockStep DEF OnConfirmed
  <2>3. \/ AnswerStay(d) \/ BeginEnding(s) \/ ConfirmEnd(s, dialogs \ {d})
        \/ Activate(s, d.to, page) \/ Stay(s)
    BY <1>10 DEF AnswerLeave
  <2>4. DialogsOK(dialogs \ {d})
    BY <1>1 DEF DialogsOK
  <2> HIDE DEF s
  <2>5. s \in ServiceState /\ Shown(s, page)
    BY <1>1, <2>2 DEF Step, Shown
  <2> QED
    BY <1>1, <1>2, <1>3, <1>4, <2>1, <2>2, <2>3, <2>4, <2>5, BeginEndingLands, ConfirmEndLands,
       ActivateLands DEF Lands, AnswerStay, Stay
<1>11. ASSUME NEW done \in BOOLEAN, ReportProgress(done) PROVE tc'.current # NoUnit
  BY <1>11, ReportProgressMoves DEF Moves, Redraws
<1>12. ASSUME NEW shown \in SUBSET Conditional, EvaluateConditions(shown) PROVE tc'.current # NoUnit
  BY <1>1, <1>3, <1>12, UpdateAllShowLocksStep DEF EvaluateConditions
<1>13. CASE ProcessRequest
  <2>1. Head(requests) \in Request
    BY <1>1, <1>13 DEF ProcessRequest
  <2>2. Head(requests).force \in BOOLEAN
    BY <2>1 DEF Request
  <2>3. /\ tc.navigation.next \in UnitOrNone /\ tc.navigation.previous \in UnitOrNone
        /\ tc.navigation.first \in UnitOrNone /\ tc.navigation.last \in UnitOrNone
    BY <1>1 DEF ServiceState, NavigationTargets
  <2>4. CASE tc' = LeftUnchecked(tc)
    BY <1>1, <1>3, <2>4, LeftUncheckedStep
  <2> QED
    BY <1>1, <1>3, <1>13, <2>2, <2>3, <2>4, GoLands DEF ProcessRequest, CarryOut, Lands
<1>14. CASE Tick
  <2>1. tc.timerId \in Testlet /\ tc.timers[tc.timerId] - 1 \in Int
    BY <1>1, <1>14 DEF Tick, ServiceState, Times
  <2> QED
    BY <1>1, <1>3, <1>14, <2>1, SetTimeLeftStep DEF Tick
<1>15. CASE TimerEnded
  BY <1>1, <1>3, <1>15, CloseTimedBlockStep DEF TimerEnded
<1>16. CASE Pause
  BY <1>1, <1>2, <1>16, InterruptTimerStep, SetStateStep DEF Pause, Step, State
<1>17. CASE Resume
  <2> DEFINE s == SetState(tc, "RUNNING")
  <2>1. Step(tc, s)
    BY <1>1, SetStateStep DEF State
  <2>2. GoToUnit(s, tc.current, TRUE)
    BY <1>17 DEF Resume
  <2> HIDE DEF s
  <2> QED
    BY <1>1, <1>2, <2>1, <2>2, GoToUnitLands DEF Lands, Step, Shown
<1>18. ASSUME NEW lock \in BOOLEAN, TerminateCommand(lock) PROVE tc'.current # NoUnit
  BY <1>1, <1>3, <1>18, TerminateStep DEF TerminateCommand
<1>19. ASSUME NEW u \in Unit, NEW given \in GivenTime \cup {NotANumber}, Goto(u, given)
       PROVE  tc'.current # NoUnit
  <2> DEFINE s == SetState(tc, "RUNNING")
             r == PrepareGoto(s, u, given)
  <2>1. s \in ServiceState /\ s.current = tc.current
    BY <1>1, SetStateStep, SetStateFacts DEF Step, State
  <2>2. GoToUnit(r, u, TRUE)
    BY <1>19 DEF Goto
  <2> HIDE DEF s
  <2>3. r \in ServiceState /\ r.current = s.current
    BY <2>1, PrepareGotoLocks
  <2> HIDE DEF r
  <2>4. Step(r, tc')
    BY <1>1, <2>1, <2>2, <2>3, GoToUnitLands DEF Lands, Shown
  <2> QED
    BY <2>1, <2>3, <2>4 DEF Step
<1>20. CASE ErrorOut
  BY <1>1, <1>3, <1>20, SetStateStep DEF ErrorOut, State
<1>21. CASE FinishEnding
  BY <1>1, <1>3, <1>21, LeftUncheckedStep DEF FinishEnding, LeaveEnded
<1> QED
  BY <1>5, <1>6, <1>7, <1>8, <1>9, <1>10, <1>11, <1>12, <1>13, <1>14, <1>15, <1>16, <1>17, <1>18,
     <1>19, <1>20, <1>21 DEF Next, Answer

\* Whoever sees a unit in a paused test has seen it before.
StaysPaused ==
  page' = "unit" /\ tc'.state = "PAUSED" => page = "unit" /\ tc.state = "PAUSED"

LEMMA WandersStaysPaused ==
  ASSUME NEW s, s.state = tc.state \/ s.state = "RUNNING", Wanders(s)
  PROVE  StaysPaused
  BY DEF Wanders, Calm, ActivationBlocked, StaysPaused

LEMMA ConfirmEndStaysPaused ==
  ASSUME NEW s \in ServiceState, s.state = tc.state, NEW open,
         ConfirmEnd(s, open) \/ BeginEnding(s)
  PROVE  StaysPaused
  BY TerminateFacts DEF ConfirmEnd, BeginEnding, Stay, StaysPaused

LEMMA AnswerStaysPaused ==
  ASSUME Inv, Timely, NEW d \in dialogs, AnswerStay(d) \/ AnswerLeave(d)
  PROVE  StaysPaused
<1> DEFINE s == OnConfirmed(d)
<1>1. tc \in ServiceState /\ DialogsOK(dialogs)
  BY TimelyFacts
<1>2. d.to \in UnitOrNone /\ (d.asks = "lock" => d.unit \in Unit)
  BY <1>1 DEF DialogsOK, Dialog, UnitOrNone
<1>3. s \in ServiceState /\ s.state = tc.state
  BY <1>1, <1>2, CancelTimerStep, CancelTimerFacts, LeaveLockStep, LeaveLockFacts
     DEF OnConfirmed, Step, SameUnit
<1>4. \/ AnswerStay(d) \/ BeginEnding(s) \/ ConfirmEnd(s, dialogs \ {d})
      \/ Activate(s, d.to, page) \/ Stay(s)
  BY DEF AnswerLeave
<1> HIDE DEF s
<1>5. CASE AnswerStay(d)
  BY <1>5 DEF AnswerStay, StaysPaused
<1>6. CASE BeginEnding(s) \/ ConfirmEnd(s, dialogs \ {d})
  BY <1>3, <1>6, ConfirmEndStaysPaused
<1>7. CASE Activate(s, d.to, page)
  BY <1>2, <1>3, <1>7, ActivateWanders, WandersStaysPaused
<1>8. CASE Stay(s)
  BY <1>3, <1>8 DEF Stay, StaysPaused
<1> QED
  BY <1>4, <1>5, <1>6, <1>7, <1>8

LEMMA NextPauseWaits ==
  ASSUME Inv, RequestsOK, Timely, Orderly, PauseWaits, FirstWaits, [Next]_vars
  PROVE  PauseWaits'
<1>1. /\ tc \in ServiceState /\ DialogsOK(dialogs) /\ ExitsEnd(dialogs) /\ Shown(tc, page)
      /\ redirect \in UnitOrNone /\ OnTime(tc, page) /\ requests \in Seq(Request)
      /\ NoUnit \in UnitOrNone
  BY TimelyFacts DEF Inv, RouterOK, UnitOrNone, Orderly, EndsProperly
<1>2. ASSUME page' # "unit" \/ tc'.state # "PAUSED" PROVE PauseWaits'
  BY <1>2 DEF PauseWaits
<1>3. ASSUME NEW r, r.by = "monitor", requests' = Append(requests, r) PROVE PauseWaits'
  <2>1. Len(requests') \in 1..Len(requests') /\ requests'[Len(requests')].by = "monitor"
    BY <1>1, <1>3
  <2> QED
    BY <2>1 DEF PauseWaits, Waiting
<1>4. ASSUME StaysPaused, requests' = requests \/ \E r : requests' = Append(requests, r)
      PROVE  PauseWaits'
  <2> SUFFICES ASSUME NEW i \in 1..Len(requests), requests[i].by = "monitor"
               PROVE  Waiting("monitor")'
    BY <1>4 DEF PauseWaits, StaysPaused, Waiting
  <2>1. i \in 1..Len(requests') /\ requests'[i] = requests[i]
    BY <1>1, <1>4
  <2> QED
    BY <2>1 DEF Waiting
<1>5. CASE FollowRedirect
  <2>1. StaysPaused
    BY <1>1, <1>5, GoWanders, WandersStaysPaused DEF FollowRedirect
  <2> QED
    BY <1>4, <1>5, <2>1 DEF FollowRedirect
<1>6. ASSUME NEW u \in Unit, SelectUnit(u) PROVE PauseWaits'
  <2>1. StaysPaused
    BY <1>1, <1>6, GoToUnitWanders, WandersStaysPaused DEF SelectUnit
  <2> QED
    BY <1>4, <1>6, <2>1 DEF SelectUnit
<1>7. CASE SaveBuffers \/ UNCHANGED vars \/ \E target \in RelativeTarget : RequestNavigation(target)
  BY <1>4, <1>7 DEF SaveBuffers, vars, RequestNavigation, Enqueue, StaysPaused
<1>8. CASE SubmitCode
  <2> DEFINE t == LockedThrough(tc, tc.current)
             s == ClearCodeLock(tc, t)
  <2>1. /\ tc' = RunUnit(s) /\ Locked(tc, tc.current) /\ tc.current \in Unit
        /\ UNCHANGED <<page, requests>>
    BY <1>1, <1>8 DEF SubmitCode, LockedByCode, ServiceState, UnitOrNone
  <2>2. t \in Testlet
    BY <1>1, <2>1, LockedThroughType
  <2> HIDE DEF t
  <2>3. s \in ServiceState /\ s.state = tc.state
    BY <1>1, <2>2, ClearCodeLockStep, ClearCodeLockFacts DEF Step, SameUnit
  <2> HIDE DEF s
  <2>4. tc'.state = tc.state
    BY <2>1, <2>3, RunUnitFacts DEF SameUnit
  <2> QED
    BY <1>4, <2>1, <2>4 DEF StaysPaused
<1>9. CASE RequestTestEnd
  <2>1. StaysPaused
    <3>1. CASE Stay(tc)
      BY <3>1 DEF Stay, StaysPaused
    <3>2. CASE Ask(tc, NoUnit, TRUE)
      BY <1>1, <3>2, CalmSolve DEF Ask, Stay, Calm, StaysPaused
    <3>3. CASE ConfirmEnd(tc, {})
      BY <1>1, <3>3, ConfirmEndStaysPaused
    <3>4. CASE Checked(tc, FALSE) /\ ConfirmEnd(SolveLeave(tc, NoUnit), {})
      BY <1>1, <3>4, SolveLeaveStep, CalmSolve, ConfirmEndStaysPaused
         DEF Step, Calm, Checked, FreeToLeave
    <3> QED
      BY <1>9, <3>1, <3>2, <3>3, <3>4 DEF RequestTestEnd
  <2> QED
    BY <1>4, <1>9, <2>1 DEF RequestTestEnd
<1>10. ASSUME NEW d \in dialogs, AnswerStay(d) \/ AnswerLeave(d) PROVE PauseWaits'
  BY <1>4, <1>10, AnswerStaysPaused DEF AnswerStay, AnswerLeave
<1>11. ASSUME NEW done \in BOOLEAN, ReportProgress(done) PROVE PauseWaits'
  <2>1. tc'.state = tc.state
    BY <1>11, ReportProgressMoves
  <2> QED
    BY <1>4, <1>11, <2>1 DEF ReportProgress, StaysPaused
<1>12. ASSUME NEW shown \in SUBSET Conditional, EvaluateConditions(shown) PROVE PauseWaits'
  <2>1. tc'.state = tc.state
    BY <1>1, <1>12, UpdateAllShowLocksFacts DEF EvaluateConditions, SameUnit
  <2> QED
    BY <1>4, <1>12, <2>1 DEF EvaluateConditions, StaysPaused
<1>13. ASSUME NEW shown \in SUBSET Conditional, Load(shown) PROVE PauseWaits'
  <2> DEFINE s == RestoreLastState(saved, shown)
             r == SetState(s, "RUNNING")
             resumed == IF saved.unit = NoUnit THEN 1 ELSE saved.unit
  <2>1. saved \in TestState
    BY DEF Inv, Kept, Held
  <2>2. s \in ServiceState
    BY <2>1, RestoreLastStateType
  <2>3. resumed \in UnitOrNone
    BY <2>1, BookletAssumption DEF TestState, UnitOrNone, Unit
  <2> HIDE DEF s, resumed
  <2>4. r \in ServiceState /\ r.state = "RUNNING"
    BY <2>2, SetStateStep, SetStateFacts DEF Step, State
  <2>5. page' = "loading" \/ Activate(r, resumed, "loading")
    BY <1>13 DEF Load, s, resumed
  <2> HIDE DEF r
  <2>6. ASSUME resumed # NoUnit, tc' = Open(r, resumed) PROVE tc'.state # "PAUSED"
    <3>1. resumed \in Unit
      BY <2>3, <2>6 DEF UnitOrNone
    <3> QED
      BY <2>4, <2>6, <3>1, OpenFacts
  <2> QED
    BY <1>2, <2>4, <2>5, <2>6 DEF Activate
<1>14. CASE ProcessRequest
  <2> DEFINE r == Head(requests)
  <2>1. r \in OwnRequest /\ r = requests[1] /\ 1 \in 1..Len(requests)
    BY <1>14 DEF ProcessRequest, RequestsOK
  <2>2. r.force \in BOOLEAN /\ Asked(r.by, r.target, r.force)
    BY <2>1 DEF OwnRequest, Request
  <2>3. CarryOut(r) /\ requests' = Tail(requests)
    BY <1>14 DEF ProcessRequest, CarryOut
  <2>4. /\ tc.navigation.next \in UnitOrNone /\ tc.navigation.previous \in UnitOrNone
        /\ tc.navigation.first \in UnitOrNone /\ tc.navigation.last \in UnitOrNone
    BY <1>1 DEF ServiceState, NavigationTargets
  <2>5. r.by = "monitor" /\ r.target = "FIRST" => page # "unit"
    BY <1>1, <2>1 DEF FirstWaits, Shown
  <2> HIDE DEF r
  <2>6. CASE r.target = "PAUSE"
    BY <1>2, <2>3, <2>6 DEF CarryOut
  <2>7. CASE r.target # "PAUSE"
    <3>1. StaysPaused
      BY <1>1, <2>2, <2>3, <2>4, <2>7, GoWanders, WandersStaysPaused DEF CarryOut
    <3>2. CASE page = "unit" /\ tc.state = "PAUSED"
      <4>1. r.by # "monitor"
        BY <2>2, <2>5, <2>7, <3>2 DEF Asked
      <4>2. PICK i \in 1..Len(requests) : requests[i].by = "monitor"
        BY <3>2 DEF PauseWaits, Waiting
      <4>3. i - 1 \in 1..Len(requests') /\ requests'[i - 1] = requests[i]
        BY <1>1, <2>1, <2>3, <4>1, <4>2
      <4> QED
        BY <4>2, <4>3 DEF PauseWaits, Waiting
    <3> QED
      BY <1>2, <3>1, <3>2 DEF StaysPaused
  <2> QED
    BY <2>6, <2>7
<1>15. CASE Tick
  <2>1. tc.timerId \in Testlet /\ tc.timers[tc.timerId] - 1 \in Int
    BY <1>1, <1>15 DEF Tick, ServiceState, Times
  <2>2. tc'.state = tc.state
    BY <1>1, <1>15, <2>1, SetTimeLeftFacts DEF Tick, SameUnit
  <2> QED
    BY <1>4, <1>15, <2>2 DEF Tick, StaysPaused
<1>16. CASE TimerEnded
  <2>1. tc'.state = tc.state
    BY <1>1, <1>16, CloseTimedBlockFacts DEF TimerEnded, SameUnit
  <2> QED
    BY <1>4, <1>16, <2>1 DEF TimerEnded, StaysPaused, Enqueue
<1>17. CASE Pause
  <2> DEFINE r == [by |-> "monitor", target |-> "PAUSE", force |-> TRUE]
  <2>1. r.by = "monitor" /\ requests' = Append(requests, r)
    BY <1>17 DEF Pause, Enqueue
  <2> HIDE DEF r
  <2> QED
    BY <1>3, <2>1
<1>18. CASE Resume
  <2> DEFINE s == SetState(tc, "RUNNING")
  <2>1. s \in ServiceState /\ s.state = "RUNNING" /\ (tc.current # NoUnit => tc.current \in Unit)
    BY <1>1, SetStateStep, SetStateFacts DEF Step, State, ServiceState, UnitOrNone
  <2>2. tc' = s \/ (tc.current # NoUnit /\ GoToUnit(s, tc.current, TRUE))
    BY <1>18 DEF Resume
  <2> HIDE DEF s
  <2>3. tc'.state = "RUNNING"
    BY <1>1, <2>1, <2>2, GoToUnitWanders DEF Wanders, Calm
  <2> QED
    BY <1>2, <2>3
<1>19. ASSUME NEW lock \in BOOLEAN, TerminateCommand(lock) PROVE PauseWaits'
  BY <1>1, <1>2, <1>19, TerminateFacts DEF TerminateCommand
<1>20. ASSUME NEW u \in Unit, NEW given \in GivenTime \cup {NotANumber}, Goto(u, given)
       PROVE  PauseWaits'
  <2> DEFINE s == SetState(tc, "RUNNING")
             r == PrepareGoto(s, u, given)
  <2>1. s \in ServiceState /\ s.state = "RUNNING"
    BY <1>1, SetStateStep, SetStateFacts DEF Step, State
  <2>2. GoToUnit(r, u, TRUE)
    BY <1>20 DEF Goto
  <2> HIDE DEF s
  <2>3. r \in ServiceState /\ r.state = "RUNNING"
    BY <2>1, PrepareGotoLocks
  <2> HIDE DEF r
  <2>4. tc'.state = "RUNNING"
    BY <1>1, <2>2, <2>3, GoToUnitWanders DEF Wanders, Calm
  <2> QED
    BY <1>2, <2>4
<1>21. CASE ErrorOut
  BY <1>1, <1>2, <1>21, SetStateFacts DEF ErrorOut, State
<1>22. CASE FinishEnding
  BY <1>2, <1>22 DEF FinishEnding, LeaveEnded
<1> QED
  BY <1>5, <1>6, <1>7, <1>8, <1>9, <1>10, <1>11, <1>12, <1>13, <1>14, <1>15, <1>16, <1>17, <1>18,
     <1>19, <1>20, <1>21, <1>22 DEF Next, Answer

\* Where no unit is shown a navigation asks nothing.
LEMMA GoUnasked ==
  ASSUME NEW s, NEW to, NEW force, page # "unit", Go(s, to, force)
  PROVE  dialogs' = Superseded
  BY DEF Go, Checked

LEMMA NextUnopened ==
  ASSUME Inv, RequestsOK, Timely, FirstWaits, Unopened, [Next]_vars
  PROVE  FirstWaits' /\ Unopened'
<1> DEFINE Goal == FirstWaits' /\ Unopened'
<1> SUFFICES Goal
  OBVIOUS
<1>1. /\ tc \in ServiceState /\ DialogsOK(dialogs) /\ Wellformed(dialogs) /\ Shown(tc, page)
      /\ OnTime(tc, page) /\ requests \in Seq(Request)
  BY TimelyFacts DEF Inv, RouterOK
<1>2. ASSUME NEW shown \in SUBSET Conditional, Load(shown) PROVE Goal
  <2>1. /\ dialogs' = {}
        /\ \/ requests' = <<>>
           \/ /\ requests' = <<[by |-> "loader", target |-> "PAUSE", force |-> FALSE]>>
              /\ page' = "loading" /\ redirect' = NoUnit
    BY <1>2 DEF Load
  <2>2. CASE requests' = <<>>
    BY <2>1, <2>2 DEF FirstWaits, Unopened
  <2>3. CASE /\ requests' = <<[by |-> "loader", target |-> "PAUSE", force |-> FALSE]>>
             /\ page' = "loading" /\ redirect' = NoUnit
    <3>1. Len(requests') = 1 /\ requests'[1].by = "loader"
      BY <2>3
    <3>2. \A i \in 1..Len(requests') : requests'[i].by = "loader"
      BY <2>3
    <3> QED
      BY <2>1, <2>3, <3>1, <3>2 DEF FirstWaits, Unopened
  <2> QED
    BY <2>1, <2>2, <2>3
<1>3. CASE tc.current # NoUnit /\ ~\E shown \in SUBSET Conditional : Load(shown)
  <2>1. tc'.current # NoUnit
    BY <1>3, StaysOpened
  <2>2. \A i \in 1..Len(requests) : ~(requests[i].by = "monitor" /\ requests[i].target = "FIRST")
    BY <1>3 DEF FirstWaits
  <2>3. ASSUME requests' \in {requests, <<>>} PROVE Goal
    BY <2>1, <2>2, <2>3 DEF FirstWaits, Unopened
  <2>4. ASSUME requests # <<>>, requests' = Tail(requests) PROVE Goal
    <3>1. ASSUME NEW i \in 1..Len(requests')
          PROVE  ~(requests'[i].by = "monitor" /\ requests'[i].target = "FIRST")
      <4>1. i + 1 \in 1..Len(requests) /\ requests'[i] = requests[i + 1]
        BY <1>1, <2>4
      <4> QED
        BY <2>2, <4>1
    <3> QED
      BY <2>1, <3>1 DEF FirstWaits, Unopened
  <2>5. ASSUME NEW r, requests' = Append(requests, r), r.by # "monitor" \/ r.target # "FIRST"
        PROVE  Goal
    <3>1. ASSUME NEW i \in 1..Len(requests')
          PROVE  ~(requests'[i].by = "monitor" /\ requests'[i].target = "FIRST")
      <4>1. \/ i \in 1..Len(requests) /\ requests'[i] = requests[i]
            \/ requests'[i] = r
        BY <1>1, <2>5
      <4> QED
        BY <2>2, <2>5, <4>1
    <3> QED
      BY <2>1, <3>1 DEF FirstWaits, Unopened
  <2>6. ASSUME NEW by, NEW target, NEW force, Enqueue(by, target, force),
               by # "monitor" \/ target # "FIRST"
        PROVE  Goal
    <3> DEFINE r == [by |-> by, target |-> target, force |-> force]
    <3>1. requests' = Append(requests, r) /\ (r.by # "monitor" \/ r.target # "FIRST")
      BY <2>6 DEF Enqueue
    <3> HIDE DEF r
    <3> QED
      BY <2>5, <3>1
  <2>7. CASE \/ \E target \in RelativeTarget : RequestNavigation(target)
             \/ TimerEnded \/ Pause \/ Resume
    BY <1>3, <2>3, <2>6, <2>7 DEF RequestNavigation, TimerEnded, Pause, Resume
  <2>8. CASE ProcessRequest
    BY <2>4, <2>8 DEF ProcessRequest, CarryOut
  <2>9. CASE FollowRedirect \/ SubmitCode \/ RequestTestEnd \/ Tick \/ ErrorOut \/ SaveBuffers
             \/ (\E u \in Unit : SelectUnit(u)) \/ (\E done \in BOOLEAN : ReportProgress(done))
             \/ (\E shown \in SUBSET Conditional : EvaluateConditions(shown))
             \/ (\E lock \in BOOLEAN : TerminateCommand(lock))
             \/ (\E u \in Unit, given \in GivenTime \cup {NotANumber} : Goto(u, given))
             \/ Answer \/ FinishEnding \/ UNCHANGED vars
    BY <2>3, <2>9 DEF FollowRedirect, SubmitCode, RequestTestEnd, Tick, ErrorOut, SaveBuffers,
       SelectUnit, ReportProgress, EvaluateConditions, TerminateCommand, Goto, Answer, AnswerStay,
       AnswerLeave, FinishEnding, LeaveEnded, vars
  <2> HIDE DEF Goal
  <2> QED
    BY <1>3, <2>7, <2>8, <2>9 DEF Next
<1>4. CASE tc.current = NoUnit /\ ~\E shown \in SUBSET Conditional : Load(shown)
  <2>1. /\ page # "unit" /\ tc.timerId = NoTimer /\ (\A d \in dialogs : d.asks = "end")
        /\ Len(requests) <= 1 /\ (requests # <<>> => requests[1].by = "monitor" \/ page = "loading")
        /\ (redirect # NoUnit => requests = <<>>)
    BY <1>1, <1>4 DEF Shown, OnTime, Unopened
  <2>2. \A d \in Superseded : d.asks = "end"
    <3> SUFFICES ASSUME NEW d \in dialogs PROVE [d EXCEPT !.live = FALSE].asks = "end"
      BY DEF Superseded
    <3>1. d \in Dialog
      BY <1>1 DEF DialogsOK
    <3> QED
      BY <2>1, <3>1 DEF Dialog
  <2>3. ASSUME requests' = <<>>, \A d \in dialogs' : d.asks = "end" PROVE Goal
    BY <2>3 DEF FirstWaits, Unopened
  <2>4. ASSUME requests' = requests, tc'.current = NoUnit, redirect' = NoUnit,
               \A d \in dialogs' : d.asks = "end",
               page' = page \/ page # "loading" \/ requests = <<>>
        PROVE  Goal
    BY <2>1, <2>4 DEF FirstWaits, Unopened
  <2>5. ASSUME UNCHANGED <<tc, page, redirect, requests, dialogs>> PROVE Goal
    BY <2>5 DEF FirstWaits, Unopened
  <2>6. ASSUME NEW target, NEW force, requests = <<>>, Enqueue("monitor", target, force),
               tc'.current = NoUnit, redirect' = NoUnit, dialogs' = dialogs
        PROVE  Goal
    <3> DEFINE r == [by |-> "monitor", target |-> target, force |-> force]
    <3>1. r.by = "monitor" /\ requests' = <<r>>
      BY <2>6 DEF Enqueue
    <3> HIDE DEF r
    <3>2. Len(requests') = 1 /\ requests'[1].by = "monitor"
      BY <3>1
    <3> QED
      BY <2>1, <2>6, <3>2 DEF FirstWaits, Unopened
  <2>7. Commanded => requests = <<>> /\ Quiet
    <3>1. requests # <<>> => 1 \in 1..Len(requests)
      BY <1>1
    <3> QED
      BY <2>1, <3>1 DEF Commanded, Waiting
  <2>8. CASE FollowRedirect
    BY <2>1, <2>2, <2>3, <2>8, GoUnasked DEF FollowRedirect
  <2>9. CASE \/ (\E u \in Unit : SelectUnit(u)) \/ SubmitCode \/ ErrorOut
             \/ (\E target \in RelativeTarget : RequestNavigation(target))
             \/ (\E done \in BOOLEAN : ReportProgress(done))
             \/ (\E shown \in SUBSET Conditional : EvaluateConditions(shown))
             \/ Tick \/ TimerEnded
    BY <2>1, <2>9 DEF SelectUnit, SubmitCode, ErrorOut, RequestNavigation, Active, ReportProgress,
       EvaluateConditions, Tick, TimerEnded
  <2>10. ASSUME NEW open, ConfirmEnd(tc, open) \/ (BeginEnding(tc) /\ dialogs' = open),
                \A d \in open : d.asks = "end", requests' = requests,
                page # "loading" \/ ~ConfirmEnd(tc, open)
         PROVE  Goal
    <3>1. /\ \A d \in dialogs' : d.asks = "end"
          /\ redirect' = NoUnit
          /\ tc' = tc \/ tc' = Terminate(tc)
          /\ page' = page \/ page # "loading"
      BY <2>10 DEF ConfirmEnd, BeginEnding, Stay
    <3>2. tc'.current = NoUnit
      BY <1>1, <1>4, <3>1, TerminateFacts
    <3> QED
      BY <2>4, <2>10, <3>1, <3>2
  <2>11. CASE RequestTestEnd
    <3>1. ConfirmEnd(tc, {}) /\ requests' = requests /\ page \in {"unit", "status"}
      BY <2>1, <2>11 DEF RequestTestEnd, Checked
    <3> QED
      BY <2>10, <3>1
  <2>12. ASSUME NEW d \in dialogs, AnswerStay(d) \/ AnswerLeave(d) PROVE Goal
    <3>1. d.asks = "end" /\ d.endsTest /\ \A e \in dialogs \ {d} : e.asks = "end"
      BY <1>1, <2>1 DEF Wellformed
    <3>2. CASE AnswerStay(d)
      BY <1>4, <2>1, <3>1, <3>2 DEF AnswerStay, FirstWaits, Unopened
    <3>3. CASE AnswerLeave(d)
      <4>1. OnConfirmed(d) = tc
        BY <3>1 DEF OnConfirmed
      <4>2. \/ BeginEnding(tc) /\ dialogs' = dialogs \ {d}
            \/ ~d.exit /\ d.live
        BY <3>1, <3>3, <4>1 DEF AnswerLeave
      <4>3. d.exit
        BY <1>1, <3>1 DEF Wellformed
      <4>4. page' = page /\ redirect' = NoUnit /\ tc' = Terminate(tc) /\ requests' = requests
            /\ dialogs' = dialogs \ {d}
        BY <3>3, <4>2, <4>3 DEF BeginEnding, Stay, AnswerLeave
      <4>5. tc'.current = NoUnit
        BY <1>1, <1>4, <4>4, TerminateFacts
      <4> QED
        BY <2>4, <3>1, <4>4, <4>5
    <3> QED
      BY <2>12, <3>2, <3>3
  <2>13. CASE ProcessRequest
    <3>1. requests' = <<>>
      BY <1>1, <2>1, <2>13 DEF ProcessRequest, CarryOut
    <3>2. dialogs' = Superseded
      BY <2>1, <2>13, GoUnasked DEF ProcessRequest, CarryOut
    <3> QED
      BY <2>2, <2>3, <3>1, <3>2
  <2>14. CASE Pause
    <3>1. InterruptTimer(tc) \in ServiceState /\ InterruptTimer(tc).current = tc.current
      BY <1>1, InterruptTimerStep, InterruptTimerFacts DEF Step, SameUnit
    <3>2. tc'.current = NoUnit
      BY <1>4, <2>14, <3>1, SetStateFacts DEF Pause, State
    <3>3. redirect' = NoUnit /\ requests = <<>>
      BY <2>7, <2>14 DEF Pause, Quiet
    <3> QED
      BY <2>6, <2>14, <3>2, <3>3 DEF Pause
  <2>15. CASE Resume
    <3>1. tc'.current = NoUnit /\ Enqueue("monitor", "FIRST", TRUE) /\ dialogs' = dialogs
          /\ redirect' = redirect
      BY <1>1, <1>4, <2>15, SetStateFacts DEF Resume, State
    <3>2. redirect' = NoUnit /\ requests = <<>>
      BY <2>7, <2>15, <3>1 DEF Resume, Quiet
    <3> QED
      BY <2>6, <3>1, <3>2
  <2>16. ASSUME NEW lock \in BOOLEAN, TerminateCommand(lock) PROVE Goal
    <3>1. /\ tc'.current = NoUnit /\ UNCHANGED <<page, redirect, requests, dialogs>>
          /\ redirect = NoUnit
      BY <1>1, <1>4, <2>7, <2>16, TerminateFacts DEF TerminateCommand, Quiet
    <3> QED
      BY <2>1, <2>4, <3>1
  <2>17. ASSUME NEW u \in Unit, NEW given \in GivenTime \cup {NotANumber}, Goto(u, given)
         PROVE  Goal
    <3>1. requests' = <<>>
      BY <2>7, <2>17 DEF Goto
    <3>2. dialogs' = Superseded
      BY <2>1, <2>17, GoUnasked DEF Goto, GoToUnit
    <3> QED
      BY <2>2, <2>3, <3>1, <3>2
  <2>18. CASE FinishEnding
    BY <2>3, <2>18 DEF FinishEnding, LeaveEnded
  <2>19. CASE SaveBuffers \/ UNCHANGED vars
    BY <2>5, <2>19 DEF SaveBuffers, vars
  <2> HIDE DEF Goal
  <2> QED
    BY <1>4, <2>8, <2>9, <2>11, <2>12, <2>13, <2>14, <2>15, <2>16, <2>17, <2>18, <2>19
       DEF Next, Answer
<1> QED
  BY <1>2, <1>3, <1>4

LEMMA InitPending == Init => Pending /\ Steady
  BY DEF Init, Pending, PauseWaits, FirstWaits, Unopened, Steady, Foresees, Onward, Idles

LEMMA NextPending ==
  ASSUME Inv, RequestsOK, Timely, Orderly, Pending, [Next]_vars
  PROVE  Pending'
<1>1. PauseWaits'
  BY NextPauseWaits DEF Pending
<1>2. FirstWaits' /\ Unopened'
  BY NextUnopened DEF Pending
<1> QED
  BY <1>1, <1>2 DEF Pending

LEMMA SteadyHolds == SteadyTimedBlocks => (Spec => [](Pending /\ Steady))
<1> SUFFICES ASSUME SteadyTimedBlocks PROVE Spec => [](Pending /\ Steady)
  OBVIOUS
<1>1. PlainTimedBlocks
  BY DEF SteadyTimedBlocks
<1>2. Spec => []Timely
  BY <1>1, TimelyHolds
<1>3. Inv /\ RequestsOK /\ Timely /\ Orderly /\ Pending /\ Steady /\ [Next]_vars => (Pending /\ Steady)'
  <2> SUFFICES ASSUME Inv, RequestsOK, Timely, Orderly, Pending, Steady, [Next]_vars
               PROVE  Pending' /\ Steady'
    OBVIOUS
  <2> QED
    BY NextPending, NextSteady DEF Pending
<1> QED
  BY <1>2, <1>3, InitPending, InvHolds, RequestsHold, OrderHolds, PTL DEF Spec

\* In booklets of steady timed blocks the timer follows the testee: whoever works on a unit of
\* a timed block, while anything follows it, spends the time of this block and of no other,
\* after whatever pauses, gotos, codes, dialogs, redirects and reloads; and the time of a
\* paused test stands still.
THEOREM TimerFollowsCorrect ==
  ASSUME SteadyTimedBlocks
  PROVE  Spec => []TimerFollowsUnit
<1>1. PlainTimedBlocks
  BY DEF SteadyTimedBlocks
<1>2. Spec => []Timely
  BY <1>1, TimelyHolds
<1>3. Inv /\ Timely /\ Steady => TimedUnitRunsTimer
  <2> SUFFICES ASSUME Inv, Timely, Steady, ForceTimeRestrictions, Settled, page = "unit",
                      tc.state = "RUNNING", tc.navigation.next # NoUnit,
                      TimerOfUnit(tc.current) # NoTimer, ~Locked(tc, tc.current)
               PROVE  tc.timerId = TimerOfUnit(tc.current)
    BY DEF TimedUnitRunsTimer
  <2>1. tc.timerId # NoTimer
    BY DEF Steady, Onward, Idles, LastOpen, Settled
  <2> QED
    BY <2>1, TimelyFacts DEF OnTime
<1>4. Timely => RunningTimerIsOfCurrentBlock /\ PausedHasNoTimer
  BY DEF Timely, OnTime, RunningTimerIsOfCurrentBlock, PausedHasNoTimer
<1>5. TypeOK /\ Inv /\ Timely /\ Steady => TimerFollowsUnit
  BY <1>3, <1>4 DEF TimerFollowsUnit
<1> QED
  BY <1>2, <1>5, InvHolds, TypeCorrect, SteadyHolds, PTL
=============================================================================
