-------------------------- MODULE GroupMonitorProofs --------------------------
(* What is checked is what is shown, commands name units of the booklets   *)
(* they are sent to, and finishing locks everything: for any number of     *)
(* sessions, booklets and filters.                                         *)
EXTENDS GroupMonitor, TLAPS, FiniteSetTheorems

USE BookletAssumption, BoundsAssumption

------------------------------------------------------------------------------
(* The inductive invariant *)

List(l) == DOMAIN l \subseteq Session /\ \A s \in DOMAIN l : l[s] \in Snapshot

(* Of the list d and the filters f the page knows how many are checked (n) *)
(* only after a list has come; what is checked (c) may stem from an older  *)
(* page until then.                                                        *)
Matching(d, f, c, n) ==
  IF DOMAIN d = {} THEN n = 0
  ELSE /\ n = Cardinality(DOMAIN c)
       /\ \A s \in DOMAIN c : s \in DOMAIN ShownOf(d, f) /\ c[s] = ShownOf(d, f)[s]
Uniform(d, f, c, a) ==
  a /\ DOMAIN d # {} => DOMAIN c = DOMAIN ShownOf(d, f) /\ Cardinality(SpeciesOf(DOMAIN ShownOf(d, f))) <= 1
InOrder(d, f, c, n, a) == Matching(d, f, c, n) /\ Uniform(d, f, c, a)

SelectedInBooklet == selected.block # 0 => selected.origin \in Session

Inv == TypeOK /\ (link # "off" => InOrder(data, filters, checked, count, auto)) /\ SelectedInBooklet

TestRow == [exists : BOOLEAN, running : BOOLEAN, locked : BOOLEAN, controller : Controllers, over : SUBSET Timed]

BackendType ==
  /\ tests \in [Session -> TestRow]
  /\ List(cache)
  /\ inbox \in [Session -> SUBSET Commands]
  /\ changes \in 0 .. MaxChanges /\ sent \in 0 .. MaxCommands
CheckingType ==
  /\ List(checked)
  /\ count \in 0 .. Cardinality(Session)
  /\ {auto, enableAuto, manual} \subseteq BOOLEAN
SelectionType == selected \in [block : {0} \cup Block, origin : Session \cup {Nobody},
                               clicks : {"none", "first", "second", "third"}]
PageType ==
  /\ CheckingType
  /\ SelectionType
  /\ filters \subseteq Filter /\ dialog \in BOOLEAN /\ finish \in {"no", "locked", "told"}

LEMMA TypeParts ==
  /\ TypeOK <=> BackendType /\ link \in {"off", "polling", "ws"} /\ List(data) /\ PageType
  /\ TypeOK' <=> BackendType' /\ link' \in {"off", "polling", "ws"} /\ List(data') /\ PageType'
BY DEF TypeOK, TestRow, BackendType, PageType, CheckingType, SelectionType, List

------------------------------------------------------------------------------
(* Lists *)

LEMMA UpdatedList ==
  ASSUME NEW l, NEW e, List(l), List(e)
  PROVE  List(Updated(l, e))
BY DEF List, Updated

LEMMA OneList ==
  ASSUME NEW s \in Session, NEW snap \in Snapshot
  PROVE  List(One(s, snap))
BY DEF List, One

LEMMA NoListIsList == List(NoList) /\ DOMAIN NoList = {}
BY DEF List, NoList

LEMMA FullStateType ==
  ASSUME BackendType, NEW s \in Session
  PROVE  FullState(tests[s]) \in Snapshot
BY DEF BackendType, TestRow, FullState, Snapshot

LEMMA ShownIsPart ==
  ASSUME NEW l, List(l), NEW f
  PROVE  /\ List(ShownOf(l, f))
         /\ DOMAIN ShownOf(l, f) \subseteq DOMAIN l
         /\ \A s \in DOMAIN ShownOf(l, f) : ShownOf(l, f)[s] = l[s]
BY DEF List, ShownOf

LEMMA Counted ==
  ASSUME NEW S, S \subseteq Session
  PROVE  Cardinality(S) \in 0 .. Cardinality(Session) /\ IsFiniteSet(S)
BY FS_Subset, FS_CardinalityType

LEMMA SpeciesCounted ==
  ASSUME NEW S, S \subseteq Session
  PROVE  Cardinality(SpeciesOf(S)) \in Nat
<1>1. IsFiniteSet(S)
  BY Counted
<1> DEFINE f == [s \in S |-> Species(s)]
<1>2. f \in Surjection(S, SpeciesOf(S))
  BY DEF Surjection, SpeciesOf
<1>3. IsFiniteSet(SpeciesOf(S))
  BY <1>1, <1>2, FS_Surjection
<1> QED
  BY <1>3, FS_CardinalityType

LEMMA NothingCounted == Cardinality(DOMAIN NoList) = 0
BY NoListIsList, FS_EmptySet

LEMMA NoSelectionType ==
  /\ NoSelection \in [block : {0} \cup Block, origin : Session \cup {Nobody},
                      clicks : {"none", "first", "second", "third"}]
  /\ NoSelection.block = 0
BY DEF NoSelection

------------------------------------------------------------------------------
(* Checking *)

(* A set of checked sessions taken from the list is counted and matches it. *)
LEMMA SetCheckedInOrder ==
  ASSUME NEW d, NEW f, NEW new, List(d), SetChecked(new), DOMAIN d # {},
         DOMAIN new \subseteq DOMAIN ShownOf(d, f),
         \A s \in DOMAIN new : new[s] = ShownOf(d, f)[s]
  PROVE  List(checked') /\ count' \in 0 .. Cardinality(Session) /\ Matching(d, f, checked', count')
<1>1. List(new)
  BY ShownIsPart DEF List
<1>2. Cardinality(DOMAIN new) \in 0 .. Cardinality(Session)
  BY <1>1, Counted DEF List
<1> QED
  BY <1>1, <1>2 DEF SetChecked, Matching

LEMMA SynchronizeInOrder ==
  ASSUME TypeOK, SelectedInBooklet, NEW d, List(d), NEW f, Synchronize(d, f), DOMAIN d # {}
  PROVE  CheckingType' /\ SelectionType' /\ SelectedInBooklet' /\ InOrder(d, f, checked', count', auto')
<1> DEFINE shown == ShownOf(d, f)
           uniform == Cardinality(SpeciesOf(DOMAIN shown)) < 2
           new == [s \in {x \in DOMAIN shown : (auto /\ uniform) \/ x \in DOMAIN checked} |-> shown[s]]
<1>1. /\ enableAuto' = uniform /\ auto' = (auto /\ uniform) /\ manual' = (manual \/ ~uniform)
      /\ SetChecked(new) /\ selected' = Kept(new, selected)
  BY DEF Synchronize
<1>2. List(checked') /\ count' \in 0 .. Cardinality(Session) /\ Matching(d, f, checked', count')
  BY <1>1, SetCheckedInOrder
<1>3. CheckingType'
  BY <1>1, <1>2 DEF CheckingType, TypeOK
<1>4. SelectionType' /\ SelectedInBooklet'
  BY <1>1, NoSelectionType DEF Kept, SelectionType, SelectedInBooklet, TypeOK
<1>5. Cardinality(SpeciesOf(DOMAIN shown)) \in Nat
  BY ShownIsPart, SpeciesCounted DEF List
<1>6. Uniform(d, f, checked', auto')
  <2> SUFFICES ASSUME auto' PROVE DOMAIN checked' = DOMAIN shown /\ Cardinality(SpeciesOf(DOMAIN shown)) <= 1
    BY DEF Uniform
  <2>1. checked' = new /\ auto /\ uniform
    BY <1>1, TypeParts DEF SetChecked, PageType, CheckingType
  <2>2. DOMAIN checked' = DOMAIN shown
    BY <2>1
  <2>3. Cardinality(SpeciesOf(DOMAIN shown)) < 2
    BY <2>1
  <2> QED
    BY <2>2, <2>3, <1>5
<1> QED
  BY <1>2, <1>3, <1>4, <1>6 DEF InOrder

------------------------------------------------------------------------------
(* Testees and commands leave the page alone. *)

LEMMA BackendKeepsInv ==
  ASSUME Inv, BackendType', UNCHANGED <<link, data, page>>
  PROVE  Inv'
BY TypeParts DEF Inv, page, checking, PageType, CheckingType, SelectionType, InOrder, Matching, Uniform,
                 SelectedInBooklet, List, TypeOK

LEMMA BroadcastType ==
  ASSUME BackendType, NEW s \in Session, NEW changed, Broadcast(s, changed),
         s \in DOMAIN cache => changed \in Snapshot
  PROVE  List(cache')
BY UpdatedList, OneList DEF Broadcast, BackendType

LEMMA CreateTestType ==
  ASSUME BackendType, NEW s \in Session, CreateTest(s)
  PROVE  tests' \in [Session -> TestRow] /\ List(cache') /\ UNCHANGED inbox
BY DEF CreateTest, BackendType, TestRow, List

LEMMA StartTestType ==
  ASSUME BackendType, NEW s \in Session, StartTest(s)
  PROVE  tests' \in [Session -> TestRow] /\ List(cache') /\ UNCHANGED inbox
<1> DEFINE started == [tests[s] EXCEPT !.exists = TRUE, !.running = TRUE, !.controller = "RUNNING"]
           known == IF s \in DOMAIN cache THEN cache[s] ELSE FullState(started)
           entry == [known EXCEPT !.controller = "RUNNING", !.status = IF tests[s].running THEN @ ELSE "running"]
<1>1. started \in TestRow
  <2>1. tests[s] \in TestRow
    BY DEF BackendType
  <2>2. "RUNNING" \in Controllers
    BY DEF Controllers
  <2> QED
    BY <2>1, <2>2 DEF TestRow
<1>2. known \in Snapshot
  BY <1>1 DEF FullState, TestRow, Snapshot, BackendType, List
<1>3. entry \in Snapshot
  BY <1>2 DEF Snapshot, Controllers
<1>4. List(cache')
  BY <1>3, UpdatedList, OneList DEF StartTest, BackendType
<1> QED
  BY <1>1, <1>4 DEF StartTest, BackendType

LEMMA PatchStateType ==
  ASSUME BackendType, NEW s \in Session,
         NEW t \in TestRow,
         PatchState(s, t)
  PROVE  tests' \in [Session -> TestRow] /\ List(cache')
<1>1. s \in DOMAIN cache => [cache[s] EXCEPT !.controller = t.controller, !.over = t.over] \in Snapshot
  BY DEF BackendType, TestRow, List, Snapshot
<1>2. List(cache')
  BY <1>1, BroadcastType DEF PatchState
<1> QED
  BY <1>2 DEF PatchState, BackendType

LEMMA EndTestType ==
  ASSUME BackendType, NEW s \in Session, EndTest(s)
  PROVE  tests' \in [Session -> TestRow] /\ List(cache') /\ UNCHANGED inbox
<1> PICK lock \in BOOLEAN :
      /\ tests' = [tests EXCEPT ![s].controller = "TERMINATED", ![s].locked = @ \/ lock]
      /\ Broadcast(s, [cache[s] EXCEPT !.controller = "TERMINATED", !.status = IF lock THEN "locked" ELSE @])
  BY DEF EndTest
<1>1. s \in DOMAIN cache =>
        [cache[s] EXCEPT !.controller = "TERMINATED", !.status = IF lock THEN "locked" ELSE @] \in Snapshot
  BY DEF BackendType, List, Snapshot, Controllers
<1>2. List(cache')
  BY <1>1, BroadcastType
<1> DEFINE ended == [tests[s] EXCEPT !.controller = "TERMINATED", !.locked = @ \/ lock]
<1>3. ended \in TestRow
  <2>1. tests[s] \in TestRow
    BY DEF BackendType
  <2>2. CASE lock
    <3>1. ended = [tests[s] EXCEPT !.controller = "TERMINATED", !.locked = TRUE]
      BY <2>2
    <3> QED
      BY <2>1, <3>1 DEF TestRow, Controllers
  <2>3. CASE ~lock
    <3>1. ended = [tests[s] EXCEPT !.controller = "TERMINATED"]
      BY <2>1, <2>3 DEF TestRow
    <3> QED
      BY <2>1, <3>1 DEF TestRow, Controllers
  <2> QED
    BY <2>2, <2>3
<1>4. tests' = [tests EXCEPT ![s] = ended]
  BY DEF BackendType, TestRow
<1>5. tests' \in [Session -> TestRow]
  BY <1>3, <1>4 DEF BackendType
<1> QED
  BY <1>2, <1>5 DEF EndTest

LEMMA TesteeStepKeepsInv ==
  ASSUME Inv, TesteeStep
  PROVE  Inv'
<1>0. BackendType
  BY TypeParts DEF Inv
<1> PICK s \in Session : \/ CreateTest(s) \/ StartTest(s) \/ EndTest(s)
                         \/ \E b \in Blocks(s) \cap Timed : TimeOver(s, b)
  BY DEF TesteeStep
<1>1. tests' \in [Session -> TestRow] /\ List(cache') /\ UNCHANGED inbox
  <2>1. CASE CreateTest(s)
    BY <1>0, <2>1, CreateTestType
  <2>2. CASE StartTest(s)
    BY <1>0, <2>2, StartTestType
  <2>3. CASE EndTest(s)
    BY <1>0, <2>3, EndTestType
  <2>4. ASSUME NEW b \in Blocks(s) \cap Timed, TimeOver(s, b)
        PROVE  tests' \in [Session -> TestRow] /\ List(cache') /\ UNCHANGED inbox
    <3>1. [tests[s] EXCEPT !.over = @ \cup {b}] \in TestRow
      BY <1>0 DEF BackendType, TestRow
    <3> QED
      BY <1>0, <2>4, <3>1, PatchStateType DEF TimeOver
  <2> QED
    BY <2>1, <2>2, <2>3, <2>4
<1>2. BackendType'
  BY <1>0, <1>1 DEF TesteeStep, BackendType
<1> QED
  BY <1>2, BackendKeepsInv DEF TesteeStep

LEMMA ExecuteKeepsType ==
  ASSUME BackendType, NEW s \in Session, NEW c \in inbox[s], Execute(s, c)
  PROVE  tests' \in [Session -> TestRow] /\ List(cache') /\ inbox' = [inbox EXCEPT ![s] = @ \ {c}]
<1>1. CASE c.keyword = "pause" /\ PatchState(s, [tests[s] EXCEPT !.controller = "PAUSED"])
  <2>1. [tests[s] EXCEPT !.controller = "PAUSED"] \in TestRow
    BY DEF BackendType, TestRow, Controllers
  <2> QED
    BY <1>1, <2>1, PatchStateType DEF Execute
<1>2. CASE c.keyword = "resume" /\ PatchState(s, [tests[s] EXCEPT !.controller = "RUNNING"])
  <2>1. [tests[s] EXCEPT !.controller = "RUNNING"] \in TestRow
    BY DEF BackendType, TestRow, Controllers
  <2> QED
    BY <1>2, <2>1, PatchStateType DEF Execute
<1>3. CASE c.keyword = "goto" /\ PatchState(s, [tests[s] EXCEPT !.controller = "RUNNING", !.over = @ \ {c.block}])
  <2>0. tests[s] \in TestRow /\ tests[s].over \ {c.block} \in SUBSET Timed
    BY DEF BackendType, TestRow
  <2>1. [tests[s] EXCEPT !.controller = "RUNNING", !.over = @ \ {c.block}] \in TestRow
    BY <2>0 DEF TestRow, Controllers
  <2> QED
    BY <1>3, <2>1, PatchStateType DEF Execute
<1>4. CASE /\ c.keyword = "terminate"
           /\ tests' = [tests EXCEPT ![s].controller = "TERMINATED", ![s].locked = TRUE]
           /\ Broadcast(s, [cache[s] EXCEPT !.controller = "TERMINATED", !.status = "locked"])
  <2>1. s \in DOMAIN cache => [cache[s] EXCEPT !.controller = "TERMINATED", !.status = "locked"] \in Snapshot
    BY DEF BackendType, List, Snapshot, Controllers
  <2>2. List(cache')
    BY <1>4, <2>1, BroadcastType
  <2> DEFINE ended == [tests[s] EXCEPT !.controller = "TERMINATED", !.locked = TRUE]
  <2>3. ended \in TestRow
    <3>1. tests[s] \in TestRow
      BY DEF BackendType
    <3>2. "TERMINATED" \in Controllers
      BY DEF Controllers
    <3> QED
      BY <3>1, <3>2 DEF TestRow
  <2>4. tests' = [tests EXCEPT ![s] = ended]
    BY <1>4 DEF BackendType, TestRow
  <2>5. tests' \in [Session -> TestRow]
    BY <2>3, <2>4 DEF BackendType
  <2> QED
    BY <2>2, <2>5 DEF Execute
<1> QED
  BY <1>1, <1>2, <1>3, <1>4 DEF Execute

LEMMA CommandStepKeepsInv ==
  ASSUME Inv, CommandStep
  PROVE  Inv'
<1>0. BackendType
  BY TypeParts DEF Inv
<1> PICK s \in Session : \E c \in inbox[s] : Execute(s, c)
  BY DEF CommandStep
<1> PICK c \in inbox[s] : Execute(s, c)
  OBVIOUS
<1>1. tests' \in [Session -> TestRow] /\ List(cache') /\ inbox' = [inbox EXCEPT ![s] = @ \ {c}]
  BY <1>0, ExecuteKeepsType
<1>2. inbox' \in [Session -> SUBSET Commands]
  BY <1>0, <1>1 DEF BackendType
<1>3. BackendType'
  BY <1>0, <1>1, <1>2 DEF CommandStep, BackendType
<1> QED
  BY <1>3, BackendKeepsInv DEF CommandStep

------------------------------------------------------------------------------
(* The list *)

LEMMA ReceiveKeeps ==
  ASSUME Inv, NEW d, List(d), Receive(d), link # "off"
  PROVE  List(data') /\ PageType' /\ SelectedInBooklet' /\ InOrder(data, filters, checked, count, auto)'
<1>1. CASE DOMAIN d = {}
  <2>1. UNCHANGED <<data, page>>
    BY <1>1 DEF Receive, Synchronize, page, checking
  <2> QED
    BY <2>1, TypeParts DEF Inv, page, checking, PageType, CheckingType, SelectionType, SelectedInBooklet,
                           InOrder, Matching, Uniform, List
<1>2. CASE DOMAIN d # {}
  <2>1. CheckingType' /\ SelectionType' /\ SelectedInBooklet' /\ InOrder(d, filters, checked', count', auto')
    BY <1>2, SynchronizeInOrder DEF Receive, Inv
  <2>2. data' = d /\ UNCHANGED <<filters, dialog, finish>>
    BY <1>2 DEF Receive
  <2> QED
    BY <2>1, <2>2, TypeParts DEF Inv, PageType
<1> QED
  BY <1>1, <1>2

LEMMA FetchKeepsInv ==
  ASSUME Inv, Fetch
  PROVE  Inv'
<1>0. BackendType /\ List(StoredSessions)
  BY TypeParts, FullStateType DEF Inv, StoredSessions, List, Existing
<1>1. List(cache')
  BY <1>0, UpdatedList DEF Fetch, BackendType
<1>2. BackendType'
  BY <1>0, <1>1 DEF Fetch, BackendType
<1>3. List(data') /\ PageType' /\ SelectedInBooklet' /\ InOrder(data, filters, checked, count, auto)'
  BY <1>0, ReceiveKeeps DEF Fetch
<1>4. link' \in {"off", "polling", "ws"}
  BY DEF Fetch
<1> QED
  BY <1>2, <1>3, <1>4, TypeParts DEF Inv

LEMMA PushKeepsInv ==
  ASSUME Inv, Push
  PROVE  Inv'
<1>1. BackendType /\ BackendType'
  BY TypeParts DEF Inv, Push, backend, BackendType, List
<1>2. List(data') /\ PageType' /\ SelectedInBooklet' /\ InOrder(data, filters, checked, count, auto)'
  BY <1>1, ReceiveKeeps DEF Push, BackendType
<1>3. link' \in {"off", "polling", "ws"}
  BY DEF Push
<1> QED
  BY <1>1, <1>2, <1>3, TypeParts DEF Inv

LEMMA LoseConnectionKeepsInv ==
  ASSUME Inv, LoseConnection
  PROVE  Inv'
<1>1. BackendType'
  BY TypeParts, NoListIsList DEF Inv, LoseConnection, BackendType
<1> QED
  BY <1>1, TypeParts DEF Inv, LoseConnection, page, checking, PageType, CheckingType, SelectionType, InOrder,
                         Matching, Uniform, SelectedInBooklet, List

LEMMA RenewedKeepsInv ==
  ASSUME Inv, NEW l \in {"off", "polling"}, NEW check \in BOOLEAN, Renewed(l, check)
  PROVE  Inv'
<1>1. BackendType' /\ List(data')
  BY TypeParts, NoListIsList DEF Inv, Renewed, BackendType
<1>0. 0 \in 0 .. Cardinality(Session)
  BY FS_CardinalityType
<1>2. PageType' /\ SelectedInBooklet'
  BY <1>0, TypeParts, NoSelectionType
  DEF Inv, Renewed, PageType, CheckingType, SelectionType, SelectedInBooklet, List
<1>3. InOrder(data, filters, checked, count, auto)'
  BY NoListIsList DEF Renewed, InOrder, Matching, Uniform
<1> QED
  BY <1>1, <1>2, <1>3, TypeParts DEF Inv, Renewed

------------------------------------------------------------------------------
(* Filters, selection and checks *)

LEMMA SwitchFilterKeepsInv ==
  ASSUME Inv, NEW f \in Filter, SwitchFilter(f)
  PROVE  Inv'
<1>1. BackendType' /\ List(data) /\ List(data') /\ link' \in {"off", "polling", "ws"}
  BY TypeParts DEF Inv, SwitchFilter, UserKeeps, backend, BackendType, List
<1>2. filters' \subseteq Filter /\ dialog' \in BOOLEAN /\ finish' \in {"no", "locked", "told"}
  BY TypeParts DEF Inv, SwitchFilter, UserKeeps, PageType
<1>3. CASE DOMAIN data = {}
  <2>1. UNCHANGED <<checking, selected, data>>
    BY <1>3 DEF SwitchFilter, Synchronize, UserKeeps
  <2>2. CheckingType' /\ SelectionType' /\ SelectedInBooklet'
    BY <2>1, TypeParts DEF Inv, checking, PageType, CheckingType, SelectionType, SelectedInBooklet, List
  <2>3. InOrder(data, filters, checked, count, auto)'
    BY <1>3, <2>1 DEF Inv, SwitchFilter, Usable, checking, InOrder, Matching, Uniform
  <2> QED
    BY <1>1, <1>2, <2>2, <2>3, TypeParts DEF Inv, PageType
<1>4. CASE DOMAIN data # {}
  <2>1. CheckingType' /\ SelectionType' /\ SelectedInBooklet' /\ InOrder(data, filters', checked', count', auto')
    BY <1>1, <1>4, SynchronizeInOrder DEF SwitchFilter, Inv
  <2>2. data' = data
    BY DEF SwitchFilter, UserKeeps
  <2> QED
    BY <1>1, <1>2, <2>1, <2>2, TypeParts DEF Inv, PageType
<1> QED
  BY <1>3, <1>4

(* Other checks of sessions that are shown, while not all are steered at once. *)
LEMMA CheckKeepsInv ==
  ASSUME Inv, link # "off", UserKeeps, UNCHANGED filters,
         NEW new, SetChecked(new),
         DOMAIN new \subseteq DOMAIN Shown, \A s \in DOMAIN new : new[s] = Shown[s],
         auto' = FALSE, {enableAuto, manual}' \subseteq BOOLEAN,
         SelectionType', SelectedInBooklet'
  PROVE  Inv'
<1>1. BackendType' /\ List(data) /\ List(data') /\ link' \in {"off", "polling", "ws"}
  BY TypeParts DEF Inv, UserKeeps, backend, BackendType, List
<1>2. List(new)
  BY <1>1, ShownIsPart DEF Shown, List
<1>3. Cardinality(DOMAIN new) \in 0 .. Cardinality(Session)
  BY <1>2, Counted DEF List
<1>4. Matching(data, filters, new, Cardinality(DOMAIN new))
  <2>1. CASE DOMAIN data = {}
    <3>1. DOMAIN new = {}
      BY <1>1, <2>1, ShownIsPart DEF Shown
    <3> QED
      BY <2>1, <3>1, FS_EmptySet DEF Matching
  <2>2. CASE DOMAIN data # {}
    BY <2>2 DEF Matching, Shown
  <2> QED
    BY <2>1, <2>2
<1>5. CheckingType' /\ PageType'
  BY <1>2, <1>3, TypeParts DEF Inv, SetChecked, CheckingType, PageType, UserKeeps
<1>6. InOrder(data, filters, checked, count, auto)'
  BY <1>4 DEF SetChecked, InOrder, Uniform, UserKeeps
<1> QED
  BY <1>1, <1>5, <1>6, TypeParts DEF Inv

LEMMA KeptType ==
  ASSUME SelectionType, SelectedInBooklet, NEW new, selected' = Kept(new, selected)
  PROVE  SelectionType' /\ SelectedInBooklet'
BY NoSelectionType DEF Kept, SelectionType, SelectedInBooklet

(* What was checked on this page is shown, once something is shown. *)
LEMMA CheckedIsShown ==
  ASSUME Inv, link # "off", NEW s \in DOMAIN Shown
  PROVE  \A x \in DOMAIN checked : x \in DOMAIN Shown /\ checked[x] = Shown[x]
<1>1. DOMAIN data # {}
  BY TypeParts, ShownIsPart DEF Inv, Shown
<1> QED
  BY <1>1 DEF Inv, InOrder, Matching, Shown

LEMMA SelectElementKeepsInv ==
  ASSUME Inv, NEW s \in Session, NEW b \in {0} \cup Blocks(s), NEW inversion \in BOOLEAN,
         SelectElement(s, b, inversion)
  PROVE  Inv'
<1> DEFINE clicks == Clicks(s, b)
<1>1. link # "off" /\ s \in DOMAIN Shown
  BY DEF SelectElement, Usable
<1>2. clicks \in {"none", "first", "second", "third"}
  BY DEF Clicks
<1>3. SelectionType' /\ SelectedInBooklet'
  BY <1>2 DEF SelectElement, SelectionType, SelectedInBooklet, Block
<1>4. UserKeeps /\ UNCHANGED <<auto, enableAuto, manual, filters>>
  BY DEF SelectElement
<1>5. CASE auto
  <2>1. UNCHANGED <<checking, backend, link, data, filters, dialog, finish>>
    BY <1>4, <1>5 DEF SelectElement, UserKeeps, checking
  <2> QED
    BY <1>3, <2>1, TypeParts DEF Inv, checking, backend, BackendType, PageType, CheckingType, InOrder, Matching,
                                 Uniform, List
<1>6. CASE ~auto
  <2> DEFINE new == CheckedBySelection(s, b, clicks, inversion)
  <2>1. SetChecked(new)
    BY <1>6 DEF SelectElement
  <2>2. DOMAIN new \subseteq DOMAIN Shown /\ \A x \in DOMAIN new : new[x] = Shown[x]
    <3>1. CASE b = 0 \/ clicks = "third"
      BY <3>1, NoListIsList DEF CheckedBySelection
    <3>2. CASE b # 0 /\ clicks = "first"
      BY <1>1, <3>2, CheckedIsShown DEF CheckedBySelection, Updated, One
    <3>3. CASE b # 0 /\ clicks \notin {"first", "third"}
      BY <3>3 DEF CheckedBySelection
    <3> QED
      BY <3>1, <3>2, <3>3
  <2>3. auto' = FALSE /\ {enableAuto, manual}' \subseteq BOOLEAN
    BY <1>4, <1>6, TypeParts DEF Inv, PageType, CheckingType
  <2> QED
    BY <1>1, <1>3, <1>4, <2>1, <2>2, <2>3, CheckKeepsInv
<1> QED
  BY <1>5, <1>6

LEMMA ToggleCheckedKeepsInv ==
  ASSUME Inv, NEW s \in Session, ToggleChecked(s)
  PROVE  Inv'
<1> DEFINE new == IF s \in DOMAIN checked THEN [x \in DOMAIN checked \ {s} |-> checked[x]]
                                          ELSE Updated(checked, One(s, Shown[s]))
<1>1. link # "off" /\ s \in DOMAIN Shown /\ UserKeeps /\ SetChecked(new) /\ ~auto
      /\ UNCHANGED <<auto, enableAuto, manual, filters>>
  BY DEF ToggleChecked, Usable
<1>2. DOMAIN new \subseteq DOMAIN Shown /\ \A x \in DOMAIN new : new[x] = Shown[x]
  BY <1>1, CheckedIsShown DEF Updated, One
<1>3. SelectionType' /\ SelectedInBooklet'
  <2>1. SelectionType /\ SelectedInBooklet
    BY TypeParts DEF Inv, PageType
  <2>2. selected' = NoSelection \/ selected' = Kept(new, selected)
    BY DEF ToggleChecked
  <2> QED
    BY <2>1, <2>2, KeptType, NoSelectionType DEF SelectionType, SelectedInBooklet
<1>4. auto' = FALSE /\ {enableAuto, manual}' \subseteq BOOLEAN
  BY <1>1, TypeParts DEF Inv, PageType, CheckingType
<1> QED
  BY <1>1, <1>2, <1>3, <1>4, CheckKeepsInv

LEMMA CheckManyKeepsInv ==
  ASSUME Inv, CheckMany
  PROVE  Inv'
<1>1. link # "off" /\ UserKeeps /\ UNCHANGED <<auto, enableAuto, manual, filters>> /\ ~auto
  BY DEF CheckMany, Usable
<1>2. PICK S \in SUBSET DOMAIN Shown :
        /\ SetChecked([s \in S |-> Shown[s]])
        /\ \/ selected' = NoSelection
           \/ selected' = Kept([s \in S |-> Shown[s]], selected)
  <2> DEFINE all == {s \in DOMAIN Shown : Open(Shown[s])}
  <2>1. CASE SetChecked([s \in all |-> Shown[s]]) /\ selected' = Kept([s \in all |-> Shown[s]], selected)
    BY <2>1
  <2>2. CASE /\ SetChecked([s \in all \ DOMAIN checked |-> Shown[s]])
             /\ selected' = Kept([s \in all \ DOMAIN checked |-> Shown[s]], selected)
    BY <2>2
  <2>3. CASE SetChecked(NoList) /\ selected' = NoSelection
    <3>1. NoList = [s \in {} |-> Shown[s]]
      BY DEF NoList
    <3> QED
      BY <2>3, <3>1
  <2> QED
    BY <2>1, <2>2, <2>3 DEF CheckMany
<1>3. SelectionType' /\ SelectedInBooklet'
  <2>1. SelectionType /\ SelectedInBooklet
    BY TypeParts DEF Inv, PageType
  <2> QED
    BY <1>2, <2>1, KeptType, NoSelectionType DEF SelectionType, SelectedInBooklet
<1>4. auto' = FALSE /\ {enableAuto, manual}' \subseteq BOOLEAN
  BY <1>1, TypeParts DEF Inv, PageType, CheckingType
<1> DEFINE new == [s \in S |-> Shown[s]]
<1>5. SetChecked(new) /\ DOMAIN new \subseteq DOMAIN Shown /\ \A s \in DOMAIN new : new[s] = Shown[s]
  BY <1>2
<1> QED
  BY <1>1, <1>3, <1>4, <1>5, CheckKeepsInv

LEMMA StopAutoCheckKeepsInv ==
  ASSUME Inv, StopAutoCheck
  PROVE  Inv'
<1>1. link # "off" /\ UserKeeps /\ UNCHANGED filters /\ SetChecked(NoList)
  BY DEF StopAutoCheck, Usable
<1>2. SelectionType' /\ SelectedInBooklet' /\ auto' = FALSE /\ {enableAuto, manual}' \subseteq BOOLEAN
  BY NoSelectionType, TypeParts DEF StopAutoCheck, Inv, PageType, CheckingType, SelectionType, SelectedInBooklet
<1> QED
  BY <1>1, <1>2, NoListIsList, CheckKeepsInv

------------------------------------------------------------------------------
(* Commands *)

LEMMA StoreType ==
  ASSUME BackendType, NEW commands, Store(commands),
         \A s \in DOMAIN commands : s \in Session => commands[s] \in Commands
  PROVE  inbox' \in [Session -> SUBSET Commands]
BY DEF Store, BackendType

LEMMA SimpleType ==
  ASSUME NEW keyword \in {"pause", "resume", "terminate"}
  PROVE  Simple(keyword) \in Commands /\ Simple(keyword).keyword # "goto"
BY DEF Simple, Commands

(* A target has a first unit in the block selected. *)
LEMMA TargetUnit ==
  ASSUME TypeOK, NEW s \in GotoTargets
  PROVE  /\ s \in Session /\ selected.block \in Block
         /\ GotoUnit(s) \in Alias /\ GotoUnit(s) \in Range(FirstUnit[s])
<1>1. s \in Session /\ selected.block \in 1 .. Len(FirstUnit[s]) /\ FirstUnit[s][selected.block] # NoUnit
  BY DEF TypeOK, GotoTargets, Blocks
<1>2. FirstUnit[s] \in Seq(Alias \cup {NoUnit})
  BY <1>1
<1>3. FirstUnit[s][selected.block] \in Alias /\ selected.block \in DOMAIN FirstUnit[s]
  BY <1>1, <1>2
<1> QED
  BY <1>1, <1>3 DEF GotoUnit, Range, Block, Blocks

LEMMA SendGotoType ==
  ASSUME Inv, NEW asked \in BOOLEAN, SendGoto(asked)
  PROVE  inbox' \in [Session -> SUBSET Commands] /\ SelectionType' /\ SelectedInBooklet'
<1> DEFINE c(s) == [keyword |-> "goto", alias |-> GotoUnit(s), block |-> selected.block, asked |-> asked]
<1>1. \A s \in GotoTargets : c(s) \in Commands
  BY TargetUnit DEF Inv, Commands
<1>2. inbox' \in [Session -> SUBSET Commands]
  BY <1>1, StoreType, TypeParts DEF SendGoto, Inv
<1>3. SelectionType' /\ SelectedInBooklet'
  <2>1. CASE UNCHANGED selected
    BY <2>1, TypeParts DEF Inv, PageType, SelectionType, SelectedInBooklet
  <2>2. CASE selected' = NextBlock
    <3>1. selected.block # 0 => selected.origin \in Session
      BY DEF Inv, SelectedInBooklet
    <3> QED
      BY <2>2, <3>1, TypeParts DEF NextBlock, Inv, PageType, SelectionType, SelectedInBooklet, Block
  <2> QED
    BY <2>1, <2>2 DEF SendGoto
<1> QED
  BY <1>2, <1>3

LEMMA CommandKeepsInv ==
  ASSUME Inv, CommandKeeps, inbox' \in [Session -> SUBSET Commands], sent' \in 0 .. MaxCommands,
         SelectionType', SelectedInBooklet', dialog' \in BOOLEAN, finish' \in {"no", "locked", "told"}
  PROVE  Inv'
<1>1. BackendType' /\ List(data') /\ link' \in {"off", "polling", "ws"}
  BY TypeParts DEF Inv, CommandKeeps, BackendType, List
<1>2. PageType'
  BY TypeParts DEF Inv, CommandKeeps, checking, PageType, CheckingType, List
<1> QED
  BY <1>1, <1>2, TypeParts DEF Inv, CommandKeeps, checking, InOrder, Matching, Uniform

LEMMA SentType ==
  ASSUME TypeOK, Commanded \/ UNCHANGED sent
  PROVE  sent' \in 0 .. MaxCommands
BY DEF TypeOK, Commanded

LEMMA SelectionStays ==
  ASSUME Inv, UNCHANGED selected
  PROVE  SelectionType' /\ SelectedInBooklet'
BY TypeParts DEF Inv, PageType, SelectionType, SelectedInBooklet

LEMMA PauseKeepsInv ==
  ASSUME Inv, Pause
  PROVE  Inv'
<1>1. inbox' \in [Session -> SUBSET Commands]
  BY StoreType, SimpleType, TypeParts DEF Pause, Inv
<1>2. dialog' \in BOOLEAN /\ finish' \in {"no", "locked", "told"}
  BY TypeParts DEF Pause, Inv, PageType
<1> QED
  BY <1>1, <1>2, SentType, SelectionStays, CommandKeepsInv DEF Pause, Inv

LEMMA ResumeKeepsInv ==
  ASSUME Inv, Resume
  PROVE  Inv'
<1>1. inbox' \in [Session -> SUBSET Commands]
  BY StoreType, SimpleType, TypeParts DEF Resume, Inv
<1>2. dialog' \in BOOLEAN /\ finish' \in {"no", "locked", "told"}
  BY TypeParts DEF Resume, Inv, PageType
<1> QED
  BY <1>1, <1>2, SentType, SelectionStays, CommandKeepsInv DEF Resume, Inv

LEMMA TerminateAllKeepsInv ==
  ASSUME Inv, TerminateAll
  PROVE  Inv'
<1>1. inbox' \in [Session -> SUBSET Commands]
  BY StoreType, SimpleType, TypeParts DEF TerminateAll, Inv
<1>2. dialog' \in BOOLEAN /\ finish' \in {"no", "locked", "told"}
  BY TypeParts DEF TerminateAll, Inv, PageType
<1> QED
  BY <1>1, <1>2, SentType, SelectionStays, CommandKeepsInv DEF TerminateAll, Inv

LEMMA GotoKeepsInv ==
  ASSUME Inv, Goto
  PROVE  Inv'
<1> DEFINE over == \E s \in DOMAIN checked \ Broken : selected.block \in checked[s].over
<1>1. inbox' \in [Session -> SUBSET Commands] /\ SelectionType' /\ SelectedInBooklet'
  <2>1. CASE over
    BY <2>1, SelectionStays, TypeParts DEF Goto, Inv, BackendType
  <2>2. CASE ~over
    BY <2>2, SendGotoType DEF Goto
  <2> QED
    BY <2>1, <2>2
<1>2. dialog' \in BOOLEAN /\ finish' \in {"no", "locked", "told"}
  BY TypeParts DEF Goto, Inv, PageType
<1> QED
  BY <1>1, <1>2, SentType, CommandKeepsInv DEF Goto, Inv

LEMMA AnswerDialogKeepsInv ==
  ASSUME Inv, NEW yes \in BOOLEAN, AnswerDialog(yes)
  PROVE  Inv'
<1>1. inbox' \in [Session -> SUBSET Commands] /\ SelectionType' /\ SelectedInBooklet'
  <2>1. CASE SendGoto(TRUE)
    BY <2>1, SendGotoType
  <2>2. CASE UNCHANGED <<inbox, selected>>
    BY <2>2, SelectionStays, TypeParts DEF Inv, BackendType
  <2> QED
    BY <2>1, <2>2 DEF AnswerDialog
<1>2. dialog' \in BOOLEAN /\ finish' \in {"no", "locked", "told"}
  BY TypeParts DEF AnswerDialog, Inv, PageType
<1> QED
  BY <1>1, <1>2, SentType, CommandKeepsInv DEF AnswerDialog, Inv

LEMMA SetLockType ==
  ASSUME BackendType, NEW ids, ids \subseteq Session, NEW lock \in BOOLEAN, SetLock(ids, lock)
  PROVE  tests' \in [Session -> TestRow] /\ List(cache')
<1>1. \A s \in Session : [tests[s] EXCEPT !.locked = lock] \in TestRow
  BY DEF BackendType, TestRow
<1>2. List([s \in ids |-> FullState(tests[s])])
  BY FullStateType DEF List
<1> QED
  BY <1>1, <1>2, UpdatedList DEF SetLock, BackendType

LEMMA UnlockKeepsInv ==
  ASSUME Inv, Unlock
  PROVE  Inv'
<1>1. tests' \in [Session -> TestRow] /\ List(cache')
  BY SetLockType, TypeParts DEF Unlock, Inv, PageType, CheckingType, List
<1>2. BackendType'
  BY <1>1, SentType, TypeParts DEF Unlock, Inv, BackendType
<1> QED
  BY <1>2, BackendKeepsInv DEF Unlock

LEMMA FinishKeepsInv ==
  ASSUME Inv, Finish
  PROVE  Inv'
<1> DEFINE all == ShownOf(data, {})
<1>1. DOMAIN all \subseteq Session /\ List(data)
  BY TypeParts, ShownIsPart DEF Inv, List
<1>2. tests' \in [Session -> TestRow] /\ List(cache')
  BY <1>1, SetLockType, TypeParts DEF Finish, Inv
<1>3. BackendType' /\ List(data') /\ link' \in {"off", "polling", "ws"}
  BY <1>2, SentType, TypeParts DEF Finish, Inv, BackendType, List
<1>4. filters' \subseteq Filter /\ dialog' \in BOOLEAN /\ finish' \in {"no", "locked", "told"}
  BY TypeParts DEF Inv, Finish, PageType
<1>5. CASE DOMAIN data = {}
  <2>1. UNCHANGED <<checking, selected, data>>
    BY <1>5 DEF Finish, Synchronize
  <2>2. CheckingType' /\ SelectionType' /\ SelectedInBooklet'
    BY <2>1, TypeParts DEF Inv, checking, PageType, CheckingType, SelectionType, SelectedInBooklet, List
  <2>3. InOrder(data, filters, checked, count, auto)'
    BY <1>5, <2>1 DEF Inv, Finish, Usable, checking, InOrder, Matching, Uniform
  <2> QED
    BY <1>3, <1>4, <2>2, <2>3, TypeParts DEF Inv, PageType
<1>6. CASE DOMAIN data # {}
  <2>1. CheckingType' /\ SelectionType' /\ SelectedInBooklet' /\ InOrder(data, filters', checked', count', auto')
    BY <1>1, <1>6, SynchronizeInOrder DEF Finish, Inv
  <2>2. data' = data
    BY DEF Finish
  <2> QED
    BY <1>3, <1>4, <2>1, <2>2, TypeParts DEF Inv, PageType
<1> QED
  BY <1>5, <1>6

------------------------------------------------------------------------------
(* Theorems *)

LEMMA InitInv == Init => Inv
<1> SUFFICES ASSUME Init PROVE Inv
  OBVIOUS
<1>1. BackendType
  <2>1. tests \in [Session -> TestRow]
    BY DEF Init, TestRow, Controllers
  <2> QED
    BY <2>1, NoListIsList DEF Init, BackendType
<1>2. 0 \in 0 .. Cardinality(Session)
  BY FS_CardinalityType
<1>3. PageType /\ SelectedInBooklet
  BY <1>2, NoListIsList, NoSelectionType DEF Init, PageType, CheckingType, SelectionType, SelectedInBooklet
<1> QED
  BY <1>1, <1>3, NoListIsList, TypeParts DEF Init, Inv

LEMMA NextInv == Inv /\ [Next]_vars => Inv'
<1> SUFFICES ASSUME Inv, [Next]_vars PROVE Inv'
  OBVIOUS
<1>1. CASE TesteeStep
  BY <1>1, TesteeStepKeepsInv
<1>2. CASE CommandStep
  BY <1>2, CommandStepKeepsInv
<1>3. CASE Fetch
  BY <1>3, FetchKeepsInv
<1>4. CASE Push
  BY <1>4, PushKeepsInv
<1>5. CASE LoseConnection
  BY <1>5, LoseConnectionKeepsInv
<1>6. CASE TerminateAll
  BY <1>6, TerminateAllKeepsInv
<1>7. CASE MonitorStep
  <2>1. CASE EnterMonitor \/ StartAutoCheck
    BY <2>1, RenewedKeepsInv DEF EnterMonitor, StartAutoCheck, Connect
  <2>2. CASE LeaveMonitor
    BY <2>2, RenewedKeepsInv DEF LeaveMonitor
  <2>3. CASE \E f \in Filter : SwitchFilter(f)
    BY <2>3, SwitchFilterKeepsInv
  <2>4. CASE \E s \in Session, inversion \in BOOLEAN : \E b \in {0} \cup Blocks(s) : SelectElement(s, b, inversion)
    BY <2>4, SelectElementKeepsInv
  <2>5. CASE \E s \in Session : ToggleChecked(s)
    BY <2>5, ToggleCheckedKeepsInv
  <2>6. CASE CheckMany
    BY <2>6, CheckManyKeepsInv
  <2>7. CASE StopAutoCheck
    BY <2>7, StopAutoCheckKeepsInv
  <2>8. CASE Pause
    BY <2>8, PauseKeepsInv
  <2>9. CASE Resume
    BY <2>9, ResumeKeepsInv
  <2>10. CASE Goto
    BY <2>10, GotoKeepsInv
  <2>11. CASE Unlock
    BY <2>11, UnlockKeepsInv
  <2>12. CASE Finish
    BY <2>12, FinishKeepsInv
  <2>13. CASE \E yes \in BOOLEAN : AnswerDialog(yes)
    BY <2>13, AnswerDialogKeepsInv
  <2> QED
    BY <1>7, <2>1, <2>2, <2>3, <2>4, <2>5, <2>6, <2>7, <2>8, <2>9, <2>10, <2>11, <2>12, <2>13 DEF MonitorStep
<1>8. CASE UNCHANGED vars
  <2>1. BackendType'
    BY <1>8, TypeParts DEF Inv, vars, backend, BackendType, List
  <2> QED
    BY <1>8, <2>1, BackendKeepsInv DEF vars
<1> QED
  BY <1>1, <1>2, <1>3, <1>4, <1>5, <1>6, <1>7, <1>8 DEF Next

(* The inductive invariant holds in every behaviour. *)
THEOREM InvCorrect == Spec => []Inv
<1> QED
  BY InitInv, NextInv, PTL DEF Spec

(* Whatever list comes in from fetching or by push, and whatever the       *)
(* monitor filters or clicks: as many sessions are checked as the page     *)
(* says, with the states that are shown, all of them if all are steered.   *)
THEOREM ChecksCorrect == Spec => []ChecksAreSound
<1>1. Inv => ChecksAreSound
  <2> SUFFICES ASSUME Inv PROVE CheckedAreShown /\ AutoCheckIsUniform
    BY DEF Inv, ChecksAreSound
  <2>1. CheckedAreShown
    BY DEF Inv, InOrder, Matching, CheckedAreShown, Shown
  <2>2. AutoCheckIsUniform
    BY DEF Inv, InOrder, Uniform, AutoCheckIsUniform, Shown
  <2> QED
    BY <2>1, <2>2
<1> QED
  BY <1>1, InvCorrect, PTL

(* Only SendGoto stores a goto. *)
LEMMA SimpleKeepsGoto ==
  ASSUME GotoReachesOwnBooklet, NEW keyword \in {"pause", "resume", "terminate"}, NEW S,
         inbox \in [Session -> SUBSET Commands],
         Store([s \in S |-> Simple(keyword)])
  PROVE  GotoReachesOwnBooklet'
BY SimpleType DEF Store, GotoReachesOwnBooklet

LEMMA SendGotoKeepsGoto ==
  ASSUME Inv, GotoReachesOwnBooklet, NEW asked \in BOOLEAN, SendGoto(asked)
  PROVE  GotoReachesOwnBooklet'
<1> DEFINE c(s) == [keyword |-> "goto", alias |-> GotoUnit(s), block |-> selected.block, asked |-> asked]
<1>1. inbox' = [s \in Session |-> IF s \in GotoTargets THEN inbox[s] \cup {c(s)} ELSE inbox[s]]
  BY DEF SendGoto, Store
<1>2. \A s \in GotoTargets : c(s).alias \in Alias /\ c(s).alias \in Range(FirstUnit[s])
  BY TargetUnit DEF Inv
<1> HIDE DEF c
<1> QED
  BY <1>1, <1>2 DEF GotoReachesOwnBooklet

LEMMA NextKeepsGoto ==
  ASSUME Inv, GotoReachesOwnBooklet, [Next]_vars
  PROVE  GotoReachesOwnBooklet'
<1>0. inbox \in [Session -> SUBSET Commands]
  BY TypeParts DEF Inv, BackendType
<1>1. ASSUME UNCHANGED inbox PROVE GotoReachesOwnBooklet'
  BY <1>1 DEF GotoReachesOwnBooklet
<1>2. CASE TesteeStep
  <2>1. UNCHANGED inbox
    BY <1>2 DEF TesteeStep, CreateTest, StartTest, EndTest, TimeOver
  <2> QED
    BY <2>1, <1>1
<1>3. CASE CommandStep
  <2>1. PICK s \in Session : \E c \in inbox[s] : inbox' = [inbox EXCEPT ![s] = @ \ {c}]
    BY <1>3 DEF CommandStep, Execute
  <2> QED
    BY <1>0, <2>1 DEF GotoReachesOwnBooklet
<1>4. CASE Fetch \/ Push \/ LoseConnection \/ UNCHANGED vars
  BY <1>1, <1>4 DEF Fetch, Push, LoseConnection, vars, backend
<1>5. CASE TerminateAll
  BY <1>0, <1>5, SimpleKeepsGoto DEF TerminateAll
<1>6. CASE MonitorStep
  <2>1. CASE Pause \/ Resume
    BY <1>0, <2>1, SimpleKeepsGoto DEF Pause, Resume
  <2>2. CASE Goto
    BY <1>1, <2>2, SendGotoKeepsGoto DEF Goto
  <2>3. CASE \E yes \in BOOLEAN : AnswerDialog(yes)
    BY <1>1, <2>3, SendGotoKeepsGoto DEF AnswerDialog
  <2>4. CASE EnterMonitor \/ LeaveMonitor \/ StartAutoCheck \/ Unlock \/ Finish
    BY <1>1, <2>4 DEF EnterMonitor, LeaveMonitor, StartAutoCheck, Connect, Renewed, Unlock, Finish
  <2>5. CASE \/ \E f \in Filter : SwitchFilter(f)
             \/ \E s \in Session, inversion \in BOOLEAN : \E b \in {0} \cup Blocks(s) : SelectElement(s, b, inversion)
             \/ \E s \in Session : ToggleChecked(s)
             \/ CheckMany \/ StopAutoCheck
    <3>1. UserKeeps
      BY <2>5 DEF SwitchFilter, SelectElement, ToggleChecked, CheckMany, StopAutoCheck
    <3> QED
      BY <1>1, <3>1 DEF UserKeeps, backend
  <2> QED
    BY <1>6, <2>1, <2>2, <2>3, <2>4, <2>5 DEF MonitorStep
<1> QED
  BY <1>2, <1>3, <1>4, <1>5, <1>6 DEF Next

(* A goto that waits for a test names a unit of that test's own booklet,   *)
(* wherever the block was selected and whatever was checked meanwhile.     *)
THEOREM GotoCorrect == Spec => []GotoReachesOwnBooklet
<1>1. Init => GotoReachesOwnBooklet
  BY DEF Init, GotoReachesOwnBooklet
<1> QED
  BY <1>1, NextKeepsGoto, InvCorrect, PTL DEF Spec

(* Finishing locks every test that was running in the last list, also      *)
(* those that a filter hides.                                              *)
THEOREM FinishCorrect == Spec => FinishLocksEverything
<1>1. ASSUME Inv, [Next]_vars, finish = "no", finish' = "locked",
             NEW s \in DOMAIN data, data[s].status = "running"
      PROVE  tests'[s].locked
  <2>1. Finish
    BY <1>1 DEF Next, TesteeStep, CommandStep, Fetch, Push, Receive, LoseConnection, page, TerminateAll, MonitorStep,
                EnterMonitor, LeaveMonitor, StartAutoCheck, Connect, Renewed, SwitchFilter, SelectElement,
                ToggleChecked, CheckMany, StopAutoCheck, UserKeeps, Pause, Resume, Goto, AnswerDialog, Unlock, vars
  <2>2. s \in Session /\ data[s] \in Snapshot
    BY <1>1, TypeParts DEF Inv, List
  <2>3. SuperState(data[s]) \in {"terminated", "paused", "ok"}
    BY <1>1 DEF SuperState
  <2>4. s \in DOMAIN ShownOf(data, {}) /\ Open(ShownOf(data, {})[s])
    BY <2>3, <1>1 DEF ShownOf, Open
  <2>5. tests'[s] = [tests[s] EXCEPT !.locked = TRUE]
    BY <2>1, <2>2, <2>4 DEF Finish, SetLock
  <2> QED
    BY <2>2, <2>5, TypeParts DEF Inv, BackendType, TestRow
<1>2. Inv /\ [Next]_vars => [finish = "no" /\ finish' = "locked" =>
                               \A s \in DOMAIN data : data[s].status = "running" => tests'[s].locked]_vars
  BY <1>1
<1> QED
  BY <1>2, InvCorrect, PTL DEF Spec, FinishLocksEverything
==============================================================================
