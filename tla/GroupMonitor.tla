----------------------------- MODULE GroupMonitor -----------------------------
(***************************************************************************)
(* The group monitor: the list of test sessions as it comes from the       *)
(* backend by polling or from the broadcaster by push, the filters, the    *)
(* sessions that are checked, the block that is selected, and the commands *)
(* that are sent to the checked sessions.                                  *)
(*                                                                         *)
(* Four copies of the state of a test are kept apart, because commands are *)
(* chosen by the last of them: the database (tests), the cache of the      *)
(* broadcaster (cache), the list received last (data) and the snapshots    *)
(* that were checked (checked).                                            *)
(***************************************************************************)
EXTENDS Integers, FiniteSets, SequencesExt

CONSTANTS
  Session,     \* test sessions of the group, one test each
  Alias,       \* aliases of units
  NoUnit,      \* the first unit of a block of which every unit is hidden
  FirstUnit,   \* session -> for each block of its booklet the alias of the first unit
  Broken,      \* sessions whose booklet could not be read (BookletError)
  Timed,       \* blocks with a time limit
  Filter,      \* filters on the state that the monitor can switch on
  QuickHides,  \* sessions hidden by the quick filter
  Nobody,      \* no session
  MaxChanges,  \* bound: steps of testees
  MaxCommands  \* bound: commands of the monitor

ASSUME BookletAssumption ==
  /\ IsFiniteSet(Session) /\ Broken \subseteq Session
  /\ NoUnit \notin Alias /\ Nobody \notin Session
  /\ DOMAIN FirstUnit = Session
  /\ \A s \in Session : FirstUnit[s] \in Seq(Alias \cup {NoUnit})
ASSUME FilterAssumption == Filter \subseteq {"pending", "locked", "paused", "terminated", "ok", "quick"}
ASSUME BoundsAssumption == {MaxChanges, MaxCommands} \subseteq Nat /\ Timed \subseteq Nat \ {0}

VARIABLES
  tests,       \* what the database says of each test
  cache,       \* what the broadcaster knows of it; nothing while nobody listens
  inbox,       \* commands that are stored for a test and not executed
  changes,     \* steps of testees so far
  sent,        \* commands of the monitor so far
  link,        \* "off", "polling" or "ws"
  data,        \* the list received last
  checked,     \* TestSessionManager._checked
  count,       \* checkedSessionCount: it enables the buttons
  auto,        \* checkingOptions.autoCheckAll
  enableAuto,  \* checkingOptions.enableAutoCheckAll
  manual,      \* displayOptions.manualChecking
  filters,     \* filters switched on
  selected,    \* currentlySelected
  dialog,      \* the question about the time of a closed block is open
  finish       \* "no", "locked" (within the 1500 ms) or "told"

backend == <<tests, cache, inbox, changes, sent>>
checking == <<checked, count, auto, enableAuto, manual>>
page == <<checking, filters, selected, dialog, finish>>
vars == <<backend, link, data, page>>

Blocks(s) == 1 .. Len(FirstUnit[s])
Block == UNION {Blocks(s) : s \in Session}

NoList == [s \in {} |-> s]
(* the list with the entries of another one put into it *)
Updated(list, entries) ==
  [s \in DOMAIN list \cup DOMAIN entries |-> IF s \in DOMAIN entries THEN entries[s] ELSE list[s]]
One(s, snap) == [x \in {s} |-> snap]
NoSelection == [block |-> 0, origin |-> Nobody, clicks |-> "none"]

\* "none" until the tab has put a state; from then on a connection is put as well.
Controllers == {"none", "RUNNING", "PAUSED", "TERMINATED"}
Snapshot == [status : {"pending", "running", "locked"}, controller : Controllers, over : SUBSET Timed]

(* getTestFullState *)
FullState(t) == [status |-> IF t.locked THEN "locked" ELSE IF t.running THEN "running" ELSE "pending",
                 controller |-> t.controller, over |-> t.over]

(* getSuperState, as far as commands and filters tell its values apart *)
SuperState(snap) ==
  CASE snap.status \in {"pending", "locked"} -> snap.status
    [] snap.controller = "TERMINATED" -> "terminated"
    [] snap.controller = "PAUSED" -> "paused"
    [] OTHER -> "ok"

Open(snap) == SuperState(snap) \notin {"pending", "locked"}

(* getBookletSpecies: the number of blocks; a broken booklet has none *)
Species(s) == IF s \in Broken THEN -1 ELSE Len(FirstUnit[s])
(* getSessionSetStats: the kinds of booklets among sessions *)
SpeciesOf(S) == {Species(s) : s \in S}

(* filterSessions *)
ShownOf(list, on) ==
  LET hidden(s) == SuperState(list[s]) \in on \/ ("quick" \in on /\ s \in QuickHides)
  IN  [s \in {x \in DOMAIN list : ~hidden(x)} |-> list[s]]
Shown == ShownOf(data, filters)

Existing == {s \in Session : tests[s].exists}

(* Some tests exist already, and some of these are running. *)
Init ==
  /\ \E existing \in SUBSET Session : \E running \in SUBSET existing :
       tests = [s \in Session |-> [exists |-> s \in existing, running |-> s \in running, locked |-> FALSE,
                                  controller |-> IF s \in running THEN "RUNNING" ELSE "none", over |-> {}]]
  /\ cache = NoList
  /\ inbox = [s \in Session |-> {}]
  /\ changes = 0 /\ sent = 0
  /\ link = "off"
  /\ data = NoList
  /\ checked = NoList /\ count = 0 /\ auto = FALSE /\ enableAuto = FALSE /\ manual = FALSE
  /\ filters = {} /\ selected = NoSelection /\ dialog = FALSE /\ finish = "no"

------------------------------------------------------------------------------
(* Testees *)

(* A change is merged into the entry of the cache: what it names is replaced. *)
Broadcast(s, changed) ==
  cache' = IF s \in DOMAIN cache THEN Updated(cache, One(s, changed)) ELSE cache

(* Tests are created for a monitor before anybody opens them, or by the    *)
(* testee who opens them.                                                  *)
CreateTest(s) ==
  /\ ~tests[s].exists
  /\ tests' = [tests EXCEPT ![s].exists = TRUE]
  /\ UNCHANGED <<cache, inbox>>

(* The tab loads the test, which is running from then on, and puts its     *)
(* first state.  Only the first start broadcasts the status.               *)
StartTestIfKnown(s) ==
  /\ ~tests[s].locked /\ tests[s].controller \in {"none", "TERMINATED"}
  /\ tests' = [tests EXCEPT ![s].exists = TRUE, ![s].running = TRUE, ![s].controller = "RUNNING"]
  /\ cache' = IF s \in DOMAIN cache THEN [cache EXCEPT ![s].controller = "RUNNING", ![s].status = "running"] ELSE cache
  /\ UNCHANGED inbox

StartTest(s) ==
  LET started == [tests[s] EXCEPT !.exists = TRUE, !.running = TRUE, !.controller = "RUNNING"]
      known == IF s \in DOMAIN cache THEN cache[s] ELSE FullState(started)
  IN  /\ ~tests[s].locked /\ tests[s].controller \in {"none", "TERMINATED"}
      /\ tests' = [tests EXCEPT ![s] = started]
      /\ cache' = IF link # "ws" THEN cache
                  ELSE Updated(cache, One(s, [known EXCEPT !.controller = "RUNNING",
                                                           !.status = IF tests[s].running THEN @ ELSE "running"]))
      /\ UNCHANGED inbox

(* PATCH state: the state without the status is broadcast. *)
PatchState(s, t) ==
  /\ tests' = [tests EXCEPT ![s] = t]
  /\ Broadcast(s, [cache[s] EXCEPT !.controller = t.controller, !.over = t.over])

InTest(s) == tests[s].running /\ tests[s].controller \in {"RUNNING", "PAUSED"}

TimeOver(s, b) ==
  /\ tests[s].controller = "RUNNING" /\ b \notin tests[s].over
  /\ PatchState(s, [tests[s] EXCEPT !.over = @ \cup {b}])
  /\ UNCHANGED inbox

(* The testee leaves the test, with or without the lock at its end (patchLock). *)
EndTest(s) ==
  /\ InTest(s)
  /\ \E lock \in BOOLEAN :
       /\ tests' = [tests EXCEPT ![s].controller = "TERMINATED", ![s].locked = @ \/ lock]
       /\ Broadcast(s, [cache[s] EXCEPT !.controller = "TERMINATED", !.status = IF lock THEN "locked" ELSE @])
  /\ UNCHANGED inbox

(* A command reaches the tab; how it does is the matter of CommandDelivery. *)
Execute(s, c) ==
  /\ InTest(s)
  /\ c \in inbox[s]
  /\ inbox' = [inbox EXCEPT ![s] = @ \ {c}]
  /\ \/ /\ c.keyword = "pause"
        /\ PatchState(s, [tests[s] EXCEPT !.controller = "PAUSED"])
     \/ /\ c.keyword = "resume"
        /\ PatchState(s, [tests[s] EXCEPT !.controller = "RUNNING"])
     \/ /\ c.keyword = "goto"
        /\ PatchState(s, [tests[s] EXCEPT !.controller = "RUNNING", !.over = @ \ {c.block}])
     \/ /\ c.keyword = "terminate"
        /\ tests' = [tests EXCEPT ![s].controller = "TERMINATED", ![s].locked = TRUE]
        /\ Broadcast(s, [cache[s] EXCEPT !.controller = "TERMINATED", !.status = "locked"])

TesteeStep ==
  /\ changes < MaxChanges
  /\ changes' = changes + 1
  /\ \E s \in Session : \/ CreateTest(s) \/ StartTest(s) \/ EndTest(s)
                        \/ \E b \in Blocks(s) \cap Timed : TimeOver(s, b)
  /\ UNCHANGED <<sent, link, data, page>>

CommandStep ==
  /\ \E s \in Session : \E c \in inbox[s] : Execute(s, c)
  /\ UNCHANGED <<changes, sent, link, data, page>>

------------------------------------------------------------------------------
(* The list *)

(* onCheckedChange: what follows from a new set of checked sessions *)
SetChecked(new) ==
  /\ checked' = new
  /\ count' = Cardinality(DOMAIN new)

Kept(new, selection) == IF Cardinality(SpeciesOf(DOMAIN new)) > 1 THEN NoSelection ELSE selection

(* synchronizeChecked and what the page makes of the statistics.  An empty *)
(* list emits nothing (zip of no observables).                             *)
SynchronizeKeepingSnapshots(list, on) ==
  LET shown == ShownOf(list, on)
      uniform == Cardinality(SpeciesOf(DOMAIN shown)) < 2
      old == [s \in {x \in DOMAIN shown : x \in DOMAIN checked} |-> checked[s]]
      new == IF auto /\ uniform THEN Updated(shown, old) ELSE old
  IN  IF DOMAIN list = {} THEN UNCHANGED <<checking, selected>>
      ELSE /\ enableAuto' = uniform /\ auto' = (auto /\ uniform) /\ manual' = (manual \/ ~uniform)
           /\ SetChecked(new) /\ selected' = Kept(new, selected)

Synchronize(list, on) ==
  LET shown == ShownOf(list, on)
      uniform == Cardinality(SpeciesOf(DOMAIN shown)) < 2
      new == [s \in {x \in DOMAIN shown : (auto /\ uniform) \/ x \in DOMAIN checked} |-> shown[s]]
  IN  IF DOMAIN list = {} THEN UNCHANGED <<checking, selected>>
      ELSE /\ enableAuto' = uniform /\ auto' = (auto /\ uniform) /\ manual' = (manual \/ ~uniform)
           /\ SetChecked(new) /\ selected' = Kept(new, selected)

Receive(list) ==
  /\ data' = IF DOMAIN list = {} THEN data ELSE list
  /\ Synchronize(list, filters)
  /\ UNCHANGED <<filters, dialog, finish>>

(* AdminDAO::getTestSessions: every test of the group that exists *)
StoredSessions == [s \in Existing |-> FullState(tests[s])]

(* GET test-sessions: what the database says goes to the monitor and to    *)
(* the cache; with a token the monitor listens from then on, otherwise it  *)
(* fetches again after 5 seconds.                                          *)
Fetch ==
  LET list == StoredSessions
  IN  /\ link = "polling"
      /\ Receive(list)
      /\ link' \in {"polling", "ws"}
      /\ cache' = IF link' = "ws" THEN Updated(cache, list) ELSE cache
      /\ UNCHANGED <<tests, inbox, changes, sent>>

(* The broadcaster pushes the whole list of the group after each change. *)
Push ==
  /\ link = "ws"
  /\ cache # data
  /\ Receive(cache)
  /\ UNCHANGED <<link, backend>>

LoseConnection ==
  /\ link = "ws"
  /\ link' = "polling"
  /\ cache' = NoList
  /\ UNCHANGED <<data, page, tests, inbox, changes, sent>>

(* connect, of a page that is new; the service forgets all but what was    *)
(* checked.  A page that is left is taken to be forgotten at once.         *)
Renewed(new, check) ==
  /\ link' = new
  /\ cache' = NoList
  /\ data' = NoList
  /\ filters' = {}
  /\ auto' = check /\ enableAuto' = check /\ count' = 0
  /\ manual' = FALSE /\ selected' = NoSelection /\ dialog' = FALSE /\ finish' = "no"
  /\ UNCHANGED <<checked, tests, inbox, changes, sent>>

Connect == Renewed("polling", TRUE)

EnterMonitor == link = "off" /\ Connect

LeaveMonitor == link # "off" /\ Renewed("off", FALSE)

------------------------------------------------------------------------------
(* The hands of the monitor.  A dialog or the shield while everything is   *)
(* being finished keep them off the page.                                  *)
Usable == link # "off" /\ ~dialog /\ finish = "no"

UserKeeps == UNCHANGED <<backend, link, data, dialog, finish>>

(* switchFilter, the quick filter, a new or changed filter, a profile *)
SwitchFilter(f) ==
  /\ Usable
  /\ filters' = IF f \in filters THEN filters \ {f} ELSE filters \cup {f}
  /\ Synchronize(data, filters')
  /\ UserKeeps

(* returnClicks *)
Clicks(s, b) ==
  IF b # 0 /\ selected.block = b /\ selected.origin = s
  THEN CASE selected.clicks = "first" -> "second" [] selected.clicks = "second" -> "third" [] OTHER -> "first"
  ELSE "first"

(* checkSessionsBySelection *)
CheckedBySelection(s, b, clicks, inversion) ==
  IF b = 0 \/ clicks = "third" THEN NoList
  ELSE IF clicks = "first" THEN Updated(checked, One(s, Shown[s]))
  ELSE LET alike == {x \in DOMAIN Shown : Open(Shown[x]) /\ Species(x) = Species(s)}
       IN  [x \in IF inversion THEN alike \ DOMAIN checked ELSE alike |-> Shown[x]]

(* A click on a block, beside it (block 0), or with the other button. *)
SelectElement(s, b, inversion) ==
  /\ Usable
  /\ s \in DOMAIN Shown \ Broken
  /\ Open(Shown[s])
  /\ inversion => Clicks(s, b) = "second"    \* it makes no difference otherwise
  /\ IF auto THEN UNCHANGED <<checked, count>>
             ELSE SetChecked(CheckedBySelection(s, b, Clicks(s, b), inversion))
  /\ selected' = [block |-> b, origin |-> s, clicks |-> Clicks(s, b)]
  /\ UNCHANGED <<auto, enableAuto, manual, filters>>
  /\ UserKeeps

(* The checkbox of a session; there is none for a pending one. *)
ToggleChecked(s) ==
  LET new == IF s \in DOMAIN checked THEN [x \in DOMAIN checked \ {s} |-> checked[x]]
                                     ELSE Updated(checked, One(s, Shown[s]))
  IN  /\ Usable
      /\ manual /\ ~auto
      /\ s \in DOMAIN Shown /\ SuperState(Shown[s]) # "pending"
      /\ SetChecked(new)
      /\ selected' = IF s \in DOMAIN checked /\ selected.origin = s THEN NoSelection ELSE Kept(new, selected)
      /\ UNCHANGED <<auto, enableAuto, manual, filters>>
      /\ UserKeeps

(* The checkbox in the head of the table: all, none or the others. *)
CheckMany ==
  /\ Usable
  /\ manual /\ ~auto
  /\ LET all == {s \in DOMAIN Shown : Open(Shown[s])}
     IN  \/ LET new == [s \in all |-> Shown[s]]
            IN  SetChecked(new) /\ selected' = Kept(new, selected)
         \/ LET new == [s \in all \ DOMAIN checked |-> Shown[s]]
            IN  SetChecked(new) /\ selected' = Kept(new, selected)
         \/ SetChecked(NoList) /\ selected' = NoSelection
  /\ UNCHANGED <<auto, enableAuto, manual, filters>>
  /\ UserKeeps

(* toggleAlwaysCheckAll: on means that the page begins anew. *)
StopAutoCheck ==
  /\ Usable
  /\ enableAuto
  /\ auto
  /\ SetChecked(NoList)
  /\ manual' = TRUE /\ auto' = FALSE /\ selected' = NoSelection
  /\ UNCHANGED <<enableAuto, filters>>
  /\ UserKeeps

StartAutoCheck ==
  /\ Usable
  /\ enableAuto
  /\ ~auto
  /\ Connect

------------------------------------------------------------------------------
(* Commands.  They go to what is checked, as it was seen last. *)
Store(commands) ==
  inbox' = [s \in Session |-> IF s \in DOMAIN commands THEN inbox[s] \cup {commands[s]} ELSE inbox[s]]

Simple(keyword) == [keyword |-> keyword, alias |-> NoUnit, block |-> 0, asked |-> TRUE]

Commanded == sent < MaxCommands /\ sent' = sent + 1
CommandKeeps == UNCHANGED <<tests, cache, changes, link, data, checking, filters>>

Pause ==
  /\ Usable /\ count > 0
  /\ Store([s \in {x \in DOMAIN checked : SuperState(checked[x]) \notin {"pending", "locked"}
                                           /\ checked[x].controller # "PAUSED"} |-> Simple("pause")])
  /\ Commanded /\ CommandKeeps /\ UNCHANGED <<selected, dialog, finish>>

Resume ==
  /\ Usable /\ count > 0
  /\ Store([s \in {x \in DOMAIN checked : Open(checked[x])} |-> Simple("resume")])
  /\ Commanded /\ CommandKeeps /\ UNCHANGED <<selected, dialog, finish>>

(* groupForGoto: the sessions by the first unit of the block in their own  *)
(* booklet; there may be none in it.                                       *)
GotoTargets ==
  {s \in DOMAIN checked \ Broken :
     selected.block \in Blocks(s) /\ FirstUnit[s][selected.block] # NoUnit}

(* selectNextBlock *)
NextBlock ==
  [selected EXCEPT !.block = IF @ # 0 /\ @ + 1 \in Blocks(selected.origin) THEN @ + 1 ELSE 0]

GotoUnitOfOrigin(s) == FirstUnit[selected.origin][selected.block]
GotoUnit(s) == FirstUnit[s][selected.block]

(* testCommandGoto.  Without an answer to send (no target) nothing follows. *)
SendGoto(asked) ==
  /\ Store([s \in GotoTargets |-> [keyword |-> "goto", alias |-> GotoUnit(s), block |-> selected.block,
                                    asked |-> asked]])
  /\ \/ selected' = IF GotoTargets = {} THEN selected ELSE NextBlock
     \/ UNCHANGED selected    \* autoselectNextBlock is off

Goto ==
  LET over == \E s \in DOMAIN checked \ Broken : selected.block \in checked[s].over
  IN  /\ Usable /\ count > 0
      /\ selected.block # 0
      /\ dialog' = over
      /\ IF over THEN UNCHANGED <<inbox, selected>> ELSE SendGoto(FALSE)
      /\ Commanded /\ CommandKeeps /\ UNCHANGED finish

(* The list may have changed while the dialog was open. *)
AnswerDialog(yes) ==
  /\ link # "off" /\ dialog
  /\ dialog' = FALSE
  /\ IF yes /\ selected # NoSelection THEN SendGoto(TRUE) ELSE UNCHANGED <<inbox, selected>>
  /\ CommandKeeps /\ UNCHANGED <<sent, finish>>

(* What is broadcast was read before the lock was changed. *)
SetLock(ids, lock) ==
  /\ tests' = [s \in Session |-> IF s \in ids THEN [tests[s] EXCEPT !.locked = lock] ELSE tests[s]]
  /\ cache' = IF link = "ws" THEN Updated(cache, [s \in ids |-> FullState(tests[s])]) ELSE cache

Unlock ==
  /\ Usable /\ count > 0
  /\ SetLock({s \in DOMAIN checked : checked[s].status = "locked"}, FALSE)
  /\ Commanded
  /\ UNCHANGED <<inbox, changes, link, data, page>>

(* commandFinishEverything, after its confirmation: the filters are taken  *)
(* away before the list is read.                                           *)
FinishShown ==
  /\ Usable
  /\ finish' = "locked"
  /\ SetLock({s \in DOMAIN Shown : Open(Shown[s])}, TRUE)
  /\ UNCHANGED <<filters, checking, selected>>
  /\ Commanded
  /\ UNCHANGED <<inbox, changes, link, data, dialog>>

Finish ==
  LET all == ShownOf(data, {})
  IN  /\ Usable
      /\ finish' = "locked"
      /\ filters' = {}
      /\ Synchronize(data, {})
      /\ SetLock({s \in DOMAIN all : Open(all[s])}, TRUE)
      /\ Commanded
      /\ UNCHANGED <<inbox, changes, link, data, dialog>>

(* After 1500 ms the tabs of the tests that are still open, as far as the  *)
(* monitor knows, are told to end and lock; then the page is left.         *)
TerminateAll ==
  /\ link # "off" /\ finish = "locked"
  /\ finish' = "told"
  /\ Store([s \in {x \in DOMAIN Shown : Open(Shown[x]) /\ Shown[x].controller \notin {"TERMINATED", "none"}}
              |-> Simple("terminate")])
  /\ CommandKeeps /\ UNCHANGED <<sent, selected, dialog>>

MonitorStep ==
  \/ EnterMonitor \/ LeaveMonitor
  \/ \E f \in Filter : SwitchFilter(f)
  \/ \E s \in Session, inversion \in BOOLEAN : \E b \in {0} \cup Blocks(s) : SelectElement(s, b, inversion)
  \/ \E s \in Session : ToggleChecked(s)
  \/ CheckMany \/ StopAutoCheck \/ StartAutoCheck
  \/ Pause \/ Resume \/ Goto \/ Unlock \/ Finish
  \/ \E yes \in BOOLEAN : AnswerDialog(yes)

Next == TesteeStep \/ CommandStep \/ Fetch \/ Push \/ LoseConnection \/ MonitorStep \/ TerminateAll

Spec == Init /\ [][Next]_vars

(* Lists are fetched again and pushed as long as the page is open. *)
Fairness == WF_vars(Fetch) /\ WF_vars(Push)
LiveSpec == Spec /\ Fairness

------------------------------------------------------------------------------
Commands == [keyword : {"pause", "resume", "goto", "terminate"}, alias : Alias \cup {NoUnit},
             block : {0} \cup Block, asked : BOOLEAN]

TypeOK ==
  /\ tests \in [Session -> [exists : BOOLEAN, running : BOOLEAN, locked : BOOLEAN, controller : Controllers,
                            over : SUBSET Timed]]
  /\ \A list \in {cache, data, checked} :
       DOMAIN list \subseteq Session /\ \A s \in DOMAIN list : list[s] \in Snapshot
  /\ inbox \in [Session -> SUBSET Commands]
  /\ changes \in 0 .. MaxChanges /\ sent \in 0 .. MaxCommands
  /\ link \in {"off", "polling", "ws"}
  /\ count \in 0 .. Cardinality(Session)
  /\ {auto, enableAuto, manual, dialog} \subseteq BOOLEAN
  /\ filters \subseteq Filter
  /\ selected \in [block : {0} \cup Block, origin : Session \cup {Nobody},
                   clicks : {"none", "first", "second", "third"}]
  /\ finish \in {"no", "locked", "told"}

(* The buttons act on what the page shows: as soon as they are enabled,    *)
(* every checked session is in the list, with the state that is shown      *)
(* there, and as many are checked as the page says.  A page that is opened *)
(* anew keeps what was checked before, but then the buttons are disabled.  *)
CheckedAreShown ==
  link # "off" /\ count > 0 =>
    /\ count = Cardinality(DOMAIN checked)
    /\ \A s \in DOMAIN checked : s \in DOMAIN Shown /\ checked[s] = Shown[s]

(* While all tests are steered at once, all that are shown are checked and *)
(* their booklets have the same number of blocks, whatever session joins   *)
(* or is filtered out.                                                     *)
AutoCheckIsUniform ==
  link # "off" /\ auto /\ DOMAIN data # {} =>
    DOMAIN checked = DOMAIN Shown /\ Cardinality(SpeciesOf(DOMAIN Shown)) <= 1

(* Whatever list comes in, and whatever is filtered or clicked: what is    *)
(* checked is in order.                                                    *)
ChecksAreSound == TypeOK /\ CheckedAreShown /\ AutoCheckIsUniform

(* A goto names a unit of the booklet of the test it is sent to, although  *)
(* the block was selected in the booklet of another one (the testee's tab  *)
(* looks the alias up without a check).                                    *)
GotoReachesOwnBooklet ==
  \A s \in Session : \A c \in inbox[s] : c.keyword = "goto" => c.alias \in Alias /\ c.alias \in Range(FirstUnit[s])

(* "Diese Aktion sperrt ... saemtliche Tests dieser Sitzung": every test   *)
(* that was running in the last list is locked, if a filter hid it or not. *)
FinishLocksEverything ==
  [][finish = "no" /\ finish' = "locked" =>
       \A s \in DOMAIN data : data[s].status = "running" => tests'[s].locked]_vars

(* A test that runs appears in the list of a monitor that stays, by the    *)
(* next fetch or by push, also if it was unknown when the list was fetched.*)
RunningTestsAreListed ==
  \A s \in Session : (tests[s].running /\ link # "off") ~> (s \in DOMAIN data \/ link = "off")
==============================================================================
