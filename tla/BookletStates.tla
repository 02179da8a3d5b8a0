----------------------------- MODULE BookletStates -----------------------------
(***************************************************************************)
(* Adaptive booklets: the responses to the units, coded with the scheme    *)
(* of the unit, decide on the states of the booklet, and the states decide *)
(* which testlets are shown.  Schemes and definitions are loaded one by    *)
(* one, before the test runs or while it does; responses wait in a buffer; *)
(* the states are stored with the test, which can be reloaded at any time. *)
(*                                                                         *)
(* What the BookletParser makes of a file, and whether a condition is      *)
(* satisfied, are parameters: BookletParser and Conditions define them.    *)
(* Units are named by their sequenceId.  The responses to a unit are one   *)
(* data part of the iqb standard: a function of its variables.  What is    *)
(* sent to the backend is stored: the way there is the subject of          *)
(* TestPersistence.  What may be missing is a set of one element at most.  *)
(***************************************************************************)
EXTENDS Booklets

CONSTANTS
  BookletFiles,   \* the Booklet files
  Parse(_),       \* BookletParser: the booklet of a file, or Invalid
  Holds(_, _),    \* Conditions: a condition of an option, of all variables
  Schemes,        \* the ids of the units that use a coding scheme
  Presets,        \* the states that a login may preset for a booklet: state -> option
  Content(_),     \* unit id -> what its player may report
  Bases(_, _),    \* CodingSchemeFactory.getBaseVarsList: unit id, tracked variables
  Code(_, _),     \* CodingSchemeFactory.code: unit id, its base variables as answered
  MayOverride,    \* the mode's canChangeStateOptions
  MaxLoads, MaxChanges   \* bounds: loadings of the test, answers and choices of the testee

(* Of a booklet that can be read: units have numbers and a testlet around them, *)
(* states have a default.                                                        *)
ASSUME ParseAssumption ==
  \A f \in BookletFiles : Parse(f) # Invalid =>
    /\ Len(Parse(f).units) \in Nat /\ DOMAIN Parse(f).units = 1 .. Len(Parse(f).units)
    /\ \A d \in Range(Parse(f).units) : \E t \in Range(Parse(f).testlets) : t.id = d.parent
    /\ \A s \in DOMAIN Parse(f).states :
         LET options == Parse(f).states[s]
         IN  Len(options) \in Nat /\ DOMAIN options = 1 .. Len(options) /\ HasDefault(options)
ASSUME BoundsAssumption == {MaxLoads, MaxChanges} \subseteq Nat

Unanswered == <<>>   \* the data parts of a unit without any responses

VARIABLES
  file,       \* the Booklet file of the test ...
  booklet,    \* ... and what is made of it
  preset,     \* the states that are preset
  phase,      \* "off", "loading", "running" or "error"
  stored,     \* laststate.BOOKLET_STATES, as it was when the test was loaded, if there were any
  toLoad,     \* the loadingQueue: <<unit, "scheme" or "definition">>
  parts,      \* unit -> dataParts
  variables,  \* unit -> its variables -> the variable as it is known and coded
  buffer,     \* the unitDataPartsBuffer: <<unit, data part>>
  current, override,   \* state -> option
  hidden,     \* the testlets with locks.show
  lastPut,    \* testState.BOOKLET_STATES, if any
  stateBuffer,  \* the last BOOKLET_STATES and CURRENT_UNIT_ID in the testStateBuffer
  db,         \* what the backend has of the test: [parts, states, unit]
  unit,       \* currentUnitSequenceId
  player,     \* "none", "waiting" for resources, "loading", "ready" or "started"
  former,     \* the unit shown before, whose player may have sent something still to be handled
  loads, changes

vars == <<file, booklet, preset, phase, stored, toLoad, parts, variables, buffer, current, override, hidden,
          lastPut, stateBuffer, db, unit, player, former, loads, changes>>
shown == <<unit, player, former>>
given == <<file, booklet, preset>>

Units == DOMAIN booklet.units
Unit(u) == booklet.units[u]
States == DOMAIN booklet.states
OptionsOf(s) == {o.id : o \in Range(booklet.states[s])}
NoUnit == 0
Conditional == {t \in Range(booklet.testlets) : t.show # None}

(***** Variables **********************************************************)

(* of a unit as the parser describes it: what it knows before anything is loaded *)
HasScheme(d) == d.id \in Schemes
Untold(d) == [x \in d.tracked |-> Unset]
SchemeLoaded(u, queue) == HasScheme(Unit(u)) /\ <<u, "scheme">> \notin Range(queue)

(* updateVariables: what the data part says of the variables that are tracked, and, *)
(* if this is anything new, what the scheme makes of the base variables.            *)
Taken(known, content) == [x \in DOMAIN known |-> IF x \in DOMAIN content THEN content[x] ELSE known[x]]

Coded(d, known) ==
  LET base == DOMAIN known \cap Bases(d.id, d.tracked)
      coded == Code(d.id, [x \in base |-> known[x]])
  IN  [x \in DOMAIN known |-> IF x \in DOMAIN coded THEN coded[x] ELSE known[x]]

Updated(d, known, content, coding) ==
  LET taken == Taken(known, content)
  IN  IF coding /\ taken # known THEN Coded(d, taken) ELSE taken

(* registerIndirectlyTrackedVariables: the base variables, once the scheme is there *)
WithBases(d, known) ==
  [x \in DOMAIN known \cup Bases(d.id, d.tracked) |-> IF x \in DOMAIN known THEN known[x] ELSE Unset]

(* What a unit knows of responses that were there when it was loaded. *)
KnownOf(d, content) ==
  Updated(d, IF HasScheme(d) THEN WithBases(d, Untold(d)) ELSE Untold(d), content, HasScheme(d))

(* A player reports all its variables at once, and a scheme codes again what it has coded: *)
(* what was reported before makes no difference.                                            *)
ASSUME ReportsAssumption ==
  \A f \in BookletFiles : Parse(f) # Invalid =>
    \A d \in Range(Parse(f).units) : \A old \in Content(d.id) \cup {Unanswered}, new \in Content(d.id) :
      Updated(d, KnownOf(d, old), new, HasScheme(d)) = KnownOf(d, new)

(***** States *************************************************************)

(* updateStates: the first option whose conditions are all satisfied, or the last one *)
Matching(options, known) ==
  {i \in DOMAIN options : \A c \in Range(options[i].conditions) : Holds(c, known)}

(* unitAliasMap, getVar: conditions name a unit by its alias *)
ByAlias(known) ==
  [a \in {Unit(u).alias : u \in Units} |-> known[CHOOSE u \in Units : Unit(u).alias = a]]

Evaluated(known) ==
  [s \in States |->
     LET options == booklet.states[s]
         matching == Matching(options, ByAlias(known))
     IN  options[IF matching = {} THEN Len(options) ELSE First(matching)].id]

Effective(cur, over) == [s \in States |-> IF over[s] # None THEN over[s] ELSE cur[s]]

(* updateAllShowLocks *)
HiddenBy(effective) == {t.id : t \in {x \in Conditional : effective[x.show.if] # x.show.is}}

(* a testlet is hidden with everything in it *)
Visible(u, concealed) ==
  LET t == CHOOSE x \in Range(booklet.testlets) : x.id = Unit(u).parent
  IN  ({t.id} \cup Range(t.parents)) \cap concealed = {}

(* Mutant of WithStates: compares with what is stored, not with what was put last. *)
WithStatesUnlessStored(buf, effective) ==
  IF States = {} \/ db.states = {effective} THEN buf ELSE [buf EXCEPT !.states = {effective}]

(* saveConditionsTestState, addToTestStateBuffer: buf, or with the states if they are new *)
WithStates(buf, effective) ==
  IF States = {} \/ lastPut = {effective} THEN buf ELSE [buf EXCEPT !.states = {effective}]

(* onStateOptionChanged, without what it adds to the buffer *)
StateOptionChanged(cur, over) ==
  /\ current' = cur /\ override' = over
  /\ hidden' = HiddenBy(Effective(cur, over))
  /\ lastPut' = IF States = {} THEN {} ELSE {Effective(cur, over)}

(* evaluateConditions *)
EvaluateConditions(known) ==
  /\ StateOptionChanged(Evaluated(known), override)
  /\ stateBuffer' = WithStates(stateBuffer, Effective(Evaluated(known), override))

(***** Loading ************************************************************)

PartOf(responses, u) == IF u \in DOMAIN responses THEN responses[u] ELSE Unanswered
NothingStored == [parts |-> <<>>, states |-> {}, unit |-> NoUnit]
NothingBuffered == [states |-> {}, unit |-> NoUnit]

Init ==
  /\ file \in BookletFiles /\ booklet = Parse(file)
  /\ preset \in IF booklet = Invalid THEN {<<>>} ELSE {p \in Presets : DOMAIN p \subseteq States}
  /\ phase = "off" /\ stored = {} /\ toLoad = <<>> /\ parts = <<>> /\ variables = <<>> /\ buffer = <<>>
  /\ current = <<>> /\ override = <<>> /\ hidden = {}
  /\ lastPut = {} /\ stateBuffer = NothingBuffered
  /\ db = NothingStored
  /\ unit = NoUnit /\ player = "none" /\ former = NoUnit
  /\ loads = 0 /\ changes = 0

(* prepareUnitContentLoadingQueueOrder: from the unit that was shown last, around *)
QueueFrom(u) ==
  LET files == {<<i, "definition">> : i \in Units} \cup
               {<<i, "scheme">> : i \in {w \in Units : HasScheme(Unit(w))}}
      turn(i) == IF i < u THEN i + Len(booklet.units) ELSE i
  IN  InOrder([f \in files |-> 2 * turn(f[1]) + (IF f[2] = "scheme" THEN 0 ELSE 1)])

(* loadUnits, loadUnit: on a first start there is nothing to ask for *)
PartsOnLoading == [u \in Units |-> PartOf(db.parts, u)]

(* loadTest up to loadUnits, the first time or after a reload of the page, which  *)
(* loses what the buffers hold.                                                   *)
LoadTest ==
  /\ phase # "error" /\ loads < MaxLoads /\ loads' = loads + 1
  /\ stored' = db.states
  /\ IF booklet = Invalid
     THEN /\ phase' = "error"
          /\ UNCHANGED <<toLoad, parts, variables, current, override, hidden>>
     ELSE /\ phase' = "loading"
          /\ toLoad' = QueueFrom(db.unit)
          /\ parts' = PartsOnLoading
          /\ variables' = [u \in Units |-> Untold(Unit(u))]
          /\ current' = [s \in States |-> DefaultOf(booklet.states[s])]
          /\ override' = [s \in States |-> IF s \in DOMAIN preset THEN preset[s] ELSE None]
          /\ hidden' = {t.id : t \in Conditional}
  /\ buffer' = <<>> /\ lastPut' = {} /\ stateBuffer' = NothingBuffered
  /\ unit' = NoUnit /\ player' = "none" /\ former' = NoUnit
  /\ UNCHANGED <<given, db, changes>>

(* loadResources: one file after the other; registerIndirectlyTrackedVariables *)
LoadFile ==
  /\ phase \in {"loading", "running"} /\ toLoad # <<>>
  /\ toLoad' = Tail(toLoad)
  /\ LET u == Head(toLoad)[1]
         known == [variables EXCEPT ![u] = Updated(Unit(u), WithBases(Unit(u), @), parts[u], TRUE)]
     IN  IF Head(toLoad)[2] = "scheme"
         THEN variables' = known /\ EvaluateConditions(known)
         ELSE UNCHANGED <<variables, current, override, hidden, lastPut, stateBuffer>>
  /\ UNCHANGED <<given, phase, stored, parts, buffer, db, shown, loads, changes>>

(* Mutant of WaitsForFiles: lazy is lazy. *)
WaitsForFilesEager == booklet.loadingMode = "EAGER"

(* when loadResources resolves: lazy, before anything is loaded - unless there are *)
(* states stored, which can only be computed again with all schemes                 *)
WaitsForFiles == booklet.loadingMode = "EAGER" \/ stored # {}

(* updateVariablesInUnitsWithoutCodingScheme *)
WithoutSchemes ==
  [u \in Units |-> IF HasScheme(Unit(u)) THEN variables[u]
                   ELSE Updated(Unit(u), variables[u], parts[u], FALSE)]

(* loadResources resolves; resumeTest up to "RUNNING" *)
FinishLoading ==
  /\ phase = "loading" /\ (WaitsForFiles => toLoad = <<>>)
  /\ variables' = WithoutSchemes /\ EvaluateConditions(WithoutSchemes)
  /\ phase' = "running"
  /\ UNCHANGED <<given, stored, toLoad, parts, buffer, db, shown, loads, changes>>

(***** The buffers ********************************************************)

(* sortDataParts: one data part per unit, in the order the units came *)
Firsts(buf) == {i \in DOMAIN buf : \A j \in 1..(i - 1) : buf[j][1] # buf[i][1]}

Sorted(buf) ==
  LET order == InOrder([i \in Firsts(buf) |-> i])
      latest(u) == CHOOSE i \in DOMAIN buf : buf[i][1] = u /\ \A j \in (i + 1)..Len(buf) : buf[j][1] # u
  IN  [k \in 1..Cardinality(Firsts(buf)) |-> buf[latest(buf[order[k]][1])]]

(* setupUnitDataPartsBuffer: the variables after all units in the buffer, and whether *)
(* the last of them has changed any - what was found for the others is overwritten.   *)
AfterEach(todo) ==
  LET after[k \in 0..Len(todo)] ==
        IF k = 0 THEN [known |-> variables, changed |-> FALSE]
        ELSE LET u == todo[k][1]
                 before == after[k - 1].known
             IN  [known |-> [before EXCEPT ![u] = Updated(Unit(u), @, todo[k][2], SchemeLoaded(u, toLoad))],
                  changed |-> Taken(before[u], todo[k][2]) # before[u]]
  IN  after[Len(todo)]
AfterBuffer == AfterEach(Sorted(buffer))

CloseDataBuffer ==
  /\ variables' = AfterBuffer.known
  /\ buffer' = <<>>
  /\ IF AfterBuffer.changed THEN StateOptionChanged(Evaluated(AfterBuffer.known), override)
     ELSE UNCHANGED <<current, override, hidden, lastPut>>

(* what this puts into a buffer of the test state *)
WithNewStates(buf) ==
  IF AfterBuffer.changed THEN WithStates(buf, Effective(Evaluated(AfterBuffer.known), override)) ELSE buf

(* what the backend has after the responses in the buffer and the entries of a closed *)
(* testStateBuffer have been sent                                                      *)
PartsStored ==
  [u \in Units |-> IF \E b \in Range(buffer) : b[1] = u THEN parts[u] ELSE PartOf(db.parts, u)]
StateStored(test, buf) ==
  [test EXCEPT !.states = IF buf.states = {} THEN @ ELSE buf.states,
               !.unit = IF buf.unit = NoUnit THEN @ ELSE buf.unit]

(* closeAllBuffers.  The states that the closing of the data buffer puts into the buffer *)
(* of the test state go along, unless that was closed first: the order of the two is     *)
(* that in which they were last opened.                                                  *)
CloseAllBuffers(stateFirst) ==
  /\ CloseDataBuffer
  /\ stateBuffer' = IF stateFirst THEN WithNewStates(NothingBuffered) ELSE NothingBuffered
  /\ db' = StateStored([db EXCEPT !.parts = PartsStored],
                       IF stateFirst THEN stateBuffer ELSE WithNewStates(stateBuffer))

(* the timer of the responses' buffer *)
DataBufferTime ==
  /\ phase = "running" /\ buffer # <<>>
  /\ CloseDataBuffer
  /\ stateBuffer' = WithNewStates(stateBuffer)
  /\ db' = [db EXCEPT !.parts = PartsStored]
  /\ UNCHANGED <<given, phase, stored, toLoad, parts, shown, loads, changes>>

(* the timer of the test state's buffer *)
StateBufferTime ==
  /\ phase \in {"loading", "running"} /\ stateBuffer # NothingBuffered
  /\ stateBuffer' = NothingBuffered
  /\ db' = StateStored(db, stateBuffer)
  /\ UNCHANGED <<given, phase, stored, toLoad, parts, variables, buffer, current, override,
                 hidden, lastPut, shown, loads, changes>>

(***** The testee *********************************************************)

(* Another unit, or the same one again, comes to be shown; its resources may be missing. *)
Open(u) ==
  /\ unit' = u /\ player' = "waiting"
  /\ former' = IF player = "started" THEN unit ELSE former

(* the units that are the next, previous, first or last one of those that are not hidden *)
IsTarget(u, concealed) ==
  LET open == {w \in Units : Visible(w, concealed)}
  IN  /\ u \in open /\ u # unit
      /\ \/ \A w \in open : w <= u
         \/ \A w \in open : w >= u
         \/ ~\E w \in open : (unit < w /\ w < u) \/ (u < w /\ w < unit)

(* Mutant of Turn: the targets are computed before the buffers are closed. *)
TurnByOldStates(u) ==
  /\ phase = "running" /\ unit # NoUnit
  /\ IsTarget(u, hidden)
  /\ \E stateFirst \in BOOLEAN : CloseAllBuffers(stateFirst)
  /\ Open(u)
  /\ UNCHANGED <<given, phase, stored, toLoad, parts, loads, changes>>

(* A navigation to the next, previous, first or last unit closes the buffers first, *)
(* and the target is taken from the navigation state afterwards.                    *)
Turn(u) ==
  /\ phase = "running" /\ unit # NoUnit
  /\ \E stateFirst \in BOOLEAN : CloseAllBuffers(stateFirst)
  /\ IsTarget(u, hidden')
  /\ Open(u)
  /\ UNCHANGED <<given, phase, stored, toLoad, parts, loads, changes>>

(* the resources of a unit's testlet and all in it: unitBlockResourcesLoaded$ *)
BlockLoaded(u) ==
  \A f \in Range(toLoad) :
    ~\E t \in Range(booklet.testlets) :
       t.id = Unit(u).parent /\ (Unit(f[1]).parent = t.id \/
         \E x \in Range(booklet.testlets) : x.id = Unit(f[1]).parent /\ t.id \in Range(x.parents))

(* UnitActivateGuard: instead of a hidden unit the next one that is not, if there is any *)
Admitted(u) ==
  LET later == {w \in Units : w > u /\ Visible(w, hidden)}
  IN  IF Visible(u, hidden) \/ later = {} THEN u ELSE CHOOSE w \in later : \A x \in later : w <= x

(* resumeTest: the first unit to be shown is the one that was shown last, as soon as *)
(* its block is loaded                                                                *)
Resume(u) == u = (IF db.unit = NoUnit THEN 1 ELSE db.unit) /\ BlockLoaded(u)

(* A navigation to a certain unit, from the menu, a command or after a reload, does *)
(* not close the buffers: the guard decides by the states as they are.              *)
Jump(u) ==
  /\ phase = "running"
  /\ unit = NoUnit => Resume(u)
  /\ Open(Admitted(u))
  /\ UNCHANGED <<given, phase, stored, toLoad, parts, variables, buffer, current, override,
                 hidden, lastPut, stateBuffer, db, loads, changes>>

(* prepareUnit, runUnit *)
PrepareUnit ==
  /\ player = "waiting" /\ BlockLoaded(unit)
  /\ player' = "loading"
  /\ stateBuffer' = [stateBuffer EXCEPT !.unit = unit]
  /\ UNCHANGED <<given, phase, stored, toLoad, parts, variables, buffer, current, override,
                 hidden, lastPut, db, unit, former, loads, changes>>

(* Mutant of StartPlayer: the player is started at once. *)
StartPlayerAtOnce ==
  /\ player = "ready" /\ player' = "started" /\ former' = NoUnit
  /\ UNCHANGED <<given, phase, stored, toLoad, parts, variables, buffer, current, override,
                 hidden, lastPut, stateBuffer, db, unit, loads, changes>>

(* handleReadyNotification: when the player reports, the buffers are closed ... *)
PlayerReady ==
  /\ player = "loading" /\ player' = "ready"
  /\ UNCHANGED <<given, phase, stored, toLoad, parts, variables, buffer, current, override,
                 hidden, lastPut, stateBuffer, db, unit, former, loads, changes>>

(* ... and it is started if it is still there *)
StartPlayer ==
  /\ player = "ready" /\ player' = "started" /\ former' = NoUnit
  /\ \E stateFirst \in BOOLEAN : CloseAllBuffers(stateFirst)
  /\ UNCHANGED <<given, phase, stored, toLoad, parts, unit, loads, changes>>

(* AddToUnitStateDataPartsBuffer: what is new is kept and buffered *)
Reported(u, content) ==
  /\ parts[u] # content
  /\ parts' = [parts EXCEPT ![u] = content]
  /\ buffer' = Append(buffer, <<u, content>>)

(* handleStateChangedNotification: what the player reports, or the one before it, as   *)
(* long as this one has not reported itself                                            *)
StateChanged(u, content) ==
  /\ phase = "running" /\ changes < MaxChanges
  /\ (u = unit /\ player = "started") \/ (u = former /\ player \in {"waiting", "loading"})
  /\ content \in Content(Unit(u).id) /\ Reported(u, content)
  /\ changes' = changes + 1
  /\ UNCHANGED <<given, phase, stored, toLoad, variables, current, override, hidden,
                 lastPut, stateBuffer, db, shown, loads>>

(* the select field of a state in the menu of the units *)
SetOverride(s, option) ==
  /\ MayOverride /\ phase = "running" /\ changes < MaxChanges
  /\ option \in OptionsOf(s) /\ override[s] # option
  /\ StateOptionChanged(current, [override EXCEPT ![s] = option])
  /\ stateBuffer' = WithStates(stateBuffer, Effective(current, override'))
  /\ changes' = changes + 1
  /\ UNCHANGED <<given, phase, stored, toLoad, parts, variables, buffer, db, shown, loads>>

(***** Next and Spec ******************************************************)

Next ==
  \/ LoadTest \/ LoadFile \/ FinishLoading
  \/ DataBufferTime \/ StateBufferTime
  \/ PrepareUnit \/ PlayerReady \/ StartPlayer
  \/ phase = "running" /\ \E u \in Units : Turn(u) \/ Jump(u)
  \/ phase = "running" /\ \E u \in Units : \E content \in Content(Unit(u).id) : StateChanged(u, content)
  \/ phase = "running" /\ \E s \in States : \E option \in OptionsOf(s) : SetOverride(s, option)

Spec == Init /\ [][Next]_vars

(***** Properties *********************************************************)

(* What the states are by the responses alone, with every scheme at hand. *)
VariablesOf(responses) == [u \in Units |-> KnownOf(Unit(u), PartOf(responses, u))]
ByResponses(responses) == Evaluated(VariablesOf(responses))

(* Type invariant. *)
TypeOK ==
  /\ phase \in {"off", "loading", "running", "error"}
  /\ booklet = Invalid => phase \in {"off", "error"}
  /\ phase \in {"loading", "running"} =>
       /\ unit \in Units \cup {NoUnit} /\ former \in Units \cup {NoUnit}
       /\ \A s \in States : current[s] \in OptionsOf(s)
       /\ \A s \in States : override[s] \in OptionsOf(s) \cup {None} \cup {preset[x] : x \in {s} \cap DOMAIN preset}
       /\ hidden \subseteq {t.id : t \in Conditional}
       /\ \A b \in Range(buffer) : b[1] \in Units
  /\ player \in {"none", "waiting", "loading", "ready", "started"}
  /\ loads \in 0..MaxLoads /\ changes \in 0..MaxChanges

(* As soon as everything is loaded and no response waits in the buffer, the states are  *)
(* those that the responses imply: evaluating piece by piece, in the order in which       *)
(* schemes and responses arrive, comes to the same.                                       *)
StatesFollowResponses ==
  phase = "running" /\ toLoad = <<>> /\ buffer = <<>> => current = ByResponses(parts)

(* A testlet is shown if and only if its state has the option it asks for, chosen by     *)
(* hand, preset or computed (updateAllShowLocks).                                         *)
HiddenAsDecided ==
  phase = "running" => hidden = HiddenBy(Effective(current, override))

(* The states are those of the variables as they are known, at any time: although only   *)
(* the result for the last unit of a closed buffer counts (setupUnitDataPartsBuffer),     *)
(* no change is overlooked ...                                                             *)
StatesAreEvaluated == phase = "running" => current = Evaluated(variables)

(* ... since all responses in the buffer are of one unit: the one shown, once its player  *)
(* is started, and before that the one shown last.                                         *)
BufferIsOfOneUnit ==
  \A b \in Range(buffer) : b[1] = IF player = "started" THEN unit ELSE former

(* Responses decide the states, and the states decide what is shown.                     *)
BranchFollowsResponses ==
  TypeOK /\ StatesFollowResponses /\ StatesAreEvaluated /\ BufferIsOfOneUnit /\ HiddenAsDecided

(* Unless new ones wait in the buffer, the backend - and with it the group monitor - has  *)
(* the states that are in effect, although entries that repeat the last one are not sent. *)
StoredStatesAreCurrent ==
  phase = "running" /\ States # {} /\ stateBuffer.states = {} =>
    db.states = {Effective(current, override)}

(* When a test that has states is continued, it is in the branch that the stored           *)
(* responses lead to, also if it is loaded lazily (docs/CHANGELOG.md:513).                 *)
ReloadKeepsBranch ==
  [][phase = "loading" /\ phase' = "running" /\ stored # {} =>
       current' = ByResponses(db.parts)]_vars

(* Who turns to another unit gets one that is shown according to all that was answered     *)
(* before, also if it waits in the buffer.                                                  *)
TurnsFollowResponses ==
  [][phase = "running" /\ toLoad = <<>> /\ unit' # unit => \A u \in Units : Turn(u) =>
       Visible(u, HiddenBy(Effective(ByResponses(parts), override)))]_vars
==============================================================================
