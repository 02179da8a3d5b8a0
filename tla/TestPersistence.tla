--------------------------- MODULE TestPersistence ---------------------------
(***************************************************************************)
(* The way of states and responses from the tab of a testee into the       *)
(* database: three buffers that are flushed by their own timers or all at  *)
(* once, requests that run side by side and are repeated when they fail,   *)
(* and the merge of each request into what is stored.                      *)
(*                                                                         *)
(* A cell is one stored value: a key of the test state, a key of the state *)
(* of a unit, or a data part of a unit.  Contents are numbers in the order *)
(* in which the tab took them up, so a lower one is earlier in a buffer or *)
(* a request; 0 is none; Lost and Polling are written by the backend.      *)
(***************************************************************************)
EXTENDS Integers

CONSTANTS
  Units,        \* units by alias
  TestKeys,     \* keys of the test state besides CONNECTION
  UnitKeys,     \* keys of the state of a unit
  Parts,        \* data parts of a unit
  NoUnit,       \* stands for the unit in a cell of the test state
  MaxPuts,      \* bound: contents taken up
  MaxTries,     \* attempts per request (RetryInterceptor)
  MaxTroubles   \* bound: lost requests or answers, signals of a lost connection, reloads

ASSUME CountsAssumption == {MaxPuts, MaxTroubles} \subseteq Nat /\ MaxTries \in Nat \ {0}
ASSUME NoUnitAssumption == NoUnit \notin Units
ASSUME TestKeysAssumption == TestKeys # {}

VARIABLES
  clock,      \* Date.now() of the browser
  puts,       \* contents taken up so far, the number of the next one
  local,      \* what the tab holds of each cell, and compares new content with
  buffer,     \* entries of each buffer
  requests,   \* requests that are not answered yet
  flushes,    \* flushes so far; they name the closing signals
  tab,        \* "open", "ending" (terminateTest waits) or "left"
  closing,    \* the flush terminateTest waits for
  failed,     \* flushes with a request that failed for good
  db,         \* the tables tests, units and unit_data
  troubles,   \* mishaps so far
  givenUp     \* history: cells whose content of the tab is known to be lost

vars == <<clock, puts, local, buffer, requests, flushes, tab, closing, failed, db,
          troubles, givenUp>>

Channels == {"test", "unit", "data"}
Connection == "CONNECTION"
Lost == -1
Polling == -2
Contents == {Lost, Polling} \cup Nat

Cells == [ch : {"test"}, unit : {NoUnit}, key : TestKeys \cup {Connection}]
           \cup [ch : {"unit"}, unit : Units, key : UnitKeys]
           \cup [ch : {"data"}, unit : Units, key : Parts]

Nobody == 0     \* the flush of a request the backend makes of itself
NoRead == [val |-> [c \in {} |-> 0], ts |-> [c \in {} |-> 0]]

(* The cells that one request replaces together. *)
Object(ch, u) == {c \in Cells : c.ch = ch /\ c.unit = u}

CellOf(r, entry) == [ch |-> r.ch, unit |-> r.unit, key |-> entry.key]
CellsOf(r) == {CellOf(r, e) : e \in r.entries}

NewRequest(ch, u, entries, flush) ==
  [ch |-> ch, unit |-> u, entries |-> entries, flush |-> flush, stage |-> "sent", tries |-> 1,
   seen |-> NoRead, own |-> flush # Nobody]

------------------------------------------------------------------------------
(* The tab *)

(* A unit may have its row already: a review of it makes one (addUnitReview). *)
Init ==
  /\ clock = 1
  /\ puts = 0
  /\ local = [c \in Cells |-> 0]
  /\ buffer = [ch \in Channels |-> {}]
  /\ requests = {}
  /\ flushes = 0
  /\ tab = "open"
  /\ closing = Nobody
  /\ failed = {}
  /\ \E reviewed \in SUBSET Units :
       db = [val |-> [c \in Cells |-> 0], ts |-> [c \in Cells |-> 0], rows |-> reviewed, locked |-> FALSE]
  /\ troubles = 0
  /\ givenUp = {}

(* The clock may or may not have moved on since the last content. *)
TimePasses == \E d \in {0, 1} : clock' = clock + d

(* New content is kept and put into its buffer with the time.              *)
(* Content the tab holds already is not put at all and needs no step.      *)
Taken(c, content) ==
  /\ local' = [local EXCEPT ![c] = content]
  /\ buffer' = [buffer EXCEPT ![c.ch] =
                 @ \cup {[unit |-> c.unit, key |-> c.key, val |-> content, ts |-> clock']}]

AddToBuffer(c) ==
  /\ tab # "left"
  /\ puts < MaxPuts
  /\ TimePasses
  /\ puts' = puts + 1
  /\ Taken(c, puts')
  /\ givenUp' = givenUp \ {c}
  /\ UNCHANGED <<requests, flushes, tab, closing, failed, db, troubles>>

(* One request per unit with all its entries; of a data part only the last *)
(* content is kept, and the time is that of the request.                   *)
EntriesOf(ch, u, now) ==
  LET mine == {e \in buffer[ch] : e.unit = u}
      last == {e \in mine : \A f \in mine : f.key = e.key => f.val <= e.val}
  IN  IF ch = "data"
      THEN {[key |-> e.key, val |-> e.val, ts |-> now] : e \in last}
      ELSE {[key |-> e.key, val |-> e.val, ts |-> e.ts] : e \in mine}

(* The requests a flush of one buffer makes.  States of units are sent one *)
(* after the other (concatMap), so all but one wait.                       *)
Flushed(ch, flush, now) ==
  LET first(u) == \E e \in buffer[ch] : e.unit = u /\ \A f \in buffer[ch] : e.val <= f.val
  IN  {[NewRequest(ch, u, EntriesOf(ch, u, now), flush) EXCEPT
          !.stage = IF ch = "unit" /\ ~first(u) THEN "queued" ELSE "sent"] :
         u \in {e.unit : e \in buffer[ch]}}

(* bufferWhen: the timer of one buffer. *)
TimedFlushClosingAll(ch) ==
  /\ buffer[ch] # {}
  /\ flushes' = flushes + 1
  /\ requests' = requests \cup Flushed(ch, flushes', clock)
  /\ buffer' = [c \in Channels |-> {}]
  /\ UNCHANGED <<clock, puts, local, tab, closing, failed, db, troubles, givenUp>>

TimedFlush(ch) ==
  /\ buffer[ch] # {}
  /\ flushes' = flushes + 1
  /\ requests' = requests \cup Flushed(ch, flushes', clock)
  /\ buffer' = [buffer EXCEPT ![ch] = {}]
  /\ UNCHANGED <<clock, puts, local, tab, closing, failed, db, troubles, givenUp>>

FlushAll ==
  /\ flushes' = flushes + 1
  /\ requests' = requests \cup UNION {Flushed(ch, flushes', clock) : ch \in Channels}
  /\ buffer' = [ch \in Channels |-> {}]

(* A navigation or a player that is ready closes all buffers; what it      *)
(* waits for are the events of the closing itself, not the answers.        *)
CloseAllBuffers ==
  /\ tab # "left"
  /\ \E ch \in Channels : buffer[ch] # {}
  /\ FlushAll
  /\ UNCHANGED <<clock, puts, local, tab, closing, failed, db, troubles, givenUp>>

(* terminateTest: the state TERMINATED is put as any other content (see    *)
(* AddToBuffer); then all buffers are closed and the answers awaited.      *)
TerminateTest ==
  /\ tab = "open"
  /\ FlushAll
  /\ tab' = "ending"
  /\ closing' = flushes'
  /\ UNCHANGED <<clock, puts, local, failed, db, troubles, givenUp>>

Unfailed(flush) == flush \notin failed

(* All three 'saved' events of that closing have come: a request that      *)
(* failed has emitted none, and requests of other flushes do not count.    *)
Saved(flush) == flush \notin failed /\ \A r \in requests : r.flush # flush

LeaveTest ==
  /\ tab = "ending"
  /\ Saved(closing)
  /\ \E lock \in BOOLEAN : db' = [db EXCEPT !.locked = @ \/ lock]
  /\ tab' = "left"
  /\ UNCHANGED <<clock, puts, local, buffer, requests, flushes, closing, failed, troubles, givenUp>>

(* A reload, or the next opening: the tab begins with what is stored, what *)
(* is in the buffers is lost, and nobody waits for the requests under way. *)
(* Of the test state nothing is kept to compare new content with.          *)
LoadTest ==
  /\ troubles < MaxTroubles
  /\ ~db.locked
  /\ troubles' = troubles + 1
  /\ local' = [c \in Cells |-> IF c.ch = "test" THEN 0 ELSE db.val[c]]
  /\ buffer' = [ch \in Channels |-> {}]
  /\ requests' = {[r EXCEPT !.own = FALSE, !.tries = 1] :
                    r \in {q \in requests : q.stage \in {"sent", "read"}}}
  /\ tab' = "open"
  /\ closing' = Nobody
  /\ failed' = {}
  /\ givenUp' = {}
  /\ UNCHANGED <<clock, puts, flushes, db>>

------------------------------------------------------------------------------
(* The backend.  A state is read, merged and written by statements of      *)
(* their own, without a transaction; between them other requests act.      *)

(* An entry counts if it is newer than what was merged for its key before, *)
(* so the newest one does, and of equally new ones the first.              *)
EffectiveInAnyOrder(r, c, old) ==
  {e \in r.entries : /\ e.key = c.key
                     /\ \A f \in r.entries : f.key = e.key => f.val <= e.val}

Effective(r, c, old) ==
  {e \in r.entries : /\ e.key = c.key
                     /\ e.ts > old.ts[c]
                     /\ \A f \in r.entries : f.key = e.key => f.ts < e.ts \/ (f.ts = e.ts /\ f.val >= e.val)}

ApplyPatch(r, old) ==
  LET winner(c) == CHOOSE e \in Effective(r, c, old) : TRUE
      kept(c) == Effective(r, c, old) = {}
  IN  [val |-> [c \in DOMAIN old.val |-> IF kept(c) THEN old.val[c] ELSE winner(c).val],
       ts |-> [c \in DOMAIN old.ts |-> IF kept(c) THEN old.ts[c] ELSE winner(c).ts]]

(* Of the test state no times are stored, so each request begins at 0. *)
Stored(ch, u) ==
  [val |-> [c \in Object(ch, u) |-> db.val[c]],
   ts |-> [c \in Object(ch, u) |-> IF ch = "test" THEN 0 ELSE db.ts[c]]]

(* What is stored after the merge; the times of the test state are not.    *)
Replaced(ch, new) ==
  LET put(f, part) == [c \in Cells |-> IF c \in DOMAIN part THEN part[c] ELSE f[c]]
  IN  [db EXCEPT !.val = put(@, new.val), !.ts = IF ch = "test" THEN @ ELSE put(@, new.ts)]

(* History: contents that a request takes back or, behind the back of the  *)
(* tab, puts in their place, and those of its own it does not store because*)
(* another one has the same time.                                          *)
Disturbed(r, new) == {c \in DOMAIN new.val : new.val[c] # db.val[c] /\ (~r.own \/ new.val[c] < db.val[c])}
Tied(r, new) == {c \in CellsOf(r) : \E e \in r.entries :
                   e.key = c.key /\ e.ts = new.ts[c] /\ e.val # new.val[c]}

(* updateTestState and updateUnitState: the first statement. *)
ReadState(r) ==
  /\ r.ch # "data"
  /\ r.stage = "sent"
  /\ requests' = (requests \ {r}) \cup {[r EXCEPT !.stage = "read", !.seen = Stored(r.ch, r.unit)]}
  /\ UNCHANGED <<clock, puts, local, buffer, flushes, tab, closing, failed, db, troubles, givenUp>>

Answered(r) ==
  requests' = (requests \ {r}) \cup
                IF r.own THEN {[r EXCEPT !.stage = "answered", !.seen = NoRead]} ELSE {}

(* The second statement; the row of a unit is made if it is missing. *)
WriteState(r) ==
  LET new == ApplyPatch(r, r.seen)
  IN  /\ r.stage = "read"
      /\ db' = [Replaced(r.ch, new) EXCEPT !.rows = IF r.ch = "unit" THEN @ \cup {r.unit} ELSE @]
      /\ givenUp' = givenUp \cup Disturbed(r, new) \cup Tied(r, new)
      /\ Answered(r)
      /\ UNCHANGED <<clock, puts, local, buffer, flushes, tab, closing, failed, troubles>>

(* updateDataParts: a single statement per part, which compares the times. *)
WriteDataParts(r) ==
  LET new == ApplyPatch(r, Stored("data", r.unit))
  IN  /\ r.ch = "data"
      /\ r.stage = "sent"
      /\ r.unit \in db.rows
      /\ db' = Replaced("data", new)
      /\ givenUp' = givenUp \cup Disturbed(r, new) \cup Tied(r, new)
      /\ Answered(r)
      /\ UNCHANGED <<clock, puts, local, buffer, flushes, tab, closing, failed, troubles>>

(* The backend takes down that a connection is lost, when the broadcaster  *)
(* or a dying page says so and it is not marked already (postConnectionLost)*)
(* or that the tab polls again, when commands are fetched (getCommands);    *)
(* the reading of the session and that of the state are one step here.     *)
SetConnection ==
  /\ troubles < MaxTroubles
  /\ troubles' = troubles + 1
  /\ \E lost \in BOOLEAN :
       /\ (db.val[[ch |-> "test", unit |-> NoUnit, key |-> Connection]] = Lost) # lost
       /\ requests' = requests \cup
            {[NewRequest("test", NoUnit,
                         {[key |-> Connection, val |-> IF lost THEN Lost ELSE Polling, ts |-> 0]}, Nobody)
                EXCEPT !.stage = "read", !.seen = Stored("test", NoUnit)]}
  /\ UNCHANGED <<clock, puts, local, buffer, flushes, tab, closing, failed, db, givenUp>>

------------------------------------------------------------------------------
(* Answers *)

(* The next state of a unit of the same flush is sent (concatMap). *)
Receive(r) ==
  LET waiting == {q \in requests : q.ch = r.ch /\ q.flush = r.flush /\ q.stage = "queued"}
  IN  /\ r.own
      /\ r.stage = "answered"
      /\ IF waiting = {}
         THEN requests' = requests \ {r}
         ELSE \E q \in waiting : requests' = (requests \ {r, q}) \cup {[q EXCEPT !.stage = "sent"]}
      /\ UNCHANGED <<clock, puts, local, buffer, flushes, tab, closing, failed, db, troubles, givenUp>>

(* A request is repeated as it is. *)
RepeatWithoutEnd(r) ==
  /\ requests' = (requests \ {r}) \cup {[r EXCEPT !.stage = "sent"]}
  /\ UNCHANGED <<clock, puts, local, buffer, failed, givenUp>>

Repeat(r) ==
  /\ r.tries < MaxTries
  /\ requests' = (requests \ {r}) \cup {[r EXCEPT !.stage = "sent", !.tries = @ + 1]}
  /\ UNCHANGED <<clock, puts, local, buffer, failed, givenUp>>

(* After the last attempt the observable fails.  concatMap and forkJoin    *)
(* drop what waits beside it, no 'saved' is emitted, and the page of the   *)
(* test puts the state ERROR (errorOut) while it is shown.                 *)
Fail(r) ==
  LET given == {q \in requests : q.ch = r.ch /\ q.flush = r.flush /\ q.own}
      erring == [ch |-> "test", unit |-> NoUnit, key |-> CHOOSE k \in TestKeys : TRUE]
  IN  /\ r.tries >= MaxTries
      /\ requests' = (requests \ given) \cup
                       {[q EXCEPT !.own = FALSE] : q \in {x \in given \ {r} : x.stage \in {"sent", "read"}}}
      /\ failed' = failed \cup {r.flush}
      /\ givenUp' = (givenUp \cup UNION {CellsOf(q) : q \in given})
                      \ (IF tab = "left" THEN {} ELSE {erring})
      /\ IF tab = "left"
         THEN UNCHANGED <<clock, puts, local, buffer>>
         ELSE TimePasses /\ puts' = puts + 1 /\ Taken(erring, puts')

(* The request or its answer is lost, or the backend refuses data parts of *)
(* a unit that has no row yet.                                             *)
Refused(r) == r.ch = "data" /\ r.stage = "sent" /\ r.unit \notin db.rows

NetworkError(r) ==
  /\ r.own
  /\ r.stage \in {"sent", "answered"}
  /\ IF Refused(r) THEN troubles' = troubles ELSE troubles < MaxTroubles /\ troubles' = troubles + 1
  /\ Repeat(r) \/ Fail(r)
  /\ UNCHANGED <<flushes, tab, closing, db>>

------------------------------------------------------------------------------
Next ==
  \/ \E c \in Cells : AddToBuffer(c)
  \/ \E ch \in Channels : TimedFlush(ch)
  \/ CloseAllBuffers
  \/ TerminateTest
  \/ LeaveTest
  \/ LoadTest
  \/ SetConnection
  \/ \E r \in requests :
       \/ ReadState(r)
       \/ WriteState(r)
       \/ WriteDataParts(r)
       \/ Receive(r)
       \/ NetworkError(r)

Spec == Init /\ [][Next]_vars

(* Requests reach the backend, statements are carried out, answers arrive  *)
(* unless they are lost, and the promise of terminateTest goes on.         *)
Fairness ==
  /\ WF_vars(\E r \in requests :
       ReadState(r) \/ WriteState(r) \/ WriteDataParts(r) \/ Receive(r) \/ (Refused(r) /\ NetworkError(r)))
  /\ WF_vars(LeaveTest)

LiveSpec == Spec /\ Fairness

------------------------------------------------------------------------------
Stages == {"queued", "sent", "read", "answered"}
Keys == {c.key : c \in Cells}
Entry == [unit : Units \cup {NoUnit}, key : Keys, val : Contents, ts : Nat]
ReadOf(ch, u) == [val : [Object(ch, u) -> Contents], ts : [Object(ch, u) -> Nat]]
RequestOf(ch, u) == [ch : {ch}, unit : {u},
                     entries : SUBSET [key : {c.key : c \in Object(ch, u)}, val : Contents, ts : Nat],
                     flush : Nat, stage : Stages, tries : 1 .. MaxTries, own : BOOLEAN,
                     seen : {NoRead} \cup ReadOf(ch, u)]

(* Types; requests name cells of their object, and what the backend has    *)
(* read for those that are going to be merged is that object.              *)
TypeOK ==
  /\ clock \in Nat \ {0} /\ puts \in Nat /\ flushes \in Nat
  /\ local \in [Cells -> Contents]
  /\ buffer \in [Channels -> SUBSET Entry]
  /\ \A ch \in Channels : \A e \in buffer[ch] : [ch |-> ch, unit |-> e.unit, key |-> e.key] \in Cells
  /\ \A r \in requests : /\ r.ch \in Channels /\ r.unit \in IF r.ch = "test" THEN {NoUnit} ELSE Units
                         /\ r \in RequestOf(r.ch, r.unit)
                         /\ r.own => r.flush # Nobody
                         /\ r.stage = "read" => r.ch # "data" /\ r.seen \in ReadOf(r.ch, r.unit)
  /\ tab \in {"open", "ending", "left"} /\ closing \in 0 .. flushes /\ failed \subseteq Nat
  /\ db \in [val : [Cells -> Contents], ts : [Cells -> Nat], rows : SUBSET Units, locked : BOOLEAN]
  /\ troubles \in Nat
  /\ givenUp \subseteq Cells

Buffered(c) == \E e \in buffer[c.ch] : e.unit = c.unit /\ e.key = c.key /\ e.val = local[c]
OnTheWay(c) == \E r \in requests :
                 r.own /\ \E e \in r.entries : CellOf(r, e) = c /\ e.val = local[c]

(* What the tab holds of a state or response is stored, or it is still in  *)
(* a buffer or in a request, unless one of four things happened to it: the *)
(* request failed for good, an entry of the same key had the same          *)
(* millisecond, a request that had read the state earlier wrote over it,   *)
(* or one the tab does not know of did: the backend's own, or one from     *)
(* before a reload.  The tab never sends it again.                         *)
NothingVanishes ==
  \A c \in Cells : local[c] # 0 =>
    db.val[c] = local[c] \/ Buffered(c) \/ OnTheWay(c) \/ c \in givenUp

(* Whatever is repeated, overtaken or loaded anew: the stored content of a *)
(* data part is only replaced by one the tabs took up later, though the    *)
(* upsert compares nothing but the times of the requests.                  *)
Responses == {c \in Cells : c.ch = "data"}
Store == INSTANCE ResponseStore WITH Places <- Responses, taken <- puts,
                                     stored <- [c \in Responses |-> db.val[c]]
ResponsesNeverGoBack == Store!Spec

(* A testee who ends the test loses no response on the way out: when the   *)
(* page is left, each one the tab held is stored, or a flush that came     *)
(* before the closing still carries it, or it was given up.  Only what was *)
(* taken up while the closing was awaited may still be in the buffer.      *)
ResponsesLeaveWithTestee ==
  [][tab = "ending" /\ tab' = "left" =>
       \A c \in Cells : c.ch = "data" /\ ~Buffered(c) /\ local[c] # 0 /\ c \notin givenUp =>
         \/ db.val[c] = local[c]
         \/ \E r \in requests : r.own /\ r.flush # closing /\ c \in CellsOf(r)]_vars

(* A test that is being ended is left unless a request of its closing      *)
(* failed, whatever else is repeated or refused, or it is loaded anew.     *)
EndingComesToAnEnd == tab = "ending" ~> (tab # "ending" \/ closing \in failed)
==============================================================================
