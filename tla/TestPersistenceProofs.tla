------------------------ MODULE TestPersistenceProofs ------------------------
(* No content is lost but for the known reasons, and the responses stored  *)
(* never go back, for any number of units, keys, contents and attempts.    *)
EXTENDS TestPersistence, TLAPS, WellFoundedInduction

------------------------------------------------------------------------------
(* The inductive invariant *)

(* Contents with their times: those waiting in a buffer, and those on the  *)
(* way or stored.  Of the test state no times are stored.  The backend's   *)
(* own contents have the time 0 and are never merged.                      *)
Version(x) == [val |-> x.val, ts |-> x.ts]
Waiting(c) == {Version(e) : e \in {x \in buffer[c.ch] : x.unit = c.unit /\ x.key = c.key}}
Carried(r, c) ==
  IF r.ch = c.ch /\ r.unit = c.unit
  THEN {Version(e) : e \in {x \in r.entries : x.key = c.key /\ x.ts > 0}}
         \cup (IF r.stage = "read" /\ c.ch = "unit" THEN {[val |-> r.seen.val[c], ts |-> r.seen.ts[c]]} ELSE {})
  ELSE {}
StoredVersions(c) == IF c.ch = "test" THEN {} ELSE {[val |-> db.val[c], ts |-> db.ts[c]]}
Past(c) == StoredVersions(c) \cup UNION {Carried(r, c) : r \in requests}

(* A version of a later time has not been taken up earlier. *)
Ordered(V) == \A v, w \in V : v.ts < w.ts => v.val <= w.val

Versions ==
  \A c \in Cells :
    /\ \A v \in Past(c) \cup Waiting(c) : v.ts <= clock /\ v.val <= puts
    /\ Ordered(Past(c) \cup Waiting(c))
    /\ \A v \in Past(c), w \in Waiting(c) : v.val <= w.val

Bounded ==
  \A c \in Cells :
    /\ local[c] <= puts /\ db.val[c] <= puts
    /\ \A r \in requests : r.stage = "read" /\ c \in Object(r.ch, r.unit) =>
         r.seen.val[c] <= puts /\ (r.ch = "test" => r.seen.ts[c] = 0)

(* Only the backend dates contents with 0. *)
Dated ==
  /\ \A ch \in Channels : \A b \in buffer[ch] : b.ts > 0
  /\ \A r \in requests : r.own => \A e \in r.entries : e.ts > 0

(* The tab holds the newest content of a cell, unless it was given up, and *)
(* what has been answered is stored.                                       *)
HeldBy(r, c) ==
  r.own /\ r.ch = c.ch /\ r.unit = c.unit =>
    /\ \A e \in r.entries : e.key = c.key => e.val <= local[c]
    /\ r.stage = "read" => r.seen.val[c] <= local[c]
    /\ r.stage = "answered" /\ (\E e \in r.entries : e.key = c.key /\ e.val = local[c])
         => db.val[c] = local[c]
Held(c) ==
  /\ db.val[c] <= local[c]
  /\ \A r \in requests : HeldBy(r, c)
Holding ==
  \A c \in Cells :
    /\ \A w \in Waiting(c) : w.val <= local[c]
    /\ local[c] # 0 /\ c \notin givenUp => Held(c)

Inv == TypeOK /\ Versions /\ Bounded /\ Dated /\ Holding /\ NothingVanishes

------------------------------------------------------------------------------
(* Cells and requests *)

LEMMA CellFields ==
  ASSUME NEW c \in Cells
  PROVE  /\ c.ch \in Channels /\ c.unit \in Units \cup {NoUnit} /\ c.key \in Keys
         /\ c = [ch |-> c.ch, unit |-> c.unit, key |-> c.key]
         /\ c \in Object(c.ch, c.unit)
BY DEF Cells, Channels, Keys, Object

LEMMA ContentsAreIntegers == Contents \subseteq Int /\ Nat \subseteq Contents /\ Lost \in Contents /\ Polling \in Contents
BY DEF Contents, Lost, Polling

(* Entries of a request name cells of its object. *)
LEMMA EntryCell ==
  ASSUME NEW r, r.ch \in Channels, r.unit \in Units \cup {NoUnit}, r \in RequestOf(r.ch, r.unit),
         NEW e \in r.entries
  PROVE  /\ e.key \in Keys /\ e.val \in Contents /\ e.ts \in Nat
         /\ CellOf(r, e) \in Cells /\ CellOf(r, e) \in Object(r.ch, r.unit)
         /\ CellOf(r, e).ch = r.ch /\ CellOf(r, e).unit = r.unit /\ CellOf(r, e).key = e.key
<1>1. r.entries \subseteq [key : {c.key : c \in Object(r.ch, r.unit)}, val : Contents, ts : Nat]
  BY DEF RequestOf
<1>2. PICK c \in Object(r.ch, r.unit) : e.key = c.key
  BY <1>1
<1>3. c \in Cells /\ c.ch = r.ch /\ c.unit = r.unit
  BY <1>2 DEF Object
<1>4. CellOf(r, e) = c
  BY <1>2, <1>3, CellFields DEF CellOf
<1> QED
  BY <1>1, <1>2, <1>3, <1>4, CellFields

(* What a request may turn into without the backend: it keeps what it      *)
(* carries and is owned or answered only if it was.                        *)
Turned(q, r) ==
  /\ q.ch = r.ch /\ q.unit = r.unit /\ q.entries = r.entries
  /\ q.stage = "read" => r.stage = "read" /\ q.seen = r.seen
  /\ q.own => r.own
  /\ q.stage = "answered" => r.stage = "answered"

LEMMA TurnedRequests ==
  ASSUME Versions, Bounded, \A q \in requests' : \E r \in requests : Turned(q, r),
         UNCHANGED <<clock, puts, local, buffer, db>>,
         TypeOK
  PROVE  /\ Versions' /\ Bounded'
         /\ \A c \in Cells : Held(c) => Held(c)'
         /\ \A c \in Cells : Waiting(c)' = Waiting(c)
<1>1. ASSUME NEW c \in Cells, NEW q \in requests', NEW r \in requests, Turned(q, r)
      PROVE  Carried(q, c) \subseteq Carried(r, c)
  BY <1>1 DEF Turned, Carried
<1>2. ASSUME NEW c \in Cells PROVE Past(c)' \subseteq Past(c) /\ Waiting(c)' = Waiting(c)
  <2>1. \A q \in requests' : Carried(q, c)' = Carried(q, c)
    BY DEF Carried
  <2>2. StoredVersions(c)' = StoredVersions(c) /\ Waiting(c)' = Waiting(c)
    BY DEF StoredVersions, Waiting
  <2>3. UNION {Carried(q, c) : q \in requests'} \subseteq UNION {Carried(r, c) : r \in requests}
    BY <1>1
  <2> QED
    BY <2>1, <2>2, <2>3 DEF Past
<1>3. Versions'
  BY <1>2 DEF Versions, Ordered
<1>4. Bounded'
  BY DEF Bounded, Turned, Object
<1>5. ASSUME NEW c \in Cells, Held(c) PROVE Held(c)'
  BY <1>5 DEF Held, HeldBy, Turned
<1> QED
  BY <1>2, <1>3, <1>4, <1>5

RequestOK(r) ==
  /\ r.ch \in Channels /\ r.unit \in IF r.ch = "test" THEN {NoUnit} ELSE Units
  /\ r \in RequestOf(r.ch, r.unit)
  /\ r.own => r.flush # Nobody
  /\ r.stage = "read" => r.ch # "data" /\ r.seen \in ReadOf(r.ch, r.unit)

LEMMA NewRequestOK ==
  ASSUME NEW ch \in Channels, NEW u \in IF ch = "test" THEN {NoUnit} ELSE Units, NEW flush \in Nat,
         NEW entries \in SUBSET [key : {c.key : c \in Object(ch, u)}, val : Contents, ts : Nat]
  PROVE  LET r == NewRequest(ch, u, entries, flush)
         IN  /\ RequestOK(r) /\ r.ch = ch /\ r.unit = u /\ r.entries = entries /\ r.flush = flush
             /\ r.stage = "sent" /\ (r.own <=> flush # Nobody)
<1> DEFINE r == NewRequest(ch, u, entries, flush)
<1>1. /\ r.ch = ch /\ r.unit = u /\ r.entries = entries /\ r.flush = flush
      /\ r.stage = "sent" /\ (r.own <=> flush # Nobody)
  BY DEF NewRequest
<1>2. 1 \in 1 .. MaxTries
  BY CountsAssumption
<1>3. r \in RequestOf(ch, u)
  BY <1>2 DEF NewRequest, RequestOf, Stages
<1> QED
  BY <1>1, <1>3 DEF RequestOK

------------------------------------------------------------------------------
(* Flushes *)

LEMMA BufferEntry ==
  ASSUME TypeOK, NEW ch \in Channels, NEW b \in buffer[ch]
  PROVE  /\ b.unit \in IF ch = "test" THEN {NoUnit} ELSE Units
         /\ b.key \in Keys /\ b.val \in Contents /\ b.ts \in Nat
         /\ \E c \in Object(ch, b.unit) : c \in Cells /\ c.ch = ch /\ c.unit = b.unit /\ c.key = b.key
<1>1. b \in Entry
  BY DEF TypeOK
<1>2. [ch |-> ch, unit |-> b.unit, key |-> b.key] \in Object(ch, b.unit)
  BY DEF TypeOK, Object
<1>3. b.unit \in IF ch = "test" THEN {NoUnit} ELSE Units
  BY <1>2 DEF Object, Cells
<1> QED
  BY <1>1, <1>2, <1>3 DEF Entry, Object

LEMMA EntriesFromBuffer ==
  ASSUME TypeOK, NEW ch \in Channels, NEW u, NEW now \in Nat, NEW e \in EntriesOf(ch, u, now)
  PROVE  \E b \in buffer[ch] :
           /\ b.unit = u /\ e = [key |-> b.key, val |-> b.val, ts |-> IF ch = "data" THEN now ELSE b.ts]
           /\ ch = "data" => \A f \in buffer[ch] : f.unit = u /\ f.key = b.key => f.val <= b.val
BY DEF EntriesOf

LEMMA EntriesTyped ==
  ASSUME TypeOK, NEW ch \in Channels, NEW u, NEW now \in Nat
  PROVE  EntriesOf(ch, u, now) \in SUBSET [key : {c.key : c \in Object(ch, u)}, val : Contents, ts : Nat]
<1> SUFFICES ASSUME NEW e \in EntriesOf(ch, u, now)
             PROVE  e \in [key : {c.key : c \in Object(ch, u)}, val : Contents, ts : Nat]
  OBVIOUS
<1>1. PICK b \in buffer[ch] : b.unit = u /\ e = [key |-> b.key, val |-> b.val, ts |-> IF ch = "data" THEN now ELSE b.ts]
  BY EntriesFromBuffer
<1> QED
  BY <1>1, BufferEntry

LEMMA FlushedRequests ==
  ASSUME TypeOK, NEW ch \in Channels, NEW flush \in Nat \ {Nobody}, NEW now \in Nat,
         NEW q \in Flushed(ch, flush, now)
  PROVE  /\ RequestOK(q) /\ q.ch = ch /\ q.own /\ q.flush = flush
         /\ q.stage \in {"sent", "queued"}
         /\ q.entries = EntriesOf(ch, q.unit, now)
<1>1. PICK u \in {e.unit : e \in buffer[ch]}, stage \in {"sent", "queued"} :
         q = [NewRequest(ch, u, EntriesOf(ch, u, now), flush) EXCEPT !.stage = stage]
  BY DEF Flushed
<1>2. u \in IF ch = "test" THEN {NoUnit} ELSE Units
  BY <1>1, BufferEntry
<1> DEFINE n == NewRequest(ch, u, EntriesOf(ch, u, now), flush)
<1>3. RequestOK(n) /\ n.ch = ch /\ n.unit = u /\ n.entries = EntriesOf(ch, u, now) /\ n.flush = flush /\ n.own
  <2>1. EntriesOf(ch, u, now) \in SUBSET [key : {c.key : c \in Object(ch, u)}, val : Contents, ts : Nat]
    BY EntriesTyped
  <2>2. flush \in Nat /\ flush # Nobody
    OBVIOUS
  <2> QED
    BY <1>2, <2>1, <2>2, NewRequestOK
<1>4. q \in RequestOf(ch, u) /\ q.ch = ch /\ q.unit = u /\ q.entries = n.entries /\ q.flush = flush /\ q.own = n.own
        /\ q.stage = stage
  <2> HIDE DEF n
  <2>1. n \in RequestOf(ch, u) /\ q = [n EXCEPT !.stage = stage]
    BY <1>1, <1>3 DEF RequestOK, n
  <2> QED
    BY <2>1, <1>3 DEF RequestOf, Stages
<1> QED
  BY <1>1, <1>2, <1>3, <1>4 DEF RequestOK, Nobody

(* The newest content of a cell in a buffer goes into a request. *)
LEMMA NewestIsSent ==
  ASSUME TypeOK, NEW c \in Cells, NEW flush \in Nat \ {Nobody}, NEW now \in Nat,
         NEW b \in buffer[c.ch], b.unit = c.unit, b.key = c.key,
         \A f \in buffer[c.ch] : f.unit = c.unit /\ f.key = c.key => f.val <= b.val
  PROVE  \E q \in Flushed(c.ch, flush, now) :
           \E e \in q.entries : CellOf(q, e) = c /\ e.val = b.val
<1>1. PICK e \in EntriesOf(c.ch, c.unit, now) : e.key = c.key /\ e.val = b.val
  <2> DEFINE mine == {x \in buffer[c.ch] : x.unit = c.unit}
  <2>1. b \in mine /\ \A f \in mine : f.key = b.key => f.val <= b.val
    OBVIOUS
  <2>2. CASE c.ch = "data"
    <3>1. [key |-> b.key, val |-> b.val, ts |-> now] \in EntriesOf(c.ch, c.unit, now)
      BY <2>1, <2>2 DEF EntriesOf
    <3> QED
      BY <3>1
  <2>3. CASE c.ch # "data"
    <3>1. [key |-> b.key, val |-> b.val, ts |-> b.ts] \in EntriesOf(c.ch, c.unit, now)
      BY <2>1, <2>3 DEF EntriesOf
    <3> QED
      BY <3>1
  <2> QED
    BY <2>2, <2>3
<1>2. PICK q \in Flushed(c.ch, flush, now) : q.unit = c.unit
  <2>1. PICK q \in Flushed(c.ch, flush, now), stage \in {"sent", "queued"} :
           q = [NewRequest(c.ch, c.unit, EntriesOf(c.ch, c.unit, now), flush) EXCEPT !.stage = stage]
    BY DEF Flushed
  <2> QED
    BY <2>1 DEF NewRequest
<1>3. q.ch = c.ch /\ q.entries = EntriesOf(c.ch, c.unit, now)
  <2>1. c.ch \in Channels
    BY CellFields
  <2>2. q.ch = c.ch /\ q.entries = EntriesOf(c.ch, q.unit, now)
    BY <2>1, FlushedRequests
  <2> QED
    BY <1>2, <2>2
<1> QED
  BY <1>1, <1>2, <1>3, CellFields DEF CellOf

(* What a flush sends of a cell was waiting, a data part with a new time. *)
LEMMA FlushedVersions ==
  ASSUME TypeOK, NEW ch \in Channels, NEW flush \in Nat \ {Nobody}, NEW c \in Cells,
         NEW q \in Flushed(ch, flush, clock), NEW v \in Carried(q, c)
  PROVE  /\ c.ch = ch
         /\ \E w \in Waiting(c) :
              /\ v = [val |-> w.val, ts |-> IF c.ch = "data" THEN clock ELSE w.ts]
              /\ c.ch = "data" => \A x \in Waiting(c) : x.val <= v.val
<1>1. clock \in Nat
  BY DEF TypeOK
<1>2. q.ch = ch /\ q.entries = EntriesOf(ch, q.unit, clock) /\ q.stage \in {"sent", "queued"}
  BY <1>1, FlushedRequests
<1>3. PICK e \in q.entries : e.key = c.key /\ v = Version(e)
  BY <1>2 DEF Carried
<1>4. c.ch = ch /\ c.unit = q.unit
  BY <1>2 DEF Carried
<1>5. PICK b \in buffer[ch] :
        /\ b.unit = c.unit /\ e = [key |-> b.key, val |-> b.val, ts |-> IF ch = "data" THEN clock ELSE b.ts]
        /\ ch = "data" => \A f \in buffer[ch] : f.unit = c.unit /\ f.key = b.key => f.val <= b.val
  BY <1>1, <1>2, <1>3, <1>4, EntriesFromBuffer
<1>6. Version(b) \in Waiting(c)
  BY <1>3, <1>4, <1>5 DEF Waiting
<1>7. v = [val |-> Version(b).val, ts |-> IF c.ch = "data" THEN clock ELSE Version(b).ts]
  BY <1>3, <1>4, <1>5 DEF Version
<1>8. c.ch = "data" => \A x \in Waiting(c) : x.val <= v.val
  BY <1>3, <1>4, <1>5 DEF Waiting, Version
<1> QED
  BY <1>4, <1>6, <1>7, <1>8

LEMMA StoredTyped ==
  ASSUME TypeOK
  PROVE  /\ db.val \in [Cells -> Contents] /\ db.ts \in [Cells -> Nat]
         /\ \A c \in Cells : db.val[c] \in Int /\ db.ts[c] \in Nat
<1>1. db.val \in [Cells -> Contents] /\ db.ts \in [Cells -> Nat]
  BY DEF TypeOK
<1> QED
  BY <1>1, ContentsAreIntegers

LEMMA VersionsTyped ==
  ASSUME TypeOK, NEW c \in Cells
  PROVE  Past(c) \cup Waiting(c) \subseteq [val : Int, ts : Nat]
<1>1. Waiting(c) \subseteq [val : Int, ts : Nat]
  BY BufferEntry, CellFields, ContentsAreIntegers DEF Waiting, Version
<1>2. StoredVersions(c) \subseteq [val : Int, ts : Nat]
  <2>1. db.val[c] \in Int /\ db.ts[c] \in Nat
    BY StoredTyped
  <2> QED
    BY <2>1 DEF StoredVersions
<1>3. ASSUME NEW r \in requests PROVE Carried(r, c) \subseteq [val : Int, ts : Nat]
  <2>1. r.ch \in Channels /\ r.unit \in Units \cup {NoUnit} /\ r \in RequestOf(r.ch, r.unit)
    BY DEF TypeOK
  <2>2. \A e \in r.entries : Version(e) \in [val : Int, ts : Nat]
    BY <2>1, EntryCell, ContentsAreIntegers DEF Version
  <2>3. r.ch = c.ch /\ r.unit = c.unit /\ r.stage = "read" => r.seen.val[c] \in Int /\ r.seen.ts[c] \in Nat
    BY CellFields, ContentsAreIntegers DEF TypeOK, ReadOf
  <2> QED
    BY <2>2, <2>3 DEF Carried
<1> QED
  BY <1>1, <1>2, <1>3 DEF Past

LEMMA FlushKeepsVersions ==
  ASSUME TypeOK, Versions, NEW S \in SUBSET Channels,
         flushes' = flushes + 1,
         requests' = requests \cup UNION {Flushed(ch, flushes', clock) : ch \in S},
         buffer' = [ch \in Channels |-> IF ch \in S THEN {} ELSE buffer[ch]],
         UNCHANGED <<clock, puts, db>>
  PROVE  Versions'
<1>1. flushes' \in Nat \ {Nobody} /\ clock \in Nat
  BY DEF TypeOK, Nobody
<1> SUFFICES ASSUME NEW c \in Cells
             PROVE  /\ \A v \in Past(c)' \cup Waiting(c)' : v.ts <= clock /\ v.val <= puts
                    /\ Ordered(Past(c)' \cup Waiting(c)')
                    /\ \A v \in Past(c)', w \in Waiting(c)' : v.val <= w.val
  BY DEF Versions, Ordered
<1> DEFINE New == UNION {Carried(q, c) : q \in UNION {Flushed(ch, flushes', clock) : ch \in S}}
<1>2. Past(c)' = Past(c) \cup New
  <2>1. StoredVersions(c)' = StoredVersions(c)
    BY DEF StoredVersions
  <2>2. \A q : Carried(q, c)' = Carried(q, c)
    BY DEF Carried
  <2> QED
    BY <2>1, <2>2 DEF Past
<1>3. Past(c) \cup Waiting(c) \subseteq [val : Int, ts : Nat]
  BY VersionsTyped
<1>4. Versions!(c)
  BY DEF Versions
<1>5. CASE c.ch \notin S
  <2>1. New = {}
    BY <1>1, <1>5, FlushedVersions
  <2>2. Waiting(c)' = Waiting(c)
    BY <1>5, CellFields DEF Waiting
  <2> QED
    BY <1>2, <1>4, <2>1, <2>2
<1>6. CASE c.ch \in S
  <2>1. Waiting(c)' = {}
    BY <1>6, CellFields DEF Waiting
  <2>2. \A v \in New : \E w \in Waiting(c) :
          /\ v = [val |-> w.val, ts |-> IF c.ch = "data" THEN clock ELSE w.ts]
          /\ c.ch = "data" => \A x \in Waiting(c) : x.val <= v.val
    BY <1>1, FlushedVersions
  <2> HIDE DEF New
  <2>3. CASE c.ch # "data"
    <3>1. New \subseteq Waiting(c)
      BY <1>3, <2>2, <2>3
    <3> QED
      BY <1>2, <1>4, <2>1, <3>1 DEF Ordered
  <2>4. CASE c.ch = "data"
    <3>1. \A v \in New : v.ts = clock /\ v.val \in Int /\ v.val <= puts
      BY <1>3, <1>4, <2>2, <2>4
    <3>2. \A v \in Past(c) : v.ts \in Nat /\ v.ts <= clock /\ v.val <= puts
      BY <1>3, <1>4
    <3>3. \A v \in Past(c), w \in New : v.val <= w.val
      BY <1>4, <2>2, <2>4
    <3>4. Ordered(Past(c) \cup New)
      BY <1>1, <1>4, <3>1, <3>2, <3>3 DEF Ordered
    <3> QED
      BY <1>1, <1>2, <2>1, <3>1, <3>2, <3>4
  <2> QED
    BY <2>3, <2>4
<1> QED
  BY <1>5, <1>6
LEMMA FlushedDates ==
  ASSUME TypeOK, Dated, NEW ch \in Channels, NEW flush \in Nat \ {Nobody},
         NEW q \in Flushed(ch, flush, clock), NEW e \in q.entries
  PROVE  e.ts > 0
<1>1. clock \in Nat /\ clock > 0
  BY DEF TypeOK
<1>2. q.entries = EntriesOf(ch, q.unit, clock)
  BY <1>1, FlushedRequests
<1>3. PICK b \in buffer[ch] : e.ts = IF ch = "data" THEN clock ELSE b.ts
  BY <1>1, <1>2, EntriesFromBuffer
<1> QED
  BY <1>1, <1>3 DEF Dated

LEMMA FlushKeepsHolding ==
  ASSUME TypeOK, Holding, Dated, NEW S \in SUBSET Channels,
         flushes' = flushes + 1,
         requests' = requests \cup UNION {Flushed(ch, flushes', clock) : ch \in S},
         buffer' = [ch \in Channels |-> IF ch \in S THEN {} ELSE buffer[ch]],
         UNCHANGED <<clock, local, db, givenUp>>
  PROVE  Holding'
<1>1. flushes' \in Nat \ {Nobody} /\ clock \in Nat \ {0}
  BY DEF TypeOK, Nobody
<1> SUFFICES ASSUME NEW c \in Cells
             PROVE  /\ \A w \in Waiting(c)' : w.val <= local[c]
                    /\ local[c] # 0 /\ c \notin givenUp => Held(c)'
  BY DEF Holding
<1>2. Waiting(c)' \subseteq Waiting(c)
  BY CellFields DEF Waiting
<1>3. \A w \in Waiting(c) : w.val <= local[c]
  BY DEF Holding
<1>4. ASSUME local[c] # 0, c \notin givenUp PROVE Held(c)'
  <2>1. Held(c)
    BY <1>4 DEF Holding
  <2>2. ASSUME NEW q \in requests PROVE HeldBy(q, c)'
    BY <2>1 DEF Held, HeldBy
  <2>3. ASSUME NEW ch \in S, NEW q \in Flushed(ch, flushes', clock) PROVE HeldBy(q, c)'
    <3>1. q.ch = ch /\ q.stage \in {"sent", "queued"}
      BY <1>1, FlushedRequests
    <3>2. ASSUME q.ch = c.ch, q.unit = c.unit, NEW e \in q.entries, e.key = c.key
          PROVE  e.val <= local[c]
      <4>1. Version(e) \in Carried(q, c)
        BY <1>1, <3>2, FlushedDates DEF Carried
      <4>2. PICK w \in Waiting(c) : Version(e) = [val |-> w.val, ts |-> IF c.ch = "data" THEN clock ELSE w.ts]
        BY <1>1, <4>1, FlushedVersions
      <4>3. e.val = w.val
        BY <4>2 DEF Version
      <4> QED
        BY <1>1, <1>3, <4>3
    <3> QED
      BY <3>1, <3>2 DEF HeldBy
  <2>4. db'.val[c] <= local'[c]
    BY <2>1 DEF Held
  <2> QED
    BY <2>2, <2>3, <2>4 DEF Held
<1> QED
  BY <1>2, <1>3, <1>4

LEMMA FlushKeepsContents ==
  ASSUME TypeOK, Holding, NothingVanishes, NEW S \in SUBSET Channels,
         flushes' = flushes + 1,
         requests' = requests \cup UNION {Flushed(ch, flushes', clock) : ch \in S},
         buffer' = [ch \in Channels |-> IF ch \in S THEN {} ELSE buffer[ch]],
         UNCHANGED <<clock, local, db, givenUp>>
  PROVE  NothingVanishes'
<1>1. flushes' \in Nat \ {Nobody} /\ clock \in Nat
  BY DEF TypeOK, Nobody
<1> SUFFICES ASSUME NEW c \in Cells, local[c] # 0, ~(db.val[c] = local[c]), c \notin givenUp
             PROVE  Buffered(c)' \/ OnTheWay(c)'
  BY DEF NothingVanishes
<1>2. CASE OnTheWay(c)
  BY <1>2 DEF OnTheWay
<1>3. CASE Buffered(c) /\ c.ch \notin S
  BY <1>3, CellFields DEF Buffered
<1>4. CASE Buffered(c) /\ c.ch \in S
  <2>1. PICK b \in buffer[c.ch] : b.unit = c.unit /\ b.key = c.key /\ b.val = local[c]
    BY <1>4 DEF Buffered
  <2>2. \A f \in buffer[c.ch] : f.unit = c.unit /\ f.key = c.key => f.val <= b.val
    <3>1. ASSUME NEW f \in buffer[c.ch], f.unit = c.unit, f.key = c.key PROVE f.val <= local[c]
      <4>1. Version(f) \in Waiting(c) /\ Version(f).val = f.val
        BY <3>1 DEF Waiting, Version
      <4> QED
        BY <4>1 DEF Holding
    <3> QED
      BY <2>1, <3>1
  <2>3. PICK q \in Flushed(c.ch, flushes', clock) : \E e \in q.entries : CellOf(q, e) = c /\ e.val = b.val
    BY <1>1, <2>1, <2>2, NewestIsSent
  <2>4. q \in requests' /\ q.own
    BY <1>1, <1>4, <2>3, FlushedRequests
  <2> QED
    BY <2>1, <2>3, <2>4 DEF OnTheWay, CellOf
<1> QED
  BY <1>2, <1>3, <1>4 DEF NothingVanishes

LEMMA FlushKeepsInv ==
  ASSUME Inv, NEW S \in SUBSET Channels,
         flushes' = flushes + 1,
         requests' = requests \cup UNION {Flushed(ch, flushes', clock) : ch \in S},
         buffer' = [ch \in Channels |-> IF ch \in S THEN {} ELSE buffer[ch]],
         tab' \in {"open", "ending", "left"}, closing' \in {closing, flushes'},
         UNCHANGED <<clock, puts, local, failed, db, troubles, givenUp>>
  PROVE  Inv'
<1>1. flushes' \in Nat \ {Nobody} /\ clock \in Nat
  BY DEF Inv, TypeOK, Nobody
<1>2. \A q \in requests' : RequestOK(q) /\ (q.stage = "read" => q \in requests)
  <2>1. \A q \in requests : RequestOK(q)
    BY DEF Inv, TypeOK, RequestOK
  <2>2. ASSUME NEW ch \in S, NEW q \in Flushed(ch, flushes', clock)
        PROVE  RequestOK(q) /\ q.stage # "read"
    BY <1>1, FlushedRequests DEF Inv
  <2> QED
    BY <2>1, <2>2
<1>3. TypeOK'
  <2>1. buffer' \in [Channels -> SUBSET Entry] /\ \A ch \in Channels : buffer'[ch] \subseteq buffer[ch]
    BY DEF Inv, TypeOK
  <2>2. closing' \in 0 .. flushes'
    BY DEF Inv, TypeOK
  <2> QED
    BY <1>1, <1>2, <2>1, <2>2 DEF Inv, TypeOK, RequestOK
<1>4. Bounded'
  BY <1>2 DEF Inv, Bounded, Object
<1>5. Dated'
  <2>1. \A ch \in Channels : \A b \in buffer'[ch] : b.ts > 0
    BY DEF Inv, Dated
  <2>2. ASSUME NEW ch \in S, NEW q \in Flushed(ch, flushes', clock), NEW e \in q.entries PROVE e.ts > 0
    BY <1>1, FlushedDates DEF Inv
  <2> QED
    BY <2>1, <2>2 DEF Inv, Dated
<1> QED
  BY <1>3, <1>4, <1>5, FlushKeepsVersions, FlushKeepsHolding, FlushKeepsContents DEF Inv

------------------------------------------------------------------------------
(* Requests that come and go without the backend *)

(* A request of the tab leaves only when it is answered or given up. *)
Leaves(r) ==
  \/ \E q \in requests' : q.own /\ Turned(q, r)
  \/ r.stage = "answered"
  \/ CellsOf(r) \subseteq givenUp'

LEMMA OwnIsCarried ==
  ASSUME TypeOK, NEW r \in requests, NEW e \in r.entries
  PROVE  /\ CellOf(r, e) \in CellsOf(r) /\ CellOf(r, e) \in Cells
         /\ CellOf(r, e).ch = r.ch /\ CellOf(r, e).unit = r.unit /\ CellOf(r, e).key = e.key
         /\ e.val \in Int /\ e.ts \in Nat
         /\ e.ts > 0 => Version(e) \in Past(CellOf(r, e))
<1>1. r.ch \in Channels /\ r.unit \in Units \cup {NoUnit} /\ r \in RequestOf(r.ch, r.unit)
  BY DEF TypeOK
<1>2. /\ CellOf(r, e) \in Cells /\ CellOf(r, e).ch = r.ch /\ CellOf(r, e).unit = r.unit
      /\ CellOf(r, e).key = e.key /\ e.val \in Int /\ e.ts \in Nat
  BY <1>1, EntryCell, ContentsAreIntegers
<1>3. e.ts > 0 => Version(e) \in Carried(r, CellOf(r, e))
  BY <1>2 DEF Carried
<1> QED
  BY <1>2, <1>3 DEF Past, CellsOf

LEMMA AnsweredIsStored ==
  ASSUME TypeOK, Holding, NEW r \in requests, r.own, r.stage = "answered", NEW e \in r.entries,
         NEW c \in Cells, CellOf(r, e) = c, e.val = local[c], local[c] # 0, c \notin givenUp
  PROVE  db.val[c] = local[c]
<1>1. HeldBy(r, c)
  BY DEF Holding, Held
<1>2. r.ch = c.ch /\ r.unit = c.unit /\ e.key = c.key
  BY OwnIsCarried
<1> QED
  BY <1>1, <1>2 DEF HeldBy

LEMMA TurnKeepsInv ==
  ASSUME Inv, TypeOK', Dated', \A q \in requests' : \E r \in requests : Turned(q, r),
         \A r \in requests : r.own => Leaves(r),
         givenUp \subseteq givenUp',
         UNCHANGED <<clock, puts, local, buffer, db>>
  PROVE  Inv'
<1>1. /\ Versions' /\ Bounded'
      /\ \A c \in Cells : (Held(c) => Held(c)') /\ Waiting(c)' = Waiting(c)
  BY TurnedRequests DEF Inv
<1>2. Holding'
  BY <1>1 DEF Inv, Holding
<1>3. ASSUME NEW c \in Cells, local[c] # 0, ~(db.val[c] = local[c]), c \notin givenUp'
      PROVE  Buffered(c)' \/ OnTheWay(c)'
  <2>1. CASE Buffered(c)
    BY <2>1 DEF Buffered
  <2>2. CASE OnTheWay(c)
    <3>1. PICK r \in requests : r.own /\ \E e \in r.entries : CellOf(r, e) = c /\ e.val = local[c]
      BY <2>2 DEF OnTheWay
    <3>2. PICK e \in r.entries : CellOf(r, e) = c /\ e.val = local[c]
      BY <3>1
    <3>3. r.stage # "answered" /\ c \in CellsOf(r)
      BY <1>3, <3>1, <3>2, AnsweredIsStored DEF Inv, CellsOf
    <3>4. PICK q \in requests' : q.own /\ Turned(q, r)
      BY <1>3, <3>1, <3>3 DEF Leaves
    <3>5. q.own /\ e \in q.entries /\ CellOf(q, e) = c
      BY <3>2, <3>4 DEF Turned, CellOf
    <3> QED
      BY <3>2, <3>5 DEF OnTheWay, CellOf
  <2> QED
    BY <1>3, <2>1, <2>2 DEF Inv, NothingVanishes
<1> QED
  BY <1>1, <1>2, <1>3 DEF Inv, NothingVanishes

(* New content of a cell k, while requests may turn. *)
LEMMA TakenKeepsInv ==
  ASSUME Inv, TypeOK', Dated', NEW k \in Cells, TimePasses, puts' = puts + 1, Taken(k, puts'),
         \A q \in requests' : \E r \in requests : Turned(q, r),
         \A r \in requests : r.own => Leaves(r) \/ CellsOf(r) \subseteq givenUp' \cup {k},
         \A c \in Cells \ {k} : c \in givenUp => c \in givenUp',
         UNCHANGED db
  PROVE  Inv'
<1> DEFINE new == [unit |-> k.unit, key |-> k.key, val |-> puts', ts |-> clock']
<1>1. clock \in Nat /\ puts \in Nat /\ clock' \in Nat /\ clock <= clock' /\ puts' \in Nat /\ puts < puts' /\ clock' > 0
  BY DEF Inv, TypeOK, TimePasses
<1>2. local' = [local EXCEPT ![k] = puts'] /\ buffer' = [buffer EXCEPT ![k.ch] = @ \cup {new}]
      /\ local \in [Cells -> Contents] /\ buffer \in [Channels -> SUBSET Entry] /\ k.ch \in Channels
  BY CellFields DEF Inv, TypeOK, Taken
<1>3. ASSUME NEW c \in Cells
      PROVE  /\ Waiting(c)' = IF c = k THEN Waiting(c) \cup {Version(new)} ELSE Waiting(c)
             /\ local'[c] = IF c = k THEN puts' ELSE local[c]
  <2>1. c.ch \in Channels
    BY CellFields
  <2>2. buffer'[c.ch] = IF c.ch = k.ch THEN buffer[c.ch] \cup {new} ELSE buffer[c.ch]
    BY <1>2, <2>1
  <2>3. c.ch = k.ch /\ c.unit = k.unit /\ c.key = k.key <=> c = k
    BY CellFields
  <2>4. new.unit = k.unit /\ new.key = k.key
    OBVIOUS
  <2> HIDE DEF new
  <2>5. {x \in buffer'[c.ch] : x.unit = c.unit /\ x.key = c.key}
          = IF c = k THEN {x \in buffer[c.ch] : x.unit = c.unit /\ x.key = c.key} \cup {new}
                     ELSE {x \in buffer[c.ch] : x.unit = c.unit /\ x.key = c.key}
    BY <2>2, <2>3, <2>4
  <2>6. Waiting(c)' = {Version(e) : e \in {x \in buffer'[c.ch] : x.unit = c.unit /\ x.key = c.key}}
    BY DEF Waiting, Version
  <2>7. Waiting(c)' = IF c = k THEN Waiting(c) \cup {Version(new)} ELSE Waiting(c)
    BY <2>5, <2>6 DEF Waiting
  <2>8. local'[c] = IF c = k THEN puts' ELSE local[c]
    BY <1>2
  <2> QED
    BY <2>7, <2>8
<1>4. Version(new) = [val |-> puts', ts |-> clock']
  BY DEF Version
<1> HIDE DEF new
<1>5. ASSUME NEW c \in Cells PROVE Past(c)' \subseteq Past(c)
  <2>1. \A q \in requests' : Carried(q, c)' = Carried(q, c)
    BY DEF Carried
  <2>2. \A q \in requests', r \in requests : Turned(q, r) => Carried(q, c) \subseteq Carried(r, c)
    BY DEF Turned, Carried
  <2>3. UNION {Carried(q, c) : q \in requests'} \subseteq UNION {Carried(r, c) : r \in requests}
    BY <2>2
  <2>4. StoredVersions(c)' = StoredVersions(c)
    BY DEF StoredVersions
  <2> QED
    BY <2>1, <2>3, <2>4 DEF Past
<1>6. Versions'
  <2> SUFFICES ASSUME NEW c \in Cells
               PROVE  /\ \A v \in Past(c)' \cup Waiting(c)' : v.ts <= clock' /\ v.val <= puts'
                      /\ Ordered(Past(c)' \cup Waiting(c)')
                      /\ \A v \in Past(c)', w \in Waiting(c)' : v.val <= w.val
    BY DEF Versions, Ordered
  <2>1. Past(c) \cup Waiting(c) \subseteq [val : Int, ts : Nat]
    BY VersionsTyped DEF Inv
  <2>2. Versions!(c)
    BY DEF Inv, Versions
  <2>3. \A v \in Past(c) \cup Waiting(c) : v.ts <= clock' /\ v.val <= puts' /\ v.ts \in Nat /\ v.val \in Int
    BY <1>1, <2>1, <2>2
  <2>4. Past(c)' \cup Waiting(c)' \subseteq Past(c) \cup Waiting(c) \cup {Version(new)}
    BY <1>3, <1>5
  <2>5. Ordered(Past(c) \cup Waiting(c) \cup {Version(new)})
    BY <1>1, <1>4, <2>2, <2>3 DEF Ordered
  <2>6. \A v \in Past(c), w \in Waiting(c) \cup {Version(new)} : v.val <= w.val
    BY <1>1, <1>4, <2>2, <2>3
  <2> QED
    BY <1>1, <1>3, <1>4, <1>5, <2>3, <2>4, <2>5, <2>6 DEF Ordered
<1>7. Bounded'
  <2>1. \A c \in Cells : local[c] \in Int /\ db.val[c] \in Int
    BY <1>2, ContentsAreIntegers, StoredTyped DEF Inv
  <2>2. ASSUME NEW c \in Cells PROVE local'[c] <= puts' /\ db'.val[c] <= puts'
    BY <1>1, <1>3, <2>1 DEF Inv, Bounded
  <2>3. ASSUME NEW c \in Cells, NEW q \in requests', q.stage = "read", c \in Object(q.ch, q.unit)
        PROVE  q.seen.val[c] <= puts' /\ (q.ch = "test" => q.seen.ts[c] = 0)
    <3>1. PICK r \in requests : Turned(q, r)
      OBVIOUS
    <3>2. r.stage = "read" /\ q.seen = r.seen /\ c \in Object(r.ch, r.unit)
      BY <2>3, <3>1 DEF Turned
    <3>3. r.seen.val[c] \in Int
      BY <3>2, ContentsAreIntegers DEF Inv, TypeOK, ReadOf
    <3>4. r.seen.val[c] <= puts /\ (r.ch = "test" => r.seen.ts[c] = 0) /\ q.ch = r.ch
      BY <3>1, <3>2 DEF Inv, Bounded, Turned
    <3> QED
      BY <1>1, <3>2, <3>3, <3>4
  <2> QED
    BY <2>2, <2>3 DEF Bounded, Object
<1>8. ASSUME NEW c \in Cells
      PROVE  /\ \A w \in Waiting(c)' : w.val <= local'[c]
             /\ local'[c] # 0 /\ c \notin givenUp' => Held(c)'
  <2>1. CASE c # k
    <3>1. local'[c] = local[c] /\ Waiting(c)' = Waiting(c)
      BY <1>3, <2>1
    <3>2. ASSUME local[c] # 0, c \notin givenUp' PROVE Held(c)'
      <4>1. Held(c)
        BY <2>1, <3>2 DEF Inv, Holding
      <4> QED
        BY <3>1, <4>1 DEF Held, HeldBy, Turned
    <3> QED
      BY <3>1, <3>2 DEF Inv, Holding
  <2>2. CASE c = k
    <3>1. local'[c] = puts'
      BY <1>3, <2>2
    <3>2. \A w \in Waiting(c)' : w.val <= puts'
      BY <1>6, <3>1 DEF Versions
    <3>3. ASSUME NEW q \in requests', q.own, q.ch = c.ch, q.unit = c.unit
          PROVE  /\ \A e \in q.entries : e.key = c.key => e.val < puts'
                 /\ q.stage = "read" => q.seen.val[c] <= puts'
      <4>1. PICK r \in requests : Turned(q, r)
        OBVIOUS
      <4>2. ASSUME NEW e \in r.entries, e.key = c.key PROVE e.val < puts'
        <5>1. CellOf(r, e) = c
          <6>1. r.ch = c.ch /\ r.unit = c.unit
            BY <3>3, <4>1 DEF Turned
          <6> QED
            BY <4>2, <6>1, CellFields DEF CellOf
        <5>2. e.val \in Int /\ Version(e) \in Past(c)
          BY <3>3, <4>1, <5>1, OwnIsCarried DEF Inv, Dated, Turned
        <5>3. Version(e).val <= puts
          BY <5>2 DEF Inv, Versions
        <5> QED
          BY <1>1, <5>2, <5>3 DEF Version
      <4>3. c \in Object(q.ch, q.unit)
        BY <3>3, CellFields
      <4> QED
        BY <1>7, <4>1, <4>2, <4>3 DEF Turned, Bounded, Object
    <3>4. db'.val[c] <= puts'
      BY <1>7 DEF Bounded
    <3>5. \A q \in requests' : HeldBy(q, c)'
      <4>1. ASSUME NEW q \in requests', q.own, q.ch = c.ch, q.unit = c.unit, NEW e \in q.entries, e.key = c.key
            PROVE  e.val <= puts' /\ e.val # puts'
        <5>1. PICK r \in requests : Turned(q, r)
          OBVIOUS
        <5>2. e.val \in Int
          BY <5>1, OwnIsCarried DEF Inv, Turned
        <5> QED
          BY <1>1, <3>3, <4>1, <5>2
      <4> QED
        BY <3>1, <3>3, <4>1 DEF HeldBy
    <3> QED
      BY <3>1, <3>2, <3>4, <3>5 DEF Held
  <2> QED
    BY <2>1, <2>2
<1>9. NothingVanishes'
  <2> SUFFICES ASSUME NEW c \in Cells, local'[c] # 0, ~(db'.val[c] = local'[c]), c \notin givenUp'
               PROVE  Buffered(c)' \/ OnTheWay(c)'
    BY DEF NothingVanishes
  <2>1. CASE c = k
    <3>1. new \in buffer'[c.ch] /\ new.unit = c.unit /\ new.key = c.key /\ new.val = local'[c]
      BY <1>2, <1>3, <2>1 DEF new
    <3> QED
      BY <3>1 DEF Buffered
  <2>2. CASE c # k
    <3>1. local'[c] = local[c] /\ c.ch \in Channels
      BY <1>3, <2>2, CellFields
    <3>2. CASE Buffered(c)
      <4>1. buffer[c.ch] \subseteq buffer'[c.ch]
        BY <1>2, <3>1
      <4> QED
        BY <3>1, <3>2, <4>1 DEF Buffered
    <3>3. CASE OnTheWay(c)
      <4>1. PICK r \in requests : r.own /\ \E e \in r.entries : CellOf(r, e) = c /\ e.val = local[c]
        BY <3>3 DEF OnTheWay
      <4>2. PICK e \in r.entries : CellOf(r, e) = c /\ e.val = local[c]
        BY <4>1
      <4>3. c \notin givenUp /\ local[c] # 0 /\ c \in CellsOf(r)
        BY <2>2, <3>1, <4>2 DEF CellsOf
      <4>4. r.stage # "answered"
        BY <3>1, <4>1, <4>2, <4>3, AnsweredIsStored DEF Inv
      <4>5. PICK q \in requests' : q.own /\ Turned(q, r)
        BY <2>2, <4>1, <4>3, <4>4 DEF Leaves
      <4>6. e \in q.entries /\ CellOf(q, e) = c
        BY <4>2, <4>5 DEF Turned, CellOf
      <4> QED
        BY <3>1, <4>2, <4>5, <4>6 DEF OnTheWay, CellOf
    <3> QED
      BY <2>2, <3>1, <3>2, <3>3 DEF Inv, NothingVanishes
  <2> QED
    BY <2>1, <2>2
<1> QED
  BY <1>6, <1>7, <1>8, <1>9 DEF Inv, Holding

------------------------------------------------------------------------------
(* The tab *)

LEMMA AddToBufferKeepsInv ==
  ASSUME Inv, NEW c \in Cells, AddToBuffer(c)
  PROVE  Inv'
<1>1. TimePasses /\ puts' = puts + 1 /\ Taken(c, puts') /\ givenUp' = givenUp \ {c}
      /\ UNCHANGED <<requests, flushes, tab, closing, failed, db, troubles>>
  BY DEF AddToBuffer
<1> DEFINE new == [unit |-> c.unit, key |-> c.key, val |-> puts', ts |-> clock']
<1>2. clock' \in Nat \ {0} /\ puts' \in Nat /\ puts' \in Contents /\ new \in Entry
  BY <1>1, CellFields, ContentsAreIntegers DEF Inv, TypeOK, TimePasses, Entry
<1>3. local' \in [Cells -> Contents]
  BY <1>1, <1>2 DEF Inv, TypeOK, Taken
<1>4. buffer' = [buffer EXCEPT ![c.ch] = @ \cup {new}]
  BY <1>1 DEF Taken
<1>5. new.unit = c.unit /\ new.key = c.key /\ new.ts > 0
  BY <1>2
<1> HIDE DEF new
<1>6. buffer' \in [Channels -> SUBSET Entry]
  BY <1>2, <1>4, CellFields DEF Inv, TypeOK
<1>7. \A ch \in Channels : \A e \in buffer'[ch] : e \in buffer[ch] \/ (ch = c.ch /\ e = new)
  BY <1>4, CellFields DEF Inv, TypeOK
<1>8. \A ch \in Channels : \A e \in buffer'[ch] : [ch |-> ch, unit |-> e.unit, key |-> e.key] \in Cells
  BY <1>5, <1>7, CellFields DEF Inv, TypeOK
<1>9. TypeOK'
  BY <1>1, <1>2, <1>3, <1>6, <1>8 DEF Inv, TypeOK
<1>10. Dated'
  BY <1>1, <1>5, <1>7 DEF Inv, Dated
<1>11. \A q \in requests' : Turned(q, q) /\ q \in requests
  BY <1>1 DEF Turned
<1>12. \A r \in requests : r.own => Leaves(r)
  BY <1>1, <1>11 DEF Leaves
<1> QED
  BY <1>1, <1>9, <1>10, <1>11, <1>12, TakenKeepsInv

LEMMA TimedFlushKeepsInv ==
  ASSUME Inv, NEW ch \in Channels, TimedFlush(ch)
  PROVE  Inv'
<1>1. requests' = requests \cup UNION {Flushed(x, flushes', clock) : x \in {ch}}
  BY DEF TimedFlush
<1>2. buffer' = [x \in Channels |-> IF x \in {ch} THEN {} ELSE buffer[x]]
  BY DEF TimedFlush, Inv, TypeOK
<1>3. tab' \in {"open", "ending", "left"} /\ closing' = closing
  BY DEF TimedFlush, Inv, TypeOK
<1> QED
  BY <1>1, <1>2, <1>3, FlushKeepsInv DEF TimedFlush

LEMMA FlushAllKeepsInv ==
  ASSUME Inv, FlushAll, tab' \in {"open", "ending", "left"}, closing' \in {closing, flushes'},
         UNCHANGED <<clock, puts, local, failed, db, troubles, givenUp>>
  PROVE  Inv'
<1>1. buffer' = [x \in Channels |-> IF x \in Channels THEN {} ELSE buffer[x]]
  BY DEF FlushAll
<1> QED
  BY <1>1, FlushKeepsInv DEF FlushAll

LEMMA CloseAllBuffersKeepsInv ==
  ASSUME Inv, CloseAllBuffers
  PROVE  Inv'
BY FlushAllKeepsInv DEF CloseAllBuffers, Inv, TypeOK

LEMMA TerminateTestKeepsInv ==
  ASSUME Inv, TerminateTest
  PROVE  Inv'
BY FlushAllKeepsInv DEF TerminateTest

LEMMA LeaveTestKeepsInv ==
  ASSUME Inv, LeaveTest
  PROVE  Inv'
<1>1. PICK lock \in BOOLEAN : db' = [db EXCEPT !.locked = @ \/ lock]
  BY DEF LeaveTest
<1>2. db'.val = db.val /\ db'.ts = db.ts /\ db' \in [val : [Cells -> Contents], ts : [Cells -> Nat], rows : SUBSET Units, locked : BOOLEAN]
  BY <1>1 DEF Inv, TypeOK
<1>3. UNCHANGED <<clock, puts, local, buffer, requests, flushes, closing, failed, troubles, givenUp>> /\ tab' = "left"
  BY DEF LeaveTest
<1>4. TypeOK'
  BY <1>2, <1>3 DEF Inv, TypeOK
<1>5. \A c : Past(c)' = Past(c) /\ Waiting(c)' = Waiting(c)
  BY <1>2, <1>3 DEF Past, StoredVersions, Carried, Waiting
<1>6. Versions'
  BY <1>3, <1>5 DEF Inv, Versions, Ordered
<1>7. Bounded' /\ Dated'
  BY <1>2, <1>3 DEF Inv, Bounded, Dated, Object
<1>8. Holding'
  BY <1>2, <1>3, <1>5 DEF Inv, Holding, Held, HeldBy
<1>9. NothingVanishes'
  BY <1>2, <1>3 DEF Inv, NothingVanishes, Buffered, OnTheWay, CellOf
<1> QED
  BY <1>4, <1>6, <1>7, <1>8, <1>9 DEF Inv

LEMMA LoadTestKeepsInv ==
  ASSUME Inv, LoadTest
  PROVE  Inv'
<1>1. /\ local' = [c \in Cells |-> IF c.ch = "test" THEN 0 ELSE db.val[c]]
      /\ buffer' = [ch \in Channels |-> {}] /\ givenUp' = {} /\ failed' = {} /\ closing' = Nobody /\ tab' = "open"
      /\ troubles' = troubles + 1
      /\ UNCHANGED <<clock, puts, flushes, db>>
  BY DEF LoadTest
<1>2. ASSUME NEW q \in requests'
      PROVE  \E r \in requests : q = [r EXCEPT !.own = FALSE, !.tries = 1]
  BY DEF LoadTest
<1>3. ASSUME NEW q \in requests', NEW r \in requests, q = [r EXCEPT !.own = FALSE, !.tries = 1]
      PROVE  /\ q.ch = r.ch /\ q.unit = r.unit /\ q.entries = r.entries /\ q.stage = r.stage /\ q.seen = r.seen
             /\ ~q.own /\ RequestOK(q)
  <2>1. RequestOK(r)
    BY DEF Inv, TypeOK, RequestOK
  <2>2. r \in RequestOf(r.ch, r.unit) /\ 1 \in 1 .. MaxTries
    BY <2>1, CountsAssumption DEF RequestOK
  <2>3. q.ch = r.ch /\ q.unit = r.unit /\ q.entries = r.entries /\ q.stage = r.stage /\ q.seen = r.seen
        /\ q.own = FALSE /\ q \in RequestOf(r.ch, r.unit)
    BY <1>3, <2>2 DEF RequestOf
  <2> QED
    BY <2>1, <2>3 DEF RequestOK
<1>4. TypeOK'
  <2>1. \A q \in requests' : RequestOK(q)
    BY <1>2, <1>3
  <2>2. local' \in [Cells -> Contents]
    BY <1>1, ContentsAreIntegers DEF Inv, TypeOK
  <2> QED
    BY <1>1, <2>1, <2>2 DEF Inv, TypeOK, RequestOK, Nobody
<1>5. ASSUME NEW c \in Cells PROVE Past(c)' \subseteq Past(c) /\ Waiting(c)' = {}
  <2>1. ASSUME NEW q \in requests' PROVE \E r \in requests : Carried(q, c) \subseteq Carried(r, c)
    BY <1>2, <1>3 DEF Carried
  <2>2. \A q \in requests' : Carried(q, c)' = Carried(q, c)
    BY DEF Carried
  <2>3. StoredVersions(c)' = StoredVersions(c) /\ Waiting(c)' = {}
    BY <1>1, CellFields DEF StoredVersions, Waiting
  <2> QED
    BY <2>1, <2>2, <2>3 DEF Past
<1>6. Versions'
  BY <1>1, <1>5 DEF Inv, Versions, Ordered
<1>7. Bounded'
  <2>1. \A c \in Cells : local'[c] <= puts /\ db.val[c] <= puts
    BY <1>1 DEF Inv, Bounded, TypeOK
  <2>2. ASSUME NEW c \in Cells, NEW q \in requests', q.stage = "read", c \in Object(q.ch, q.unit)
        PROVE  q.seen.val[c] <= puts /\ (q.ch = "test" => q.seen.ts[c] = 0)
    <3>1. PICK r \in requests : q = [r EXCEPT !.own = FALSE, !.tries = 1]
      BY <1>2
    <3>2. q.ch = r.ch /\ q.unit = r.unit /\ q.stage = r.stage /\ q.seen = r.seen
      BY <1>3, <3>1
    <3> QED
      BY <2>2, <3>2 DEF Inv, Bounded
  <2> QED
    BY <1>1, <2>1, <2>2 DEF Bounded, Object
<1>8. Dated' /\ \A q \in requests' : ~q.own
  BY <1>1, <1>2, <1>3 DEF Dated
<1>9. \A c \in Cells : local'[c] # 0 => db'.val[c] = local'[c]
  BY <1>1
<1>10. Holding'
  <2>1. \A c \in Cells : local'[c] # 0 => Held(c)'
    BY <1>1, <1>8, <1>9, StoredTyped DEF Inv, Held, HeldBy
  <2> QED
    BY <1>5, <2>1 DEF Holding
<1>11. NothingVanishes'
  BY <1>9 DEF NothingVanishes
<1> QED
  BY <1>4, <1>6, <1>7, <1>8, <1>10, <1>11 DEF Inv

------------------------------------------------------------------------------
(* The merge *)

LEMMA LeastNat ==
  ASSUME NEW U \in SUBSET Nat, U # {}
  PROVE  \E n \in U : \A m \in U : n <= m
<1> DEFINE R == {p \in Nat \X Nat : p[1] < p[2]}
<1>1. IsWellFoundedOn(R, Nat)
  BY NatLessThanWellFounded DEF OpToRel
<1>2. PICK n \in U : \A m \in U : ~(<<m, n>> \in R)
  <2> HIDE DEF R
  <2> QED
    BY <1>1, WFMin
<1>3. ASSUME NEW m \in U PROVE n <= m
  <2>1. m \in Nat /\ n \in Nat
    OBVIOUS
  <2>2. <<m, n>> \in Nat \X Nat /\ <<m, n>>[1] = m /\ <<m, n>>[2] = n
    BY <2>1
  <2>3. ~(m < n)
    BY <1>2, <2>2
  <2> QED
    BY <2>1, <2>3
<1> QED
  BY <1>3

(* Of entries whose times are bounded the first of the newest exists. *)
LEMMA FirstOfNewest ==
  ASSUME NEW X, X # {}, \A e \in X : e.ts \in Nat /\ e.val \in Contents,
         NEW top \in Nat, \A e \in X : e.ts <= top
  PROVE  \E e \in X : \A f \in X : f.ts < e.ts \/ (f.ts = e.ts /\ f.val >= e.val)
<1> DEFINE T == {top - e.ts : e \in X}
<1>1. T \in SUBSET Nat /\ T # {}
  OBVIOUS
<1>2. PICK t \in T : \A u \in T : t <= u
  <2> HIDE DEF T
  <2> QED
    BY <1>1, LeastNat
<1>3. PICK n \in X : t = top - n.ts
  BY <1>2
<1>4. \A f \in X : f.ts <= n.ts
  BY <1>2, <1>3
<1> DEFINE V == {e.val + 2 : e \in {x \in X : x.ts = n.ts}}
<1>5. \A e \in X : e.val \in Int /\ e.val >= -2
  BY DEF Contents, Lost, Polling
<1>6. V \in SUBSET Nat /\ V # {}
  BY <1>5
<1>7. PICK v \in V : \A u \in V : v <= u
  <2> HIDE DEF V
  <2> QED
    BY <1>6, LeastNat
<1>8. PICK e \in X : e.ts = n.ts /\ v = e.val + 2
  BY <1>7
<1>9. \A f \in X : f.ts = n.ts => f.val >= e.val
  <2>1. ASSUME NEW f \in X, f.ts = n.ts PROVE f.val >= e.val
    <3>1. f.val + 2 \in V
      BY <2>1
    <3>2. e.val + 2 <= f.val + 2
      BY <1>7, <1>8, <3>1
    <3> QED
      BY <1>5, <3>2
  <2> QED
    BY <2>1
<1> QED
  BY <1>4, <1>8, <1>9

Wins(r, c, w) == \A f \in r.entries : f.key = c.key => f.ts < w.ts \/ (f.ts = w.ts /\ f.val >= w.val)

(* What the merge leaves of a cell: the winner, or what was there, and     *)
(* then no entry was newer.                                                *)
LEMMA ApplyPatchResult ==
  ASSUME NEW r, RequestOK(r), NEW old \in ReadOf(r.ch, r.unit),
         NEW top \in Nat, \A e \in r.entries : e.ts <= top
  PROVE  LET new == ApplyPatch(r, old)
         IN  /\ new \in ReadOf(r.ch, r.unit)
             /\ \A c \in Object(r.ch, r.unit) :
                  \/ /\ new.val[c] = old.val[c] /\ new.ts[c] = old.ts[c]
                     /\ \A e \in r.entries : e.key = c.key => e.ts <= old.ts[c]
                  \/ \E w \in r.entries :
                       /\ w.key = c.key /\ w.ts > old.ts[c] /\ Wins(r, c, w)
                       /\ new.val[c] = w.val /\ new.ts[c] = w.ts
<1> DEFINE new == ApplyPatch(r, old)
           winner(c) == CHOOSE e \in Effective(r, c, old) : TRUE
<1>1. \A e \in r.entries : e.ts \in Nat /\ e.val \in Contents
  BY EntryCell DEF RequestOK
<1>2. /\ old.val \in [Object(r.ch, r.unit) -> Contents] /\ old.ts \in [Object(r.ch, r.unit) -> Nat]
      /\ DOMAIN old.val = Object(r.ch, r.unit) /\ DOMAIN old.ts = Object(r.ch, r.unit)
  BY DEF ReadOf
<1>3. new = [val |-> [c \in DOMAIN old.val |-> IF Effective(r, c, old) = {} THEN old.val[c] ELSE winner(c).val],
             ts |-> [c \in DOMAIN old.ts |-> IF Effective(r, c, old) = {} THEN old.ts[c] ELSE winner(c).ts]]
  BY DEF ApplyPatch
<1>4. \A c \in Object(r.ch, r.unit) :
        /\ new.val[c] = IF Effective(r, c, old) = {} THEN old.val[c] ELSE winner(c).val
        /\ new.ts[c] = IF Effective(r, c, old) = {} THEN old.ts[c] ELSE winner(c).ts
  BY <1>2, <1>3
<1>5. \A c : Effective(r, c, old) # {} => winner(c) \in Effective(r, c, old)
  OBVIOUS
<1>6. \A c : Effective(r, c, old) \subseteq r.entries
  BY DEF Effective
<1>7. new \in ReadOf(r.ch, r.unit)
  <2> HIDE DEF winner
  <2>1. \A c \in Object(r.ch, r.unit) :
          /\ (IF Effective(r, c, old) = {} THEN old.val[c] ELSE winner(c).val) \in Contents
          /\ (IF Effective(r, c, old) = {} THEN old.ts[c] ELSE winner(c).ts) \in Nat
    BY <1>1, <1>2, <1>5, <1>6
  <2> QED
    BY <1>2, <1>3, <2>1 DEF ReadOf
<1>8. ASSUME NEW c \in Object(r.ch, r.unit), Effective(r, c, old) = {}, NEW e \in r.entries, e.key = c.key
      PROVE  e.ts <= old.ts[c]
  <2>1. old.ts[c] \in Nat /\ e.ts \in Nat
    BY <1>1, <1>2
  <2> SUFFICES ASSUME e.ts > old.ts[c] PROVE FALSE
    BY <2>1
  <2> DEFINE X == {x \in r.entries : x.key = c.key /\ x.ts > old.ts[c]}
  <2>2. PICK w \in X : \A f \in X : f.ts < w.ts \/ (f.ts = w.ts /\ f.val >= w.val)
    <3>1. e \in X /\ \A x \in X : x.ts \in Nat /\ x.val \in Contents /\ x.ts <= top
      BY <1>1, <1>8
    <3> HIDE DEF X
    <3> QED
      BY <3>1, FirstOfNewest
  <2>3. \A f \in r.entries : f.key = c.key => f.ts < w.ts \/ (f.ts = w.ts /\ f.val >= w.val)
    BY <1>1, <2>1, <2>2
  <2>4. w \in Effective(r, c, old)
    BY <2>2, <2>3 DEF Effective
  <2> QED
    BY <1>8, <2>4
<1>9. ASSUME NEW c \in Object(r.ch, r.unit), Effective(r, c, old) # {}
      PROVE  LET w == winner(c)
             IN  w \in r.entries /\ w.key = c.key /\ w.ts > old.ts[c] /\ Wins(r, c, w)
  <2> HIDE DEF winner
  <2>1. winner(c) \in Effective(r, c, old)
    BY <1>5, <1>9
  <2>2. \A f \in r.entries : f.key = winner(c).key
          => f.ts < winner(c).ts \/ (f.ts = winner(c).ts /\ f.val >= winner(c).val)
    BY <2>1 DEF Effective
  <2> QED
    BY <2>1, <2>2 DEF Effective, Wins
<1> HIDE DEF winner, new
<1>10. ASSUME NEW c \in Object(r.ch, r.unit)
       PROVE  \/ /\ new.val[c] = old.val[c] /\ new.ts[c] = old.ts[c]
                 /\ \A e \in r.entries : e.key = c.key => e.ts <= old.ts[c]
              \/ \E w \in r.entries :
                   /\ w.key = c.key /\ w.ts > old.ts[c] /\ Wins(r, c, w)
                   /\ new.val[c] = w.val /\ new.ts[c] = w.ts
  BY <1>4, <1>8, <1>9
<1> QED
  BY <1>7, <1>10 DEF new

LEMMA StoredOfObject ==
  ASSUME TypeOK, NEW ch \in Channels, NEW u \in Units \cup {NoUnit}
  PROVE  LET old == Stored(ch, u)
         IN  /\ old \in ReadOf(ch, u)
             /\ \A c \in Object(ch, u) : /\ old.val[c] = db.val[c]
                                         /\ old.ts[c] = IF ch = "test" THEN 0 ELSE db.ts[c]
BY StoredTyped DEF Stored, ReadOf, Object

(* What a merge needs of the state it starts from. *)
Mergeable(r, old) ==
  \A c \in Object(r.ch, r.unit) :
    /\ old.val[c] <= puts
    /\ IF r.ch = "test" THEN old.ts[c] = 0 ELSE [val |-> old.val[c], ts |-> old.ts[c]] \in Past(c)
    /\ r.own /\ local[c] # 0 /\ c \notin givenUp => old.val[c] <= local[c]

LEMMA MergeKeepsInv ==
  ASSUME Inv, NEW r \in requests, NEW old \in ReadOf(r.ch, r.unit), Mergeable(r, old),
         NEW rows \in SUBSET Units,
         db' = [Replaced(r.ch, ApplyPatch(r, old)) EXCEPT !.rows = rows],
         givenUp' = givenUp \cup Disturbed(r, ApplyPatch(r, old)) \cup Tied(r, ApplyPatch(r, old)),
         Answered(r),
         UNCHANGED <<clock, puts, local, buffer, flushes, tab, closing, failed, troubles>>
  PROVE  Inv'
<1> DEFINE new == ApplyPatch(r, old)
           O == Object(r.ch, r.unit)
<1>1. RequestOK(r) /\ clock \in Nat /\ puts \in Nat
  BY DEF Inv, TypeOK, RequestOK
<1>2. ASSUME NEW e \in r.entries
      PROVE  /\ e.val \in Int /\ e.ts \in Nat /\ e.ts <= clock
             /\ \A c \in O : e.key = c.key => CellOf(r, e) = c
             /\ \A c \in O : e.key = c.key /\ e.ts > 0 => Version(e) \in Past(c) /\ e.val <= puts
  <2>1. e.val \in Int /\ e.ts \in Nat /\ CellOf(r, e) \in Cells
        /\ (e.ts > 0 => Version(e) \in Past(CellOf(r, e)))
    BY OwnIsCarried DEF Inv
  <2>2. e.ts > 0 => Version(e).ts <= clock /\ Version(e).val <= puts
    BY <2>1 DEF Inv, Versions
  <2>3. \A c \in O : e.key = c.key => CellOf(r, e) = c
    BY CellFields DEF CellOf, Object
  <2> QED
    BY <1>1, <2>1, <2>2, <2>3 DEF Version
<1>3. /\ new \in ReadOf(r.ch, r.unit)
      /\ \A c \in O :
           \/ /\ new.val[c] = old.val[c] /\ new.ts[c] = old.ts[c]
              /\ \A e \in r.entries : e.key = c.key => e.ts <= old.ts[c]
           \/ \E w \in r.entries :
                /\ w.key = c.key /\ w.ts > old.ts[c] /\ Wins(r, c, w)
                /\ new.val[c] = w.val /\ new.ts[c] = w.ts
  BY <1>1, <1>2, ApplyPatchResult
<1> HIDE DEF new
<1>4. /\ new.val \in [O -> Contents] /\ new.ts \in [O -> Nat] /\ DOMAIN new.val = O /\ DOMAIN new.ts = O
      /\ old.val \in [O -> Contents] /\ old.ts \in [O -> Nat]
  BY <1>3 DEF ReadOf
<1>5. O \subseteq Cells /\ \A c \in Cells : c \in O <=> c.ch = r.ch /\ c.unit = r.unit
  BY DEF Object
<1> HIDE DEF O
<1>6. /\ db' \in [val : [Cells -> Contents], ts : [Cells -> Nat], rows : SUBSET Units, locked : BOOLEAN]
      /\ \A c \in Cells : /\ db'.val[c] = IF c \in O THEN new.val[c] ELSE db.val[c]
                          /\ db'.ts[c] = IF c \in O /\ r.ch # "test" THEN new.ts[c] ELSE db.ts[c]
  <2> DEFINE v == [c \in Cells |-> IF c \in O THEN new.val[c] ELSE db.val[c]]
             t == [c \in Cells |-> IF c \in O THEN new.ts[c] ELSE db.ts[c]]
  <2>1. db \in [val : [Cells -> Contents], ts : [Cells -> Nat], rows : SUBSET Units, locked : BOOLEAN]
    BY DEF Inv, TypeOK
  <2>2. v \in [Cells -> Contents] /\ t \in [Cells -> Nat]
    BY <1>4, <2>1
  <2>3. db' = [[db EXCEPT !.val = v, !.ts = IF r.ch = "test" THEN db.ts ELSE t] EXCEPT !.rows = rows]
    BY <1>4, <2>1 DEF Replaced, new
  <2>4. db' \in [val : [Cells -> Contents], ts : [Cells -> Nat], rows : SUBSET Units, locked : BOOLEAN]
        /\ db'.val = v /\ db'.ts = IF r.ch = "test" THEN db.ts ELSE t
    <3> HIDE DEF v, t
    <3> QED
      BY <2>1, <2>2, <2>3
  <2> QED
    BY <2>4
<1>7. /\ \A c \in O : new.val[c] # db.val[c] /\ (~r.own \/ new.val[c] < db.val[c]) => c \in givenUp'
      /\ \A c \in O, e \in r.entries : e.key = c.key /\ e.ts = new.ts[c] /\ e.val # new.val[c] => c \in givenUp'
      /\ givenUp \subseteq givenUp'
  <2>1. \A c \in O : new.val[c] # db.val[c] /\ (~r.own \/ new.val[c] < db.val[c]) => c \in Disturbed(r, new)
    BY <1>4 DEF Disturbed
  <2>2. ASSUME NEW c \in O, NEW e \in r.entries, e.key = c.key, e.ts = new.ts[c], e.val # new.val[c]
        PROVE  c \in Tied(r, new)
    <3>1. CellOf(r, e) = c
      BY <1>2, <2>2 DEF O
    <3> QED
      BY <2>2, <3>1 DEF Tied, CellsOf
  <2> QED
    BY <2>1, <2>2 DEF new
<1> DEFINE a == [r EXCEPT !.stage = "answered", !.seen = NoRead]
<1>8. ASSUME NEW q \in requests' PROVE q \in requests \/ (r.own /\ q = a)
  BY DEF Answered
<1>9. /\ a.ch = r.ch /\ a.unit = r.unit /\ a.entries = r.entries /\ a.own = r.own /\ a.stage = "answered"
      /\ RequestOK(a)
  <2>1. r \in RequestOf(r.ch, r.unit)
    BY <1>1 DEF RequestOK
  <2>2. a \in RequestOf(r.ch, r.unit) /\ a.ch = r.ch /\ a.unit = r.unit /\ a.entries = r.entries
        /\ a.own = r.own /\ a.stage = "answered" /\ a.flush = r.flush
    BY <2>1 DEF RequestOf, Stages
  <2> QED
    BY <1>1, <2>2 DEF RequestOK
<1>10. r.own => a \in requests'
  BY DEF Answered
<1> HIDE DEF a
<1>11. \A q \in requests : q = r \/ q \in requests'
  BY DEF Answered
<1>12. TypeOK'
  <2>1. \A q \in requests' : RequestOK(q)
    BY <1>8, <1>9 DEF Inv, TypeOK, RequestOK
  <2>2. Disturbed(r, new) \subseteq Cells
    BY <1>4, <1>5 DEF Disturbed
  <2>3. Tied(r, new) \subseteq Cells
    BY OwnIsCarried DEF Tied, CellsOf, Inv
  <2>4. givenUp' \subseteq Cells
    BY <2>2, <2>3 DEF new, Inv, TypeOK
  <2> QED
    BY <1>6, <2>1, <2>4 DEF Inv, TypeOK, RequestOK
<1>13. Versions'
  <2>1. ASSUME NEW c \in Cells, c.ch # "test" PROVE [val |-> db'.val[c], ts |-> db'.ts[c]] \in Past(c)
    <3>1. CASE c \notin O
      BY <1>6, <2>1, <3>1 DEF Past, StoredVersions
    <3>2. CASE c \in O
      <4>1. r.ch # "test" /\ db'.val[c] = new.val[c] /\ db'.ts[c] = new.ts[c]
        BY <1>5, <1>6, <2>1, <3>2
      <4>2. CASE new.val[c] = old.val[c] /\ new.ts[c] = old.ts[c]
        BY <3>2, <4>1, <4>2 DEF Mergeable, O
      <4>3. ASSUME NEW w \in r.entries, w.key = c.key, w.ts > old.ts[c], new.val[c] = w.val, new.ts[c] = w.ts
            PROVE  [val |-> new.val[c], ts |-> new.ts[c]] \in Past(c)
        <5>1. w.ts > 0
          BY <1>2, <1>4, <3>2, <4>3
        <5> QED
          BY <1>2, <3>2, <4>3, <5>1 DEF Version, O
      <4> QED
        BY <1>3, <3>2, <4>1, <4>2, <4>3
    <3> QED
      BY <3>1, <3>2
  <2>2. ASSUME NEW c \in Cells PROVE Past(c)' \subseteq Past(c) /\ Waiting(c)' = Waiting(c)
    <3>1. StoredVersions(c)' \subseteq Past(c)
      BY <2>1 DEF StoredVersions
    <3>2. ASSUME NEW q \in requests' PROVE \E x \in requests : Carried(q, c) \subseteq Carried(x, c)
      BY <1>8, <1>9 DEF Carried
    <3>3. \A q \in requests' : Carried(q, c)' = Carried(q, c)
      BY DEF Carried
    <3>4. UNION {Carried(q, c) : q \in requests'} \subseteq UNION {Carried(x, c) : x \in requests}
      BY <3>2
    <3>5. Waiting(c)' = Waiting(c)
      BY DEF Waiting
    <3> QED
      BY <3>1, <3>3, <3>4, <3>5 DEF Past
  <2> QED
    BY <2>2 DEF Inv, Versions, Ordered
<1>14. \A c \in O : new.val[c] \in Int /\ new.val[c] <= puts
  <2> SUFFICES ASSUME NEW c \in O PROVE new.val[c] \in Int /\ new.val[c] <= puts
    OBVIOUS
  <2>1. new.val[c] \in Int /\ old.ts[c] \in Nat
    BY <1>4, ContentsAreIntegers
  <2>2. old.val[c] <= puts
    BY DEF Mergeable, O
  <2>3. ASSUME NEW w \in r.entries, w.key = c.key, w.ts > old.ts[c] PROVE w.val <= puts
    <3>1. w.ts > 0
      BY <1>2, <2>1, <2>3
    <3> QED
      BY <1>2, <2>3, <3>1
  <2> QED
    BY <1>3, <2>1, <2>2, <2>3
<1>15. Bounded'
  <2>1. \A c \in Cells : db'.val[c] <= puts
    BY <1>6, <1>14 DEF Inv, Bounded
  <2>2. \A q \in requests' : q.stage = "read" => q \in requests
    BY <1>8, <1>9
  <2> QED
    BY <2>1, <2>2 DEF Inv, Bounded, Object
<1>16. Dated'
  BY <1>8, <1>9 DEF Inv, Dated
<1>17. ASSUME NEW c \in O, local[c] # 0, c \notin givenUp', r.own
       PROVE  /\ db.val[c] <= new.val[c] /\ new.val[c] <= local[c]
              /\ \A e \in r.entries : e.key = c.key /\ e.val = local[c] => new.val[c] = local[c]
  <2>1. HeldBy(r, c) /\ c.ch = r.ch /\ c.unit = r.unit /\ c \in Cells
    BY <1>5, <1>7, <1>17 DEF Inv, Holding, Held
  <2>2. local[c] \in Int /\ new.val[c] \in Int /\ db.val[c] \in Int /\ old.val[c] \in Int
        /\ old.ts[c] \in Nat /\ new.ts[c] \in Nat
    BY <1>4, <2>1, ContentsAreIntegers, StoredTyped DEF Inv, TypeOK
  <2>3. db.val[c] <= new.val[c]
    BY <1>7, <1>17, <2>2
  <2>4. \A e \in r.entries : e.key = c.key => e.val <= local[c] /\ e.ts > 0
    BY <1>17, <2>1 DEF HeldBy, Inv, Dated
  <2>5. old.val[c] <= local[c]
    BY <1>7, <1>17 DEF Mergeable, O
  <2>6. \A e \in r.entries : e.key = c.key => Version(e) \in Past(c) /\ Version(e).val = e.val /\ Version(e).ts = e.ts
    BY <1>2, <1>17, <2>4 DEF Version
  <2>7. Ordered(Past(c))
    BY <2>1 DEF Inv, Versions, Ordered
  <2>8. CASE /\ new.val[c] = old.val[c] /\ new.ts[c] = old.ts[c]
             /\ \A e \in r.entries : e.key = c.key => e.ts <= old.ts[c]
    <3>1. ASSUME NEW e \in r.entries, e.key = c.key, e.val = local[c], e.ts < old.ts[c]
          PROVE  old.val[c] = local[c]
      <4>1. r.ch # "test"
        <5>1. e.ts \in Nat
          BY <1>2
        <5>2. r.ch = "test" => old.ts[c] = 0
          BY <1>17 DEF Mergeable, O
        <5> QED
          BY <3>1, <5>1, <5>2
      <4>2. [val |-> old.val[c], ts |-> old.ts[c]] \in Past(c)
        BY <1>17, <4>1 DEF Mergeable, O
      <4>3. e.val <= old.val[c]
        BY <2>6, <2>7, <3>1, <4>2 DEF Ordered
      <4> QED
        BY <2>2, <2>5, <3>1, <4>3
    <3>2. ASSUME NEW e \in r.entries, e.key = c.key, e.val = local[c], ~(e.ts < old.ts[c])
          PROVE  new.val[c] = local[c]
      <4>1. e.ts = new.ts[c]
        BY <1>2, <2>2, <2>8, <3>2
      <4> QED
        BY <1>7, <1>17, <3>2, <4>1
    <3> QED
      BY <2>3, <2>5, <2>8, <3>1, <3>2
  <2>9. ASSUME NEW w \in r.entries, w.key = c.key, Wins(r, c, w), new.val[c] = w.val, new.ts[c] = w.ts
        PROVE  /\ new.val[c] <= local[c]
               /\ \A e \in r.entries : e.key = c.key /\ e.val = local[c] => new.val[c] = local[c]
    <3>1. new.val[c] <= local[c]
      BY <2>4, <2>9
    <3>2. ASSUME NEW e \in r.entries, e.key = c.key, e.val = local[c], e.ts < w.ts
          PROVE  new.val[c] = local[c]
      <4>1. e.val <= w.val
        BY <2>6, <2>7, <2>9, <3>2 DEF Ordered
      <4> QED
        BY <2>2, <2>9, <3>1, <3>2, <4>1
    <3>3. ASSUME NEW e \in r.entries, e.key = c.key, e.val = local[c], ~(e.ts < w.ts)
          PROVE  new.val[c] = local[c]
      <4>1. e.ts = new.ts[c]
        BY <2>9, <3>3 DEF Wins
      <4> QED
        BY <1>7, <1>17, <3>3, <4>1
    <3> QED
      BY <3>1, <3>2, <3>3
  <2> QED
    BY <1>3, <1>17, <2>3, <2>8, <2>9
<1>18. ASSUME NEW c \in Cells, local[c] # 0, c \notin givenUp'
       PROVE  /\ c \in O /\ r.own => db'.val[c] <= local[c] /\ db.val[c] <= db'.val[c]
              /\ ~(c \in O /\ r.own) => db'.val[c] = db.val[c]
  <2>1. CASE c \in O /\ r.own
    BY <1>6, <1>17, <1>18, <2>1
  <2>2. CASE c \notin O
    BY <1>6, <2>2
  <2>3. CASE c \in O /\ ~r.own
    BY <1>6, <1>7, <1>18, <2>3
  <2> QED
    BY <2>1, <2>2, <2>3
<1>19. ASSUME NEW c \in Cells, local[c] # 0, c \notin givenUp'
       PROVE  db'.val[c] <= local[c] /\ (db.val[c] = local[c] => db'.val[c] = local[c])
  <2>1. Held(c)
    BY <1>7, <1>19 DEF Inv, Holding
  <2>2. local[c] \in Int /\ db.val[c] \in Int /\ db'.val[c] \in Int
    BY <1>6, ContentsAreIntegers, StoredTyped DEF Inv, TypeOK
  <2> QED
    BY <1>18, <1>19, <2>1, <2>2 DEF Held
<1>20. Holding'
  <2> SUFFICES ASSUME NEW c \in Cells, local[c] # 0, c \notin givenUp'
               PROVE  \A q \in requests' : HeldBy(q, c)'
    BY <1>19 DEF Inv, Holding, Held, Waiting
  <2>1. Held(c)
    BY <1>7 DEF Inv, Holding
  <2>2. ASSUME NEW q \in requests PROVE HeldBy(q, c)'
    BY <1>19, <2>1, <2>2 DEF Held, HeldBy
  <2>3. ASSUME r.own PROVE HeldBy(a, c)'
    <3>1. HeldBy(r, c)
      BY <2>1 DEF Held
    <3>2. ASSUME r.ch = c.ch, r.unit = c.unit, NEW e \in r.entries, e.key = c.key, e.val = local[c]
          PROVE  db'.val[c] = local[c]
      BY <1>5, <1>6, <1>17, <2>3, <3>2
    <3> QED
      BY <1>9, <3>1, <3>2 DEF HeldBy
  <2> QED
    BY <1>8, <2>2, <2>3
<1>21. NothingVanishes'
  <2> SUFFICES ASSUME NEW c \in Cells, local[c] # 0, ~(db'.val[c] = local[c]), c \notin givenUp'
               PROVE  Buffered(c)' \/ OnTheWay(c)'
    BY DEF NothingVanishes
  <2>1. CASE Buffered(c)
    BY <2>1 DEF Buffered
  <2>2. CASE OnTheWay(c)
    <3>1. PICK q \in requests : q.own /\ \E e \in q.entries : CellOf(q, e) = c /\ e.val = local[c]
      BY <2>2 DEF OnTheWay
    <3>2. CASE q = r
      <4>1. a \in requests' /\ a.own /\ \E e \in a.entries : CellOf(a, e) = c /\ e.val = local[c]
        BY <1>9, <1>10, <3>1, <3>2 DEF CellOf
      <4> QED
        BY <4>1 DEF OnTheWay, CellOf
    <3>3. CASE q # r
      BY <1>11, <3>1, <3>3 DEF OnTheWay, CellOf
    <3> QED
      BY <3>2, <3>3
  <2> QED
    BY <1>7, <1>19, <2>1, <2>2 DEF Inv, NothingVanishes
<1> QED
  BY <1>12, <1>13, <1>15, <1>16, <1>20, <1>21 DEF Inv

------------------------------------------------------------------------------
(* The backend *)

LEMMA ReadStateKeepsInv ==
  ASSUME Inv, NEW r \in requests, ReadState(r)
  PROVE  Inv'
<1>0. PICK a : a = [r EXCEPT !.stage = "read", !.seen = Stored(r.ch, r.unit)]
  OBVIOUS
<1>1. requests' = (requests \ {r}) \cup {a} /\ r.ch # "data" /\ r.stage = "sent"
      /\ UNCHANGED <<clock, puts, local, buffer, flushes, tab, closing, failed, db, troubles, givenUp>>
  BY <1>0 DEF ReadState
<1>2. RequestOK(r)
  BY DEF Inv, TypeOK, RequestOK
<1>3. Stored(r.ch, r.unit) \in ReadOf(r.ch, r.unit)
      /\ \A c \in Object(r.ch, r.unit) : /\ Stored(r.ch, r.unit).val[c] = db.val[c]
                                         /\ Stored(r.ch, r.unit).ts[c] = IF r.ch = "test" THEN 0 ELSE db.ts[c]
  BY <1>2, StoredOfObject DEF Inv, RequestOK
<1>4. /\ a.ch = r.ch /\ a.unit = r.unit /\ a.entries = r.entries /\ a.own = r.own /\ a.stage = "read"
      /\ a.seen = Stored(r.ch, r.unit) /\ RequestOK(a)
  <2>1. r \in RequestOf(r.ch, r.unit)
    BY <1>2 DEF RequestOK
  <2>2. a \in RequestOf(r.ch, r.unit) /\ a.ch = r.ch /\ a.unit = r.unit /\ a.entries = r.entries
        /\ a.own = r.own /\ a.stage = "read" /\ a.flush = r.flush /\ a.seen = Stored(r.ch, r.unit)
    BY <1>0, <1>3, <2>1 DEF RequestOf, Stages
  <2> QED
    BY <1>1, <1>2, <1>3, <2>2 DEF RequestOK
<1>5. TypeOK'
  BY <1>1, <1>2, <1>4 DEF Inv, TypeOK, RequestOK
<1>6. ASSUME NEW c \in Cells PROVE Past(c)' \subseteq Past(c) /\ Waiting(c)' = Waiting(c)
  <2>1. StoredVersions(c)' = StoredVersions(c) /\ Waiting(c)' = Waiting(c)
        /\ \A q \in requests' : Carried(q, c)' = Carried(q, c)
    BY <1>1 DEF StoredVersions, Waiting, Carried
  <2>2. Carried(a, c) \subseteq Carried(r, c) \cup StoredVersions(c)
    <3>1. CASE r.ch = c.ch /\ r.unit = c.unit /\ c.ch = "unit"
      <4>1. c \in Object(r.ch, r.unit)
        BY <3>1, CellFields
      <4> QED
        BY <1>3, <1>4, <3>1, <4>1 DEF Carried, StoredVersions
    <3>2. CASE ~(r.ch = c.ch /\ r.unit = c.unit /\ c.ch = "unit")
      BY <1>1, <1>4, <3>2 DEF Carried
    <3> QED
      BY <3>1, <3>2
  <2>3. UNION {Carried(q, c) : q \in requests'}
          \subseteq StoredVersions(c) \cup UNION {Carried(q, c) : q \in requests}
    BY <1>1, <2>2
  <2> QED
    BY <2>1, <2>3 DEF Past
<1>7. Versions'
  BY <1>1, <1>6 DEF Inv, Versions, Ordered
<1>8. Bounded'
  <2>1. ASSUME NEW c \in Cells, c \in Object(a.ch, a.unit)
        PROVE  a.seen.val[c] <= puts /\ (a.ch = "test" => a.seen.ts[c] = 0)
    BY <1>3, <1>4, <2>1 DEF Inv, Bounded
  <2> QED
    BY <1>1, <2>1 DEF Inv, Bounded, Object
<1>9. Dated'
  BY <1>1, <1>4 DEF Inv, Dated
<1>10. Holding'
  <2> SUFFICES ASSUME NEW c \in Cells, local[c] # 0, c \notin givenUp
               PROVE  \A q \in requests' : HeldBy(q, c)'
    BY <1>1, <1>6 DEF Inv, Holding, Held
  <2>1. Held(c)
    BY DEF Inv, Holding
  <2>2. \A q \in requests : HeldBy(q, c)'
    BY <1>1, <2>1 DEF Held, HeldBy
  <2>3. HeldBy(a, c)'
    <3>1. a.ch = c.ch /\ a.unit = c.unit => a.seen.val[c] = db.val[c]
      BY <1>3, <1>4, CellFields
    <3>2. db.val[c] <= local[c] /\ HeldBy(r, c)
      BY <2>1 DEF Held
    <3>3. a.own => r.own
      BY <1>4
    <3>4. a.own /\ a.ch = c.ch /\ a.unit = c.unit => \A e \in a.entries : e.key = c.key => e.val <= local[c]
      BY <1>4, <3>2, <3>3 DEF HeldBy
    <3>5. a.ch = c.ch /\ a.unit = c.unit => a.seen.val[c] <= local[c]
      BY <3>1, <3>2
    <3>6. a.stage # "answered"
      BY <1>4
    <3> QED
      BY <1>1, <3>4, <3>5, <3>6 DEF HeldBy
  <2> QED
    BY <1>1, <2>2, <2>3 DEF Held
<1>11. NothingVanishes'
  <2> SUFFICES ASSUME NEW c \in Cells, OnTheWay(c) PROVE OnTheWay(c)'
    BY <1>1 DEF Inv, NothingVanishes, Buffered
  <2>1. PICK q \in requests : q.own /\ \E e \in q.entries : CellOf(q, e) = c /\ e.val = local[c]
    BY DEF OnTheWay
  <2>2. CASE q = r
    <3>1. a \in requests' /\ a.own /\ \E e \in a.entries : CellOf(a, e) = c /\ e.val = local'[c]
      BY <1>1, <1>4, <2>1, <2>2 DEF CellOf
    <3> QED
      BY <3>1 DEF OnTheWay, CellOf
  <2>3. CASE q # r
    BY <1>1, <2>1, <2>3 DEF OnTheWay, CellOf
  <2> QED
    BY <2>2, <2>3
<1> QED
  BY <1>5, <1>7, <1>8, <1>9, <1>10, <1>11 DEF Inv

LEMMA WriteStateKeepsInv ==
  ASSUME Inv, NEW r \in requests, WriteState(r)
  PROVE  Inv'
<1>1. r.stage = "read" /\ RequestOK(r)
  BY DEF Inv, TypeOK, RequestOK, WriteState
<1>2. r.seen \in ReadOf(r.ch, r.unit)
  BY <1>1 DEF RequestOK
<1>3. Mergeable(r, r.seen)
  <2> SUFFICES ASSUME NEW c \in Object(r.ch, r.unit)
               PROVE  /\ r.seen.val[c] <= puts
                      /\ IF r.ch = "test" THEN r.seen.ts[c] = 0 ELSE [val |-> r.seen.val[c], ts |-> r.seen.ts[c]] \in Past(c)
                      /\ r.own /\ local[c] # 0 /\ c \notin givenUp => r.seen.val[c] <= local[c]
    BY DEF Mergeable
  <2>1. c \in Cells /\ c.ch = r.ch /\ c.unit = r.unit
    BY DEF Object
  <2>2. r.seen.val[c] <= puts /\ (r.ch = "test" => r.seen.ts[c] = 0)
    BY <1>1, <2>1 DEF Inv, Bounded
  <2>3. r.ch # "test" => [val |-> r.seen.val[c], ts |-> r.seen.ts[c]] \in Past(c)
    <3>1. r.ch # "test" => r.ch = "unit"
      BY <1>1 DEF RequestOK, Channels
    <3> QED
      BY <1>1, <2>1, <3>1 DEF Past, Carried
  <2>4. r.own /\ local[c] # 0 /\ c \notin givenUp => r.seen.val[c] <= local[c]
    BY <1>1, <2>1 DEF Inv, Holding, Held, HeldBy
  <2> QED
    BY <2>2, <2>3, <2>4
<1> DEFINE rows == IF r.ch = "unit" THEN db.rows \cup {r.unit} ELSE db.rows
<1>4. rows \in SUBSET Units
  <2>1. CASE r.ch = "unit"
    <3>1. r.unit \in Units
      BY <1>1, <2>1 DEF RequestOK
    <3> QED
      BY <2>1, <3>1 DEF Inv, TypeOK
  <2>2. CASE r.ch # "unit"
    BY <2>2 DEF Inv, TypeOK
  <2> QED
    BY <2>1, <2>2
<1>5. db' = [Replaced(r.ch, ApplyPatch(r, r.seen)) EXCEPT !.rows = rows]
  <2>1. db \in [val : [Cells -> Contents], ts : [Cells -> Nat], rows : SUBSET Units, locked : BOOLEAN]
    BY DEF Inv, TypeOK
  <2>2. Replaced(r.ch, ApplyPatch(r, r.seen)).rows = db.rows
    BY <2>1 DEF Replaced
  <2>3. db' = [Replaced(r.ch, ApplyPatch(r, r.seen)) EXCEPT !.rows =
                 IF r.ch = "unit" THEN Replaced(r.ch, ApplyPatch(r, r.seen)).rows \cup {r.unit}
                 ELSE Replaced(r.ch, ApplyPatch(r, r.seen)).rows]
    BY DEF WriteState
  <2> QED
    BY <2>2, <2>3
<1> HIDE DEF rows
<1> QED
  BY <1>2, <1>3, <1>4, <1>5, MergeKeepsInv DEF WriteState

LEMMA WriteDataPartsKeepsInv ==
  ASSUME Inv, NEW r \in requests, WriteDataParts(r)
  PROVE  Inv'
<1>1. r.ch = "data" /\ RequestOK(r)
  BY DEF Inv, TypeOK, RequestOK, WriteDataParts
<1> DEFINE old == Stored("data", r.unit)
<1>2. /\ old \in ReadOf(r.ch, r.unit)
      /\ \A c \in Object(r.ch, r.unit) : old.val[c] = db.val[c] /\ old.ts[c] = db.ts[c]
  BY <1>1, StoredOfObject DEF Inv, RequestOK
<1> HIDE DEF old
<1>3. Mergeable(r, old)
  <2> SUFFICES ASSUME NEW c \in Object(r.ch, r.unit)
               PROVE  /\ old.val[c] <= puts
                      /\ [val |-> old.val[c], ts |-> old.ts[c]] \in Past(c)
                      /\ r.own /\ local[c] # 0 /\ c \notin givenUp => old.val[c] <= local[c]
    BY <1>1 DEF Mergeable
  <2>1. c \in Cells /\ c.ch = r.ch /\ c.unit = r.unit
    BY DEF Object
  <2>2. old.val[c] = db.val[c] /\ old.ts[c] = db.ts[c]
    BY <1>2
  <2>3. db.val[c] <= puts
    BY <2>1 DEF Inv, Bounded
  <2>4. [val |-> db.val[c], ts |-> db.ts[c]] \in Past(c)
    BY <1>1, <2>1 DEF Past, StoredVersions
  <2>5. local[c] # 0 /\ c \notin givenUp => db.val[c] <= local[c]
    BY <2>1 DEF Inv, Holding, Held
  <2> QED
    BY <2>2, <2>3, <2>4, <2>5
<1>4. db.rows \in SUBSET Units
  BY DEF Inv, TypeOK
<1>5. db' = [Replaced(r.ch, ApplyPatch(r, old)) EXCEPT !.rows = db.rows]
  <2>1. db \in [val : [Cells -> Contents], ts : [Cells -> Nat], rows : SUBSET Units, locked : BOOLEAN]
    BY DEF Inv, TypeOK
  <2>2. \A new : Replaced("data", new) = [Replaced("data", new) EXCEPT !.rows = db.rows]
    BY <2>1 DEF Replaced
  <2>3. db' = Replaced("data", ApplyPatch(r, old))
    BY DEF WriteDataParts, old
  <2> QED
    BY <1>1, <2>2, <2>3
<1> QED
  BY <1>2, <1>3, <1>4, <1>5, MergeKeepsInv DEF WriteDataParts, old

LEMMA SetConnectionKeepsInv ==
  ASSUME Inv, SetConnection
  PROVE  Inv'
<1> DEFINE k == [ch |-> "test", unit |-> NoUnit, key |-> Connection]
<1>1. k \in Object("test", NoUnit) /\ k.key = Connection
  BY DEF Object, Cells, Connection
<1>2. PICK lost \in BOOLEAN : requests' = requests \cup
            {[NewRequest("test", NoUnit,
                         {[key |-> Connection, val |-> IF lost THEN Lost ELSE Polling, ts |-> 0]}, Nobody)
                EXCEPT !.stage = "read", !.seen = Stored("test", NoUnit)]}
  BY DEF SetConnection
<1>3. PICK n : n = NewRequest("test", NoUnit, {[key |-> Connection, val |-> IF lost THEN Lost ELSE Polling, ts |-> 0]}, Nobody)
  OBVIOUS
<1>4. PICK a : a = [n EXCEPT !.stage = "read", !.seen = Stored("test", NoUnit)]
  OBVIOUS
<1>5. /\ requests' = requests \cup {a} /\ troubles' = troubles + 1
      /\ UNCHANGED <<clock, puts, local, buffer, flushes, tab, closing, failed, db, givenUp>>
  BY <1>2, <1>3, <1>4 DEF SetConnection
<1>6. RequestOK(n) /\ n.ch = "test" /\ n.unit = NoUnit /\ ~n.own /\ n.flush = Nobody
      /\ \A e \in n.entries : e.ts = 0
  <2>1. {[key |-> Connection, val |-> IF lost THEN Lost ELSE Polling, ts |-> 0]}
          \in SUBSET [key : {c.key : c \in Object("test", NoUnit)}, val : Contents, ts : Nat]
    BY <1>1, ContentsAreIntegers
  <2>2. "test" \in Channels /\ NoUnit \in IF "test" = "test" THEN {NoUnit} ELSE Units
    BY DEF Channels
  <2>3. Nobody \in Nat
    BY DEF Nobody
  <2> QED
    BY <1>3, <2>1, <2>2, <2>3, NewRequestOK
<1>7. /\ Stored("test", NoUnit) \in ReadOf("test", NoUnit)
      /\ \A c \in Object("test", NoUnit) : Stored("test", NoUnit).val[c] = db.val[c] /\ Stored("test", NoUnit).ts[c] = 0
  BY StoredOfObject DEF Inv, Channels
<1>8. /\ a.ch = "test" /\ a.unit = NoUnit /\ ~a.own /\ a.stage = "read" /\ a.seen = Stored("test", NoUnit)
      /\ RequestOK(a) /\ a.entries = n.entries
  <2>1. n \in RequestOf("test", NoUnit)
    BY <1>6 DEF RequestOK
  <2>2. a \in RequestOf("test", NoUnit) /\ a.ch = "test" /\ a.unit = NoUnit /\ a.own = n.own /\ a.stage = "read"
        /\ a.seen = Stored("test", NoUnit) /\ a.entries = n.entries /\ a.flush = n.flush
    BY <1>4, <1>6, <1>7, <2>1 DEF RequestOf, Stages
  <2> QED
    BY <1>6, <1>7, <2>2 DEF RequestOK
<1>9. TypeOK'
  BY <1>5, <1>8 DEF Inv, TypeOK, RequestOK
<1>10. ASSUME NEW c \in Cells PROVE Past(c)' = Past(c) /\ Waiting(c)' = Waiting(c)
  <2>1. StoredVersions(c)' = StoredVersions(c) /\ Waiting(c)' = Waiting(c)
        /\ \A q \in requests' : Carried(q, c)' = Carried(q, c)
    BY <1>5 DEF StoredVersions, Waiting, Carried
  <2>2. Carried(a, c) = {}
    BY <1>6, <1>8 DEF Carried
  <2> QED
    BY <1>5, <2>1, <2>2 DEF Past
<1>11. Versions'
  BY <1>5, <1>10 DEF Inv, Versions, Ordered
<1>12. Bounded'
  <2>1. ASSUME NEW c \in Cells, c \in Object(a.ch, a.unit)
        PROVE  a.seen.val[c] <= puts /\ (a.ch = "test" => a.seen.ts[c] = 0)
    BY <1>7, <1>8, <2>1 DEF Inv, Bounded
  <2> QED
    BY <1>5, <2>1 DEF Inv, Bounded, Object
<1>13. Dated'
  BY <1>5, <1>8 DEF Inv, Dated
<1>14. Holding'
  <2>1. \A c \in Cells : Held(c) => Held(c)'
    BY <1>5, <1>8 DEF Held, HeldBy
  <2> QED
    BY <1>5, <1>10, <2>1 DEF Inv, Holding
<1>15. NothingVanishes'
  BY <1>5 DEF Inv, NothingVanishes, Buffered, OnTheWay, CellOf
<1> QED
  BY <1>9, <1>11, <1>12, <1>13, <1>14, <1>15 DEF Inv

------------------------------------------------------------------------------
(* Answers *)

LEMMA ReceiveKeepsInv ==
  ASSUME Inv, NEW r \in requests, Receive(r)
  PROVE  Inv'
<1>1. r.own /\ r.stage = "answered"
      /\ UNCHANGED <<clock, puts, local, buffer, flushes, tab, closing, failed, db, troubles, givenUp>>
  BY DEF Receive
<1>2. \A q \in requests : RequestOK(q) /\ Turned(q, q) /\ q.tries \in 1 .. MaxTries
  BY DEF Inv, TypeOK, RequestOK, RequestOf, Turned
<1>3. CASE requests' = requests \ {r}
  <2>1. TypeOK' /\ Dated'
    BY <1>1, <1>3 DEF Inv, TypeOK, Dated
  <2>2. \A q \in requests' : \E p \in requests : Turned(q, p)
    BY <1>2, <1>3
  <2>3. \A q \in requests : q.own => Leaves(q)
    BY <1>1, <1>2, <1>3 DEF Leaves
  <2> QED
    BY <1>1, <2>1, <2>2, <2>3, TurnKeepsInv
<1>4. ASSUME NEW w \in requests, requests' = (requests \ {r, w}) \cup {[w EXCEPT !.stage = "sent"]}
      PROVE  Inv'
  <2>1. PICK x : x = [w EXCEPT !.stage = "sent"]
    OBVIOUS
  <2>2. RequestOK(x) /\ Turned(x, w) /\ x.own = w.own /\ x.entries = w.entries
    <3>1. w \in RequestOf(w.ch, w.unit)
      BY <1>2 DEF RequestOK
    <3>2. x \in RequestOf(w.ch, w.unit) /\ x.ch = w.ch /\ x.unit = w.unit /\ x.entries = w.entries /\ x.own = w.own
          /\ x.stage = "sent" /\ x.flush = w.flush
      BY <2>1, <3>1 DEF RequestOf, Stages
    <3> QED
      BY <1>2, <3>2 DEF RequestOK, Turned
  <2>3. requests' = (requests \ {r, w}) \cup {x}
    BY <1>4, <2>1
  <2>4. TypeOK'
    BY <1>1, <1>2, <2>2, <2>3 DEF Inv, TypeOK, RequestOK
  <2>5. Dated'
    BY <1>1, <2>2, <2>3 DEF Inv, Dated
  <2>6. \A q \in requests' : \E p \in requests : Turned(q, p)
    BY <1>2, <2>2, <2>3
  <2>7. \A q \in requests : q.own => Leaves(q)
    <3>1. w.own => Leaves(w)
      BY <2>2, <2>3 DEF Leaves
    <3>2. Leaves(r)
      BY <1>1 DEF Leaves
    <3>3. \A q \in requests \ {r, w} : q.own => Leaves(q)
      BY <1>2, <2>3 DEF Leaves
    <3> QED
      BY <3>1, <3>2, <3>3
  <2> QED
    BY <1>1, <2>4, <2>5, <2>6, <2>7, TurnKeepsInv
<1> QED
  BY <1>3, <1>4 DEF Receive

LEMMA RepeatKeepsInv ==
  ASSUME Inv, NEW r \in requests, Repeat(r), r.own, troubles' \in Nat,
         UNCHANGED <<flushes, tab, closing, db>>
  PROVE  Inv'
<1>1. r.tries < MaxTries /\ UNCHANGED <<clock, puts, local, buffer, failed, givenUp>>
  BY DEF Repeat
<1>2. \A q \in requests : RequestOK(q) /\ Turned(q, q) /\ q.tries \in 1 .. MaxTries
  BY DEF Inv, TypeOK, RequestOK, RequestOf, Turned
<1>3. PICK x : x = [r EXCEPT !.stage = "sent", !.tries = @ + 1]
  OBVIOUS
<1>4. requests' = (requests \ {r}) \cup {x}
  BY <1>3 DEF Repeat
<1>5. RequestOK(x) /\ Turned(x, r) /\ x.own = r.own /\ x.entries = r.entries
  <2>1. r \in RequestOf(r.ch, r.unit)
    BY <1>2 DEF RequestOK
  <2>2. r.tries + 1 \in 1 .. MaxTries
    BY <1>1, <1>2, CountsAssumption
  <2>3. x \in RequestOf(r.ch, r.unit) /\ x.ch = r.ch /\ x.unit = r.unit /\ x.entries = r.entries /\ x.own = r.own
        /\ x.stage = "sent" /\ x.flush = r.flush
    BY <1>3, <2>1, <2>2 DEF RequestOf, Stages
  <2> QED
    BY <1>2, <2>3 DEF RequestOK, Turned
<1>6. TypeOK'
  BY <1>1, <1>2, <1>4, <1>5 DEF Inv, TypeOK, RequestOK
<1>7. Dated'
  BY <1>1, <1>4, <1>5 DEF Inv, Dated
<1>8. \A q \in requests' : \E p \in requests : Turned(q, p)
  BY <1>2, <1>4, <1>5
<1>9. \A q \in requests : q.own => Leaves(q)
  <2>1. Leaves(r)
    BY <1>4, <1>5 DEF Leaves
  <2> QED
    BY <1>2, <1>4, <2>1 DEF Leaves
<1> QED
  BY <1>1, <1>6, <1>7, <1>8, <1>9, TurnKeepsInv

LEMMA FailKeepsInv ==
  ASSUME Inv, NEW r \in requests, Fail(r), r.own, troubles' \in Nat,
         UNCHANGED <<flushes, tab, closing, db>>
  PROVE  Inv'
<1> DEFINE given == {q \in requests : q.ch = r.ch /\ q.flush = r.flush /\ q.own}
<1>1. PICK erring : erring = [ch |-> "test", unit |-> NoUnit, key |-> CHOOSE k \in TestKeys : TRUE]
  OBVIOUS
<1>2. erring \in Cells
  BY <1>1, TestKeysAssumption DEF Cells
<1>3. /\ requests' = (requests \ given) \cup
                       {[q EXCEPT !.own = FALSE] : q \in {x \in given \ {r} : x.stage \in {"sent", "read"}}}
      /\ failed' = failed \cup {r.flush}
      /\ givenUp' = (givenUp \cup UNION {CellsOf(q) : q \in given}) \ (IF tab = "left" THEN {} ELSE {erring})
      /\ IF tab = "left"
         THEN UNCHANGED <<clock, puts, local, buffer>>
         ELSE TimePasses /\ puts' = puts + 1 /\ Taken(erring, puts')
  BY <1>1 DEF Fail
<1>4. \A q \in requests : RequestOK(q) /\ Turned(q, q)
  BY DEF Inv, TypeOK, RequestOK, Turned
<1>5. ASSUME NEW q \in requests, NEW x, x = [q EXCEPT !.own = FALSE]
      PROVE  RequestOK(x) /\ Turned(x, q) /\ ~x.own
  <2>1. q \in RequestOf(q.ch, q.unit)
    BY <1>4 DEF RequestOK
  <2>2. x \in RequestOf(q.ch, q.unit) /\ x.ch = q.ch /\ x.unit = q.unit /\ x.entries = q.entries /\ x.own = FALSE
        /\ x.stage = q.stage /\ x.flush = q.flush /\ x.seen = q.seen
    BY <1>5, <2>1 DEF RequestOf
  <2> QED
    BY <1>4, <2>2 DEF RequestOK, Turned
<1>6. \A q \in requests' : q \in requests \ given \/ \E p \in requests : q = [p EXCEPT !.own = FALSE]
  BY <1>3
<1>7. \A q \in requests' : \E p \in requests : Turned(q, p)
  BY <1>4, <1>5, <1>6
<1>8. \A q \in requests' : RequestOK(q)
  BY <1>4, <1>5, <1>6
<1>9. \A q \in requests' : q.own => q \in requests
  BY <1>5, <1>6
<1>10. ASSUME NEW q \in requests, q.own
       PROVE  Leaves(q) \/ CellsOf(q) \subseteq givenUp' \cup (IF tab = "left" THEN {} ELSE {erring})
  <2>1. CASE q \in given
    BY <1>3, <2>1
  <2>2. CASE q \notin given
    BY <1>3, <1>4, <1>10, <2>2 DEF Leaves
  <2> QED
    BY <2>1, <2>2
<1>11. givenUp' \subseteq Cells /\ failed' \subseteq Nat
  <2>1. \A q \in requests : CellsOf(q) \subseteq Cells
    BY OwnIsCarried DEF CellsOf, Inv
  <2>2. r.flush \in Nat
    BY <1>4 DEF RequestOK, RequestOf
  <2> QED
    BY <1>3, <2>1, <2>2 DEF Inv, TypeOK
<1> HIDE DEF given
<1>12. CASE tab = "left"
  <2>1. TypeOK'
    BY <1>3, <1>8, <1>11, <1>12 DEF Inv, TypeOK, RequestOK
  <2>2. Dated'
    BY <1>3, <1>9, <1>12 DEF Inv, Dated
  <2>3. \A q \in requests : q.own => Leaves(q)
    BY <1>10, <1>12 DEF Leaves
  <2>4. givenUp \subseteq givenUp'
    BY <1>3, <1>12
  <2> QED
    BY <1>3, <1>7, <1>12, <2>1, <2>2, <2>3, <2>4, TurnKeepsInv
<1>13. CASE tab # "left"
  <2>1. TimePasses /\ puts' = puts + 1 /\ Taken(erring, puts')
    BY <1>3, <1>13
  <2>2. PICK new : new = [unit |-> erring.unit, key |-> erring.key, val |-> puts', ts |-> clock']
    OBVIOUS
  <2>3. clock' \in Nat \ {0} /\ puts' \in Nat /\ puts' \in Contents /\ new \in Entry
    BY <1>2, <2>1, <2>2, CellFields, ContentsAreIntegers DEF Inv, TypeOK, TimePasses, Entry
  <2>4. local' \in [Cells -> Contents]
    BY <2>1, <2>3 DEF Inv, TypeOK, Taken
  <2>5. buffer' = [buffer EXCEPT ![erring.ch] = @ \cup {new}]
    BY <2>1, <2>2 DEF Taken
  <2>6. new.unit = erring.unit /\ new.key = erring.key /\ new.ts > 0
    BY <2>2, <2>3
  <2>7. buffer' \in [Channels -> SUBSET Entry]
    BY <1>2, <2>3, <2>5, CellFields DEF Inv, TypeOK
  <2>8. \A ch \in Channels : \A e \in buffer'[ch] : e \in buffer[ch] \/ (ch = erring.ch /\ e = new)
    BY <1>2, <2>5, CellFields DEF Inv, TypeOK
  <2>9. \A ch \in Channels : \A e \in buffer'[ch] : [ch |-> ch, unit |-> e.unit, key |-> e.key] \in Cells
    BY <1>2, <2>6, <2>8, CellFields DEF Inv, TypeOK
  <2>10. TypeOK'
    BY <1>8, <1>11, <2>3, <2>4, <2>7, <2>9 DEF Inv, TypeOK, RequestOK
  <2>11. Dated'
    BY <1>9, <2>6, <2>8 DEF Inv, Dated
  <2>12. \A q \in requests : q.own => Leaves(q) \/ CellsOf(q) \subseteq givenUp' \cup {erring}
    BY <1>10, <1>13
  <2>13. \A c \in Cells \ {erring} : c \in givenUp => c \in givenUp'
    BY <1>3
  <2> QED
    BY <1>2, <1>7, <2>1, <2>10, <2>11, <2>12, <2>13, TakenKeepsInv
<1> QED
  BY <1>12, <1>13

LEMMA NetworkErrorKeepsInv ==
  ASSUME Inv, NEW r \in requests, NetworkError(r)
  PROVE  Inv'
<1>1. r.own /\ troubles' \in Nat /\ UNCHANGED <<flushes, tab, closing, db>> /\ (Repeat(r) \/ Fail(r))
  BY DEF NetworkError, Inv, TypeOK
<1> QED
  BY <1>1, RepeatKeepsInv, FailKeepsInv

------------------------------------------------------------------------------
LEMMA InitInv ==
  ASSUME Init
  PROVE  Inv
<1>1. PICK reviewed \in SUBSET Units :
        db = [val |-> [c \in Cells |-> 0], ts |-> [c \in Cells |-> 0], rows |-> reviewed, locked |-> FALSE]
  BY DEF Init
<1>2. /\ clock = 1 /\ puts = 0 /\ local = [c \in Cells |-> 0] /\ buffer = [ch \in Channels |-> {}]
      /\ requests = {} /\ flushes = 0 /\ tab = "open" /\ closing = 0 /\ failed = {} /\ troubles = 0 /\ givenUp = {}
  BY DEF Init, Nobody
<1>3. TypeOK
  BY <1>1, <1>2, ContentsAreIntegers DEF TypeOK
<1>4. \A c \in Cells : db.val[c] = 0 /\ db.ts[c] = 0 /\ local[c] = 0 /\ Waiting(c) = {}
  BY <1>1, <1>2, CellFields DEF Waiting
<1>5. \A c \in Cells : \A v \in Past(c) : v = [val |-> 0, ts |-> 0]
  BY <1>2, <1>4 DEF Past, StoredVersions
<1>6. Versions
  BY <1>2, <1>4, <1>5 DEF Versions, Ordered
<1>7. Bounded /\ Dated
  BY <1>2, <1>4 DEF Bounded, Dated
<1>8. Holding /\ NothingVanishes
  BY <1>4 DEF Holding, NothingVanishes
<1> QED
  BY <1>3, <1>6, <1>7, <1>8 DEF Inv

LEMMA StepKeepsInv ==
  ASSUME Inv, [Next]_vars
  PROVE  Inv'
<1>1. CASE UNCHANGED vars
  BY <1>1 DEF vars, Inv, TypeOK, Versions, Ordered, Past, StoredVersions, Carried, Waiting, Version, Bounded,
              Dated, Holding, Held, HeldBy, NothingVanishes, Buffered, OnTheWay, CellOf, Object
<1>2. ASSUME NEW c \in Cells, AddToBuffer(c) PROVE Inv'
  BY <1>2, AddToBufferKeepsInv
<1>3. ASSUME NEW ch \in Channels, TimedFlush(ch) PROVE Inv'
  BY <1>3, TimedFlushKeepsInv
<1>4. CASE CloseAllBuffers
  BY <1>4, CloseAllBuffersKeepsInv
<1>5. CASE TerminateTest
  BY <1>5, TerminateTestKeepsInv
<1>6. CASE LeaveTest
  BY <1>6, LeaveTestKeepsInv
<1>7. CASE LoadTest
  BY <1>7, LoadTestKeepsInv
<1>8. CASE SetConnection
  BY <1>8, SetConnectionKeepsInv
<1>9. ASSUME NEW r \in requests, ReadState(r) PROVE Inv'
  BY <1>9, ReadStateKeepsInv
<1>10. ASSUME NEW r \in requests, WriteState(r) PROVE Inv'
  BY <1>10, WriteStateKeepsInv
<1>11. ASSUME NEW r \in requests, WriteDataParts(r) PROVE Inv'
  BY <1>11, WriteDataPartsKeepsInv
<1>12. ASSUME NEW r \in requests, Receive(r) PROVE Inv'
  BY <1>12, ReceiveKeepsInv
<1>13. ASSUME NEW r \in requests, NetworkError(r) PROVE Inv'
  BY <1>13, NetworkErrorKeepsInv
<1> QED
  BY <1>1, <1>2, <1>3, <1>4, <1>5, <1>6, <1>7, <1>8, <1>9, <1>10, <1>11, <1>12, <1>13 DEF Next

(* The invariant holds in every state of every tab and backend. *)
THEOREM InvCorrect == Spec => []Inv
<1>1. Init => Inv
  BY InitInv
<1>2. Inv /\ [Next]_vars => Inv'
  BY StepKeepsInv
<1> QED
  BY <1>1, <1>2, PTL DEF Spec

(* No handler of the buffers, of the requests or of the backend leaves a   *)
(* state that the program could not have.                                  *)
THEOREM TypeCorrect == Spec => []TypeOK
<1>1. Inv => TypeOK
  BY DEF Inv
<1> QED
  BY <1>1, InvCorrect, PTL

(* What the tab holds is stored, buffered, on the way, or lost for one of  *)
(* the known reasons, for any number of units, keys, requests and mishaps. *)
THEOREM NothingVanishesCorrect == Spec => []NothingVanishes
<1>1. Inv => NothingVanishes
  BY DEF Inv
<1> QED
  BY <1>1, InvCorrect, PTL

(* Leaving waits for all requests of the closing, so one that still carries*)
(* what the tab holds is of another flush.                                 *)
LEMMA LeavingLosesNothing ==
  ASSUME NothingVanishes, Next, tab = "ending", tab' = "left",
         NEW c \in Cells, c.ch = "data", ~Buffered(c), local[c] # 0, c \notin givenUp
  PROVE  \/ db.val[c] = local[c]
         \/ \E r \in requests : r.own /\ r.flush # closing /\ c \in CellsOf(r)
<1>1. Saved(closing)
  BY DEF Next, AddToBuffer, TimedFlush, CloseAllBuffers, TerminateTest, LeaveTest, LoadTest, SetConnection,
         ReadState, WriteState, WriteDataParts, Receive, NetworkError
<1>2. CASE OnTheWay(c)
  <2>1. PICK r \in requests : r.own /\ \E e \in r.entries : CellOf(r, e) = c
    BY <1>2 DEF OnTheWay
  <2>2. r.flush # closing
    BY <1>1 DEF Saved
  <2> QED
    BY <2>1, <2>2 DEF CellsOf
<1> QED
  BY <1>2 DEF NothingVanishes

(* Who ends the test loses no response on the way out, whatever else is    *)
(* repeated, refused, given up or taken up meanwhile.                      *)
THEOREM LeavingCorrect == Spec => ResponsesLeaveWithTestee
<1>1. NothingVanishes /\ [Next]_vars /\ tab = "ending" /\ tab' = "left"
        => \A c \in Cells : c.ch = "data" /\ ~Buffered(c) /\ local[c] # 0 /\ c \notin givenUp =>
             \/ db.val[c] = local[c]
             \/ \E r \in requests : r.own /\ r.flush # closing /\ c \in CellsOf(r)
  BY LeavingLosesNothing DEF vars
<1> QED
  BY <1>1, NothingVanishesCorrect, PTL DEF Spec, ResponsesLeaveWithTestee

------------------------------------------------------------------------------
(* The refinement *)

ResponsesAreNumbers == \A c \in Responses : db.val[c] \in Nat

(* A merge of data parts only puts later contents in their places. *)
LEMMA LaterResponses ==
  ASSUME Inv, ResponsesAreNumbers, NEW r \in requests, WriteDataParts(r), NEW c \in Responses
  PROVE  db'.val[c] \in 0 .. puts /\ db'.val[c] >= db.val[c]
<1>1. r.ch = "data" /\ RequestOK(r) /\ clock \in Nat /\ puts \in Nat
  BY DEF Inv, TypeOK, RequestOK, WriteDataParts
<1> DEFINE old == Stored("data", r.unit)
           new == ApplyPatch(r, old)
<1>2. /\ old \in ReadOf(r.ch, r.unit)
      /\ \A x \in Object(r.ch, r.unit) : old.val[x] = db.val[x] /\ old.ts[x] = db.ts[x]
  BY <1>1, StoredOfObject DEF Inv, RequestOK
<1>3. c \in Cells /\ c.ch = "data" /\ db.val[c] \in Nat /\ db.val[c] <= puts /\ db.ts[c] \in Nat
  BY StoredTyped DEF Responses, ResponsesAreNumbers, Inv, Bounded
<1>4. ASSUME NEW e \in r.entries
      PROVE  /\ e.val \in Int /\ e.ts \in Nat /\ e.ts <= clock
             /\ e.key = c.key /\ c.unit = r.unit /\ e.ts > 0 => Version(e) \in Past(c) /\ e.val <= puts
  <2>1. e.val \in Int /\ e.ts \in Nat /\ CellOf(r, e) \in Cells
        /\ (e.ts > 0 => Version(e) \in Past(CellOf(r, e)))
    BY OwnIsCarried DEF Inv
  <2>2. e.ts > 0 => Version(e).ts <= clock /\ Version(e).val <= puts
    BY <2>1 DEF Inv, Versions
  <2>3. e.key = c.key /\ c.unit = r.unit => CellOf(r, e) = c
    BY <1>1, <1>3, CellFields DEF CellOf
  <2> QED
    BY <1>1, <2>1, <2>2, <2>3 DEF Version
<1>5. /\ new \in ReadOf(r.ch, r.unit)
      /\ \A x \in Object(r.ch, r.unit) :
           \/ new.val[x] = old.val[x]
           \/ \E w \in r.entries : w.key = x.key /\ w.ts > old.ts[x] /\ new.val[x] = w.val
  <2> HIDE DEF old
  <2> QED
    BY <1>1, <1>2, <1>4, ApplyPatchResult
<1> HIDE DEF old, new
<1>6. db'.val[c] = IF c \in Object(r.ch, r.unit) THEN new.val[c] ELSE db.val[c]
  <2>1. DOMAIN new.val = Object(r.ch, r.unit)
    BY <1>5 DEF ReadOf
  <2>2. db' = Replaced("data", new)
    BY DEF WriteDataParts, old, new
  <2>3. db \in [val : [Cells -> Contents], ts : [Cells -> Nat], rows : SUBSET Units, locked : BOOLEAN]
    BY DEF Inv, TypeOK
  <2> QED
    BY <1>3, <2>1, <2>2, <2>3 DEF Replaced
<1>7. CASE c \notin Object(r.ch, r.unit)
  BY <1>1, <1>3, <1>6, <1>7
<1>8. CASE c \in Object(r.ch, r.unit)
  <2>1. c.unit = r.unit /\ old.val[c] = db.val[c] /\ old.ts[c] = db.ts[c]
    BY <1>2, <1>8 DEF Object
  <2>2. CASE new.val[c] = old.val[c]
    BY <1>1, <1>3, <1>6, <1>8, <2>1, <2>2
  <2>3. ASSUME NEW w \in r.entries, w.key = c.key, w.ts > db.ts[c], new.val[c] = w.val
        PROVE  db'.val[c] \in 0 .. puts /\ db'.val[c] >= db.val[c]
    <3>1. w.ts > 0 /\ w.val \in Int
      BY <1>3, <1>4, <2>3
    <3>2. Version(w) \in Past(c) /\ w.val <= puts
      BY <1>4, <2>1, <2>3, <3>1
    <3>3. [val |-> db.val[c], ts |-> db.ts[c]] \in Past(c)
      BY <1>3 DEF Past, StoredVersions
    <3>4. db.val[c] <= w.val
      BY <1>3, <2>3, <3>2, <3>3 DEF Inv, Versions, Ordered, Version
    <3> QED
      BY <1>1, <1>3, <1>6, <1>8, <2>3, <3>1, <3>2, <3>4
  <2> QED
    BY <1>5, <1>8, <2>1, <2>2, <2>3
<1> QED
  BY <1>7, <1>8

(* The other actions of the backend leave the responses alone. *)
LEMMA OtherResponses ==
  ASSUME Inv, [Next]_vars, ~\E r \in requests : WriteDataParts(r), NEW c \in Responses
  PROVE  db'.val[c] = db.val[c]
<1>1. ASSUME NEW r \in requests, WriteState(r) PROVE db'.val[c] = db.val[c]
  <2>1. r.stage = "read" /\ RequestOK(r) /\ r.ch # "data"
    BY <1>1 DEF Inv, TypeOK, RequestOK, WriteState
  <2>2. r.seen \in ReadOf(r.ch, r.unit) /\ \A e \in r.entries : e.ts <= clock
    <3>1. ASSUME NEW e \in r.entries PROVE e.ts <= clock
      <4>1. e.ts \in Nat /\ CellOf(r, e) \in Cells /\ (e.ts > 0 => Version(e) \in Past(CellOf(r, e)))
        BY OwnIsCarried DEF Inv
      <4>2. e.ts > 0 => Version(e).ts <= clock
        BY <4>1 DEF Inv, Versions
      <4> QED
        BY <4>1, <4>2 DEF Version, Inv, TypeOK
    <3> QED
      BY <2>1, <3>1 DEF RequestOK
  <2>3. clock \in Nat
    BY DEF Inv, TypeOK
  <2> DEFINE new == ApplyPatch(r, r.seen)
  <2>4. DOMAIN new.val = Object(r.ch, r.unit)
    <3>1. new \in ReadOf(r.ch, r.unit)
      BY <2>1, <2>2, <2>3, ApplyPatchResult
    <3> HIDE DEF new
    <3> QED
      BY <3>1 DEF ReadOf
  <2>5. c \in Cells /\ c \notin Object(r.ch, r.unit)
    BY <2>1 DEF Responses, Object
  <2>6. db \in [val : [Cells -> Contents], ts : [Cells -> Nat], rows : SUBSET Units, locked : BOOLEAN]
    BY DEF Inv, TypeOK
  <2>7. Replaced(r.ch, new).val[c] = db.val[c]
    <3> HIDE DEF new
    <3> QED
      BY <2>4, <2>5, <2>6 DEF Replaced
  <2>8. db'.val = Replaced(r.ch, new).val
    <3>1. db' = [Replaced(r.ch, new) EXCEPT !.rows = IF r.ch = "unit" THEN @ \cup {r.unit} ELSE @]
      BY <1>1 DEF WriteState
    <3> HIDE DEF new
    <3> QED
      BY <2>6, <3>1 DEF Replaced
  <2> QED
    BY <2>7, <2>8
<1>2. CASE LeaveTest
  BY <1>2 DEF LeaveTest, Inv, TypeOK
<1>3. CASE UNCHANGED db
  BY <1>3
<1>4. \/ UNCHANGED db \/ LeaveTest
      \/ \E r \in requests : WriteState(r)
  BY DEF Next, vars, AddToBuffer, TimedFlush, CloseAllBuffers, TerminateTest, LoadTest, SetConnection, ReadState,
         Receive, NetworkError
<1> QED
  BY <1>1, <1>2, <1>3, <1>4

(* Contents are numbered one after the other. *)
LEMMA PutsCount ==
  ASSUME Inv, [Next]_vars
  PROVE  /\ puts' = puts \/ puts' = puts + 1
         /\ (\E r \in requests : WriteDataParts(r)) => puts' = puts
         /\ puts' = puts + 1 => UNCHANGED db
<1>1. /\ puts' = puts \/ puts' = puts + 1
      /\ puts' = puts + 1 => puts' = puts \/ UNCHANGED db
  BY DEF Next, vars, AddToBuffer, TimedFlush, CloseAllBuffers, TerminateTest, LeaveTest, LoadTest, SetConnection,
         ReadState, WriteState, WriteDataParts, Receive, NetworkError, Repeat, Fail
<1>2. puts \in Nat
  BY DEF Inv, TypeOK
<1> QED
  BY <1>1, <1>2 DEF WriteDataParts

LEMMA StepIsStoreStep ==
  ASSUME Inv, ResponsesAreNumbers, [Next]_vars
  PROVE  /\ ResponsesAreNumbers'
         /\ [Store!Next]_<<puts, [c \in Responses |-> db.val[c]]>>
<1>1. puts \in Nat /\ \A c \in Responses : db.val[c] \in Nat /\ db.val[c] <= puts
  BY DEF ResponsesAreNumbers, Responses, Inv, TypeOK, Bounded
<1>2. CASE \E r \in requests : WriteDataParts(r)
  <2>1. \A c \in Responses : db'.val[c] \in 0 .. puts /\ db'.val[c] >= db.val[c]
    BY <1>2, LaterResponses
  <2>2. puts' = puts
    BY <1>2, PutsCount
  <2>3. [c \in Responses |-> db'.val[c]] \in [Responses -> 0 .. puts]
    BY <2>1
  <2>4. Store!Store
    BY <2>1, <2>2, <2>3 DEF Store!Store
  <2> QED
    BY <1>1, <2>1, <2>4 DEF Store!Next, ResponsesAreNumbers
<1>3. CASE ~\E r \in requests : WriteDataParts(r)
  <2>1. \A c \in Responses : db'.val[c] = db.val[c]
    BY <1>3, OtherResponses
  <2>2. [c \in Responses |-> db'.val[c]] = [c \in Responses |-> db.val[c]]
    BY <2>1
  <2>3. puts' = puts \/ puts' = puts + 1
    BY PutsCount
  <2>4. puts' = puts + 1 => Store!Take
    BY <2>2 DEF Store!Take
  <2> QED
    BY <1>1, <2>1, <2>2, <2>3, <2>4 DEF Store!Next, ResponsesAreNumbers
<1> QED
  BY <1>2, <1>3

(* The way of a response into the database implements the store in which   *)
(* a later content is never replaced by an earlier one.                    *)
THEOREM ResponsesCorrect == Spec => ResponsesNeverGoBack
<1>1. Init => ResponsesAreNumbers /\ Store!Init
  <2>1. Init => \A c \in Responses : db.val[c] = 0
    BY DEF Init, Responses
  <2>2. Init => puts = 0
    BY DEF Init
  <2> QED
    BY <2>1, <2>2 DEF ResponsesAreNumbers, Store!Init
<1>2. Inv /\ ResponsesAreNumbers /\ [Next]_vars
        => ResponsesAreNumbers' /\ [Store!Next]_<<puts, [c \in Responses |-> db.val[c]]>>
  BY StepIsStoreStep
<1> QED
  BY <1>1, <1>2, InvCorrect, PTL DEF Spec, ResponsesNeverGoBack, Store!Spec
==============================================================================
