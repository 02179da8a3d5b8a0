-------------------------- MODULE BookletStatesProofs --------------------------
(***************************************************************************)
(* Theorems of BookletStates, for any booklets, schemes, presets, players  *)
(* and bounds: whatever is loaded, answered, chosen and buffered in        *)
(* whatever order, the states are those of the variables, they decide what *)
(* is shown, and the backend has them unless they wait in the buffer.      *)
(***************************************************************************)
EXTENDS BookletStates, FiniteSetTheorems, SequenceTheorems, NaturalsInduction, WellFoundedInduction, TLAPS

------------------------------------------------------------------------------
(* The inductive invariant *)

(* What players may report: a unit and the responses to it. *)
Reports == UNION {{<<u, content>> : content \in Content(Unit(u).id)} : u \in Units}

Typed ==
  /\ file \in BookletFiles /\ booklet = Parse(file)
  /\ TypeOK
  /\ buffer \in Seq(Reports)
  /\ player # "none" => phase = "running"
  /\ phase \in {"loading", "running"} => variables = [u \in Units |-> variables[u]]

(* States, what is hidden and what was put last, of the variables. *)
LastPutOf(effective) == IF States = {} THEN {} ELSE {effective}
Decided ==
  phase = "running" =>
    /\ StatesAreEvaluated /\ HiddenAsDecided
    /\ lastPut = LastPutOf(Effective(current, override))

(* What was put last waits in the buffer, or the backend has it. *)
Sent(put, buf, test) ==
  /\ buf = [states |-> buf.states, unit |-> buf.unit]
  /\ test = [parts |-> test.parts, states |-> test.states, unit |-> test.unit]
  /\ buf.states \in {{}, put}
  /\ buf.states = {} /\ put # {} => test.states = put
  /\ States = {} => put = {}

Inv == Typed /\ BufferIsOfOneUnit /\ Decided /\ Sent(lastPut, stateBuffer, db)

------------------------------------------------------------------------------
(* Numbers *)

(* A set of numbers that is not empty has a least element. *)
LEMMA LeastNat ==
  ASSUME NEW U \in SUBSET Nat, U # {}
  PROVE  First(U) \in U
<1> DEFINE R == {p \in Nat \X Nat : p[1] < p[2]}
<1>1. IsWellFoundedOn(R, Nat)
  BY NatLessThanWellFounded DEF OpToRel
<1>2. PICK n \in U : \A m \in U : ~(<<m, n>> \in R)
  <2> HIDE DEF R
  <2> QED
    BY <1>1, WFMin
<1>3. ASSUME NEW m \in U PROVE n <= m
  <2>1. m \in Nat /\ n \in Nat
    OBVIOUS
  <2>2. <<m, n>> \in Nat \X Nat /\ <<m, n>>[1] = m /\ <<m, n>>[2] = n
    BY <2>1
  <2> QED
    BY <1>2, <2>1, <2>2
<1> QED
  BY <1>2, <1>3 DEF First

(* The elements of a finite set in the order of their numbers: each one at one place. *)
LEMMA InOrderBijection ==
  ASSUME NEW number, IsFiniteSet(DOMAIN number), \A x \in DOMAIN number : number[x] \in Int,
         \A x, y \in DOMAIN number : number[x] = number[y] => x = y
  PROVE  LET n == Cardinality(DOMAIN number)
         IN  /\ InOrder(number) \in [1 .. n -> DOMAIN number]
             /\ \A j, k \in 1 .. n : InOrder(number)[j] = InOrder(number)[k] => j = k
             /\ \A x \in DOMAIN number : \E k \in 1 .. n : InOrder(number)[k] = x
<1> DEFINE S == DOMAIN number
           n == Cardinality(S)
           below(x) == {y \in S : number[y] <= number[x]}
           place == [x \in S |-> Cardinality(below(x))]
<1>1. n \in Nat
  BY FS_CardinalityType
<1>2. ASSUME NEW x \in S PROVE IsFiniteSet(below(x)) /\ place[x] \in 1 .. n
  <2>1. below(x) \in SUBSET S /\ x \in below(x)
    OBVIOUS
  <2>2. IsFiniteSet(below(x)) /\ Cardinality(below(x)) <= n
    BY <2>1, FS_Subset
  <2>3. Cardinality(below(x)) \in Nat /\ Cardinality(below(x)) # 0
    BY <2>1, <2>2, FS_CardinalityType, FS_EmptySet
  <2> QED
    BY <1>1, <2>2, <2>3
<1>3. ASSUME NEW x \in S, NEW y \in S, number[x] < number[y] PROVE place[x] # place[y]
  <2>1. below(x) \in SUBSET below(y) /\ y \in below(y) /\ y \notin below(x)
    BY <1>3
  <2>2. IsFiniteSet(below(y))
    BY <1>2
  <2> QED
    BY <2>1, <2>2, FS_Subset
<1>4. \A x, y \in S : place[x] = place[y] => x = y
  <2>1. \A x, y \in S : number[x] < number[y] \/ number[y] < number[x] \/ number[x] = number[y]
    OBVIOUS
  <2> HIDE DEF place
  <2> QED
    BY <1>3, <2>1
<1>5. place \in Injection(S, 1 .. n)
  <2>1. place \in [S -> 1 .. n]
    <3>1. place = [x \in S |-> place[x]]
      OBVIOUS
    <3> HIDE DEF place, n
    <3> QED
      BY <1>2, <3>1
  <2> HIDE DEF place, n
  <2> QED
    BY <1>4, <2>1 DEF Injection, IsInjective
<1>6. \A k \in 1 .. n : \E x \in S : place[x] = k
  <2>1. IsFiniteSet(1 .. n) /\ Cardinality(1 .. n) = n
    BY <1>1, FS_Interval
  <2>2. place \in Surjection(S, 1 .. n)
    <3> HIDE DEF place
    <3> QED
      BY <1>5, <2>1, FS_Injection
  <2> HIDE DEF place, n
  <2> QED
    BY <2>2 DEF Surjection
<1>7. InOrder(number) = [k \in 1 .. n |-> CHOOSE x \in S : place[x] = k]
  <2>1. \A k : (CHOOSE x \in S : Cardinality(below(x)) = k) = (CHOOSE x \in S : place[x] = k)
    OBVIOUS
  <2>2. InOrder(number) = [k \in 1 .. n |-> CHOOSE x \in S : Cardinality(below(x)) = k]
    BY DEF InOrder
  <2> HIDE DEF place, below, n
  <2> QED
    BY <2>1, <2>2
<1> HIDE DEF place, n, S
<1>8. \A k \in 1 .. n : InOrder(number)[k] \in S /\ place[InOrder(number)[k]] = k
  BY <1>6, <1>7
<1>9. InOrder(number) \in [1 .. n -> S]
  BY <1>7, <1>8
<1>10. \A j, k \in 1 .. n : InOrder(number)[j] = InOrder(number)[k] => j = k
  BY <1>8
<1>11. ASSUME NEW x \in S PROVE \E k \in 1 .. n : InOrder(number)[k] = x
  <2>1. place[x] \in 1 .. n
    BY <1>2
  <2>2. InOrder(number)[place[x]] \in S /\ place[InOrder(number)[place[x]]] = place[x]
    BY <1>8, <2>1
  <2>3. InOrder(number)[place[x]] = x
    BY <1>4, <2>2
  <2> QED
    BY <2>1, <2>3
<1> QED
  BY <1>9, <1>10, <1>11 DEF n, S

------------------------------------------------------------------------------
(* The operators on booklets and states *)

(* A booklet that can be read has numbered units and options for each state. *)
LEMMA BookletFacts ==
  ASSUME Typed, booklet # Invalid
  PROVE  /\ Len(booklet.units) \in Nat /\ Units = 1 .. Len(booklet.units)
         /\ \A s \in States :
              /\ Len(booklet.states[s]) \in Nat \ {0}
              /\ DOMAIN booklet.states[s] = 1 .. Len(booklet.states[s])
              /\ HasDefault(booklet.states[s])
<1>1. /\ Len(booklet.units) \in Nat /\ Units = 1 .. Len(booklet.units)
      /\ \A s \in States : /\ Len(booklet.states[s]) \in Nat
                           /\ DOMAIN booklet.states[s] = 1 .. Len(booklet.states[s])
                           /\ HasDefault(booklet.states[s])
  BY ParseAssumption DEF Typed, Units, States
<1> QED
  BY <1>1 DEF HasDefault

LEMMA EvaluatedType ==
  ASSUME Typed, booklet # Invalid, NEW known, NEW s \in States
  PROVE  Evaluated(known)[s] \in OptionsOf(s)
<1> DEFINE options == booklet.states[s]
           matching == Matching(options, ByAlias(known))
           i == IF matching = {} THEN Len(options) ELSE First(matching)
<1>1. Len(options) \in Nat \ {0} /\ DOMAIN options = 1 .. Len(options)
  BY BookletFacts
<1>2. matching \subseteq DOMAIN options
  BY DEF Matching
<1>3. i \in DOMAIN options
  <2>1. matching # {} => First(matching) \in matching
    <3>1. matching \in SUBSET Nat
      BY <1>1, <1>2
    <3> QED
      BY <3>1, LeastNat
  <2> QED
    BY <1>1, <1>2, <2>1
<1>4. Evaluated(known)[s] = options[i].id
  BY DEF Evaluated
<1> QED
  BY <1>3, <1>4 DEF OptionsOf, Range

LEMMA DefaultType ==
  ASSUME Typed, booklet # Invalid, NEW s \in States
  PROVE  DefaultOf(booklet.states[s]) \in OptionsOf(s)
<1> DEFINE options == booklet.states[s]
           without == {i \in DOMAIN options : options[i].conditions = <<>>}
<1>1. without \in SUBSET Nat /\ without # {}
  BY BookletFacts DEF HasDefault
<1>2. First(without) \in DOMAIN options
  BY <1>1, LeastNat
<1> QED
  BY <1>2 DEF DefaultOf, OptionsOf, Range

(* What is of one unit comes out of the sorting as its latest entry, or not at all. *)
LEMMA SortedOneUnit ==
  ASSUME NEW buf, Len(buf) \in Nat, DOMAIN buf = 1 .. Len(buf),
         NEW u, \A b \in Range(buf) : b[1] = u
  PROVE  /\ Len(buf) = 0 => Len(Sorted(buf)) = 0
         /\ Len(buf) # 0 => Len(Sorted(buf)) = 1 /\ Sorted(buf)[1] = buf[Len(buf)]
<1>1. \A i \in DOMAIN buf : buf[i][1] = u
  BY DEF Range
<1>2. Firsts(buf) = IF Len(buf) = 0 THEN {} ELSE {1}
  <2>1. ASSUME NEW i \in Firsts(buf), i # 1 PROVE FALSE
    <3>1. i \in 1 .. Len(buf) /\ \A j \in 1 .. (i - 1) : buf[j][1] # buf[i][1]
      BY DEF Firsts
    <3>2. 1 \in 1 .. (i - 1) /\ 1 \in DOMAIN buf
      BY <2>1, <3>1
    <3> QED
      BY <1>1, <3>1, <3>2
  <2>2. Len(buf) # 0 => 1 \in Firsts(buf)
    BY DEF Firsts
  <2>3. Firsts(buf) \subseteq 1 .. Len(buf)
    BY DEF Firsts
  <2> QED
    BY <2>1, <2>2, <2>3
<1> DEFINE n == Cardinality(Firsts(buf))
           number == [i \in Firsts(buf) |-> i]
           latest(w) == CHOOSE i \in DOMAIN buf : buf[i][1] = w /\ \A j \in (i + 1)..Len(buf) : buf[j][1] # w
<1>3. n = IF Len(buf) = 0 THEN 0 ELSE 1
  BY <1>2, FS_EmptySet, FS_Singleton
<1>4. Sorted(buf) = [k \in 1 .. n |-> buf[latest(buf[InOrder(number)[k]][1])]]
  BY DEF Sorted
<1>5. Len(Sorted(buf)) = n
  <2> DEFINE f == Sorted(buf)
  <2>1. f = [k \in 1 .. n |-> f[k]]
    BY DEF Sorted
  <2>2. n \in Nat
    BY <1>3
  <2> HIDE DEF f, n
  <2>3. Len(f) = n
    BY <2>1, <2>2
  <2> QED
    BY <2>3 DEF f
<1>6. ASSUME Len(buf) # 0 PROVE Sorted(buf)[1] = buf[Len(buf)]
  <2>1. InOrder(number)[1] = 1
    <3>1. DOMAIN number = {1} /\ IsFiniteSet(DOMAIN number) /\ Cardinality(DOMAIN number) = 1
      BY <1>2, <1>6, FS_Singleton
    <3>2. number[1] = 1
      BY <1>2, <1>6
    <3> HIDE DEF number
    <3>3. InOrder(number)[1] \in DOMAIN number
      BY <3>1, <3>2, InOrderBijection
    <3> QED
      BY <3>1, <3>3
  <2>2. latest(u) = Len(buf)
    <3>1. Len(buf) \in DOMAIN buf /\ buf[Len(buf)][1] = u /\ \A j \in (Len(buf) + 1) .. Len(buf) : buf[j][1] # u
      BY <1>1, <1>6
    <3>2. ASSUME NEW i \in DOMAIN buf, \A j \in (i + 1) .. Len(buf) : buf[j][1] # u PROVE i = Len(buf)
      <4>1. i < Len(buf) => Len(buf) \in (i + 1) .. Len(buf)
        OBVIOUS
      <4> QED
        BY <3>1, <3>2, <4>1
    <3> QED
      BY <3>1, <3>2
  <2>3. 1 \in 1 .. n /\ buf[1][1] = u
    BY <1>1, <1>3, <1>6
  <2> HIDE DEF latest, n, number
  <2> QED
    BY <1>4, <2>1, <2>2, <2>3
<1> QED
  BY <1>3, <1>5, <1>6

(* After the buffer is closed: its one unit knows what it has reported last.  Nothing is *)
(* overlooked: if the last result says that no variable has changed, none has.           *)
LEMMA AfterOneUnit ==
  ASSUME Typed, BufferIsOfOneUnit
  PROVE  /\ buffer = <<>> => AfterBuffer.known = variables /\ ~AfterBuffer.changed
         /\ buffer # <<>> =>
              LET u == buffer[Len(buffer)][1]
                  content == buffer[Len(buffer)][2]
              IN  /\ AfterBuffer.known =
                       [variables EXCEPT ![u] = Updated(Unit(u), variables[u], content, SchemeLoaded(u, toLoad))]
                  /\ AfterBuffer.changed <=> Taken(variables[u], content) # variables[u]
<1> DEFINE todo == Sorted(buffer)
           start == [known |-> variables, changed |-> FALSE]
           next(k, r) ==
             [known |-> [r.known EXCEPT ![todo[k][1]] =
                Updated(Unit(todo[k][1]), r.known[todo[k][1]], todo[k][2], SchemeLoaded(todo[k][1], toLoad))],
              changed |-> Taken(r.known[todo[k][1]], todo[k][2]) # r.known[todo[k][1]]]
           IsAfter(g) == g = [k \in 0 .. Len(todo) |-> IF k = 0 THEN start ELSE next(k, g[k - 1])]
<1>1. Len(buffer) \in Nat /\ DOMAIN buffer = 1 .. Len(buffer) /\ (Len(buffer) = 0 <=> buffer = <<>>)
  BY DEF Typed
<1>2. /\ Len(buffer) = 0 => Len(todo) = 0
      /\ Len(buffer) # 0 => Len(todo) = 1 /\ todo[1] = buffer[Len(buffer)]
  BY <1>1, SortedOneUnit DEF BufferIsOfOneUnit
<1>9. Len(todo) = IF buffer = <<>> THEN 0 ELSE 1
  BY <1>1, <1>2
<1>3. AfterBuffer = (CHOOSE g : IsAfter(g))[Len(todo)]
  BY DEF AfterBuffer, AfterEach
<1>4. \E g : IsAfter(g)
  <2> DEFINE g == [k \in 0 .. Len(todo) |-> IF k = 0 THEN start ELSE next(k, start)]
  <2>1. \A k \in 0 .. Len(todo) : k # 0 => g[k - 1] = start
    <3> HIDE DEF start, next, todo
    <3> QED
      BY <1>9
  <2>2. IsAfter(g)
    <3> HIDE DEF start, todo
    <3> QED
      BY <2>1
  <2> QED
    BY <2>2
<1>5. PICK g : IsAfter(g) /\ AfterBuffer = g[Len(todo)]
  <2> HIDE DEF IsAfter
  <2> QED
    BY <1>3, <1>4
<1>6. g[0] = start
  <2> HIDE DEF start, next
  <2> QED
    BY <1>1, <1>2, <1>5
<1>7. CASE buffer = <<>>
  <2>1. AfterBuffer = start
    <3> HIDE DEF start, next, todo
    <3> QED
      BY <1>5, <1>6, <1>7, <1>9
  <2> QED
    BY <1>7, <2>1
<1>8. CASE buffer # <<>>
  <2>1. AfterBuffer = next(1, start)
    <3> HIDE DEF start, next, todo
    <3> QED
      BY <1>5, <1>6, <1>8, <1>9
  <2>2. todo[1] = buffer[Len(buffer)]
    BY <1>1, <1>2, <1>8
  <2> QED
    BY <1>8, <2>1, <2>2
<1> QED
  BY <1>7, <1>8

LEMMA UnchangedAfterBuffer ==
  ASSUME Typed, BufferIsOfOneUnit, phase = "running"
  PROVE  /\ AfterBuffer.known = [u \in Units |-> AfterBuffer.known[u]]
         /\ ~AfterBuffer.changed => AfterBuffer.known = variables
<1>1. variables = [u \in Units |-> variables[u]]
  BY DEF Typed
<1>2. CASE buffer = <<>>
  BY <1>1, <1>2, AfterOneUnit
<1>3. CASE buffer # <<>>
  <2> DEFINE u == buffer[Len(buffer)][1]
             content == buffer[Len(buffer)][2]
             after == Updated(Unit(u), variables[u], content, SchemeLoaded(u, toLoad))
  <2>1. /\ AfterBuffer.known = [variables EXCEPT ![u] = after]
        /\ ~AfterBuffer.changed => Taken(variables[u], content) = variables[u]
    BY <1>3, AfterOneUnit
  <2>2. ~AfterBuffer.changed => after = variables[u]
    BY <2>1 DEF Updated
  <2> HIDE DEF u, content, after
  <2> QED
    BY <1>1, <2>1, <2>2
<1> QED
  BY <1>2, <1>3

------------------------------------------------------------------------------
(* The buffer of the test state *)

(* States that are put are in the buffer, or were there or in the backend already. *)
LEMMA WithStatesSends ==
  ASSUME NEW buf, NEW test, Sent(lastPut, buf, test), NEW effective
  PROVE  Sent(LastPutOf(effective), WithStates(buf, effective), test)
<1>1. CASE States = {}
  BY <1>1 DEF Sent, WithStates, LastPutOf
<1>2. CASE States # {} /\ lastPut = {effective}
  BY <1>2 DEF Sent, WithStates, LastPutOf
<1>3. CASE States # {} /\ lastPut # {effective}
  <2>1. WithStates(buf, effective) = [buf EXCEPT !.states = {effective}]
    BY <1>3 DEF WithStates
  <2>2. buf = [states |-> buf.states, unit |-> buf.unit]
    BY DEF Sent
  <2>3. [buf EXCEPT !.states = {effective}] = [states |-> {effective}, unit |-> buf.unit]
    BY <2>2
  <2> QED
    BY <1>3, <2>1, <2>3 DEF Sent, LastPutOf
<1> QED
  BY <1>1, <1>2, <1>3

(* A closed buffer leaves nothing behind that the backend has not. *)
LEMMA StateStoredSends ==
  ASSUME NEW put, NEW buf, NEW test, Sent(put, buf, test)
  PROVE  Sent(put, NothingBuffered, StateStored(test, buf))
<1>1. test = [parts |-> test.parts, states |-> test.states, unit |-> test.unit]
  BY DEF Sent
<1> DEFINE states == IF buf.states = {} THEN test.states ELSE buf.states
           number == IF buf.unit = NoUnit THEN test.unit ELSE buf.unit
<1>2. StateStored(test, buf) = [parts |-> test.parts, states |-> states, unit |-> number]
  <2>1. StateStored(test, buf) = [test EXCEPT !.states = states, !.unit = number]
    BY DEF StateStored
  <2>2. DOMAIN test = {"parts", "states", "unit"}
    BY <1>1
  <2> HIDE DEF states, number
  <2> QED
    BY <2>1, <2>2
<1>3. put # {} => states = put
  BY DEF Sent
<1> QED
  BY <1>2, <1>3 DEF Sent, NothingBuffered

LEMMA PartsStoredSend ==
  ASSUME NEW put, NEW buf, NEW test, Sent(put, buf, test), NEW responses
  PROVE  Sent(put, buf, [test EXCEPT !.parts = responses])
<1>1. test = [parts |-> test.parts, states |-> test.states, unit |-> test.unit]
  BY DEF Sent
<1>2. [test EXCEPT !.parts = responses] = [parts |-> responses, states |-> test.states, unit |-> test.unit]
  BY <1>1
<1> QED
  BY <1>2 DEF Sent

------------------------------------------------------------------------------
(* What several actions do *)

LEMMA GivenFacts ==
  ASSUME Typed, UNCHANGED given
  PROVE  /\ file' \in BookletFiles /\ booklet' = Parse(file') /\ Units' = Units /\ States' = States
         /\ \A s \in States : OptionsOf(s)' = OptionsOf(s)
         /\ Reports' = Reports /\ Conditional' = Conditional
  BY DEF Typed, given, Units, States, OptionsOf, Reports, Unit, Conditional

(* The states of the variables, what they hide and what is put of them. *)
DecidedBy(known, cur, over, concealed, put) ==
  /\ cur = Evaluated(known)
  /\ concealed = HiddenBy(Effective(cur, over))
  /\ put = LastPutOf(Effective(cur, over))

LEMMA DecidedNext ==
  ASSUME UNCHANGED given, DecidedBy(variables', current', override', hidden', lastPut')
  PROVE  Decided'
<1>1. States' = States /\ Evaluated(variables)' = Evaluated(variables')
  BY DEF given, Evaluated, States, Matching, ByAlias, Units, Unit
<1>2. Effective(current, override)' = Effective(current', override')
  BY <1>1 DEF Effective
<1>3. HiddenBy(Effective(current, override))' = HiddenBy(Effective(current', override'))
  BY <1>2 DEF HiddenBy, Conditional, given
<1>4. LastPutOf(Effective(current, override))' = LastPutOf(Effective(current', override'))
  BY <1>1, <1>2 DEF LastPutOf
<1> QED
  BY <1>1, <1>3, <1>4 DEF DecidedBy, Decided, StatesAreEvaluated, HiddenAsDecided

LEMMA DecidedNow ==
  ASSUME Decided, phase = "running"
  PROVE  DecidedBy(variables, current, override, hidden, lastPut)
  BY DEF Decided, StatesAreEvaluated, HiddenAsDecided, DecidedBy

LEMMA SentNext ==
  ASSUME UNCHANGED given, Sent(lastPut', stateBuffer', db')
  PROVE  Sent(lastPut, stateBuffer, db)'
  BY DEF given, Sent, States

(* evaluateConditions *)
LEMMA EvaluateConditionsKeeps ==
  ASSUME Inv, NEW known, variables' = known, EvaluateConditions(known)
  PROVE  /\ DecidedBy(variables', current', override', hidden', lastPut')
         /\ Sent(lastPut', stateBuffer', db)
<1> DEFINE effective == Effective(Evaluated(known), override)
<1>1. StateOptionChanged(Evaluated(known), override) /\ stateBuffer' = WithStates(stateBuffer, effective)
  BY DEF EvaluateConditions
<1>2. current' = Evaluated(known) /\ override' = override /\ hidden' = HiddenBy(effective)
      /\ lastPut' = LastPutOf(effective)
  BY <1>1 DEF StateOptionChanged, LastPutOf
<1>3. Sent(lastPut', stateBuffer', db)
  BY <1>1, <1>2, WithStatesSends DEF Inv
<1> QED
  BY <1>2, <1>3 DEF DecidedBy

(* The responses in the buffer are handled; what this puts is still to go into a buffer. *)
LEMMA CloseDataBufferKeeps ==
  ASSUME Inv, phase = "running", CloseDataBuffer
  PROVE  /\ DecidedBy(variables', current', override', hidden', lastPut')
         /\ override' = override /\ buffer' = <<>> /\ variables' = [u \in Units |-> variables'[u]]
         /\ \A buf, test : Sent(lastPut, buf, test) => Sent(lastPut', WithNewStates(buf), test)
<1> DEFINE effective == Effective(Evaluated(AfterBuffer.known), override)
<1>3. AfterBuffer.known = [u \in Units |-> AfterBuffer.known[u]]
  BY UnchangedAfterBuffer DEF Inv
<1>1. CASE AfterBuffer.changed
  <2>1. variables' = AfterBuffer.known /\ buffer' = <<>>
        /\ StateOptionChanged(Evaluated(AfterBuffer.known), override)
    BY <1>1 DEF CloseDataBuffer
  <2>2. current' = Evaluated(AfterBuffer.known) /\ override' = override /\ hidden' = HiddenBy(effective)
        /\ lastPut' = LastPutOf(effective)
    BY <2>1 DEF StateOptionChanged, LastPutOf
  <2>3. \A buf : WithNewStates(buf) = WithStates(buf, effective)
    BY <1>1 DEF WithNewStates
  <2>4. \A buf, test : Sent(lastPut, buf, test) => Sent(lastPut', WithNewStates(buf), test)
    BY <2>2, <2>3, WithStatesSends
  <2> QED
    BY <1>3, <2>1, <2>2, <2>4 DEF DecidedBy
<1>2. CASE ~AfterBuffer.changed
  <2>1. variables' = AfterBuffer.known /\ buffer' = <<>> /\ UNCHANGED <<current, override, hidden, lastPut>>
    BY <1>2 DEF CloseDataBuffer
  <2>2. variables' = variables
    BY <1>2, <2>1, UnchangedAfterBuffer DEF Inv
  <2>3. \A buf : WithNewStates(buf) = buf
    BY <1>2 DEF WithNewStates
  <2> QED
    BY <1>3, <2>1, <2>2, <2>3, DecidedNow DEF Inv
<1> QED
  BY <1>1, <1>2

LEMMA CloseAllBuffersKeeps ==
  ASSUME Inv, phase = "running", NEW stateFirst \in BOOLEAN, CloseAllBuffers(stateFirst)
  PROVE  /\ DecidedBy(variables', current', override', hidden', lastPut')
         /\ override' = override /\ buffer' = <<>> /\ variables' = [u \in Units |-> variables'[u]]
         /\ Sent(lastPut', stateBuffer', db')
<1>1. /\ CloseDataBuffer
      /\ stateBuffer' = IF stateFirst THEN WithNewStates(NothingBuffered) ELSE NothingBuffered
      /\ db' = StateStored([db EXCEPT !.parts = PartsStored],
                           IF stateFirst THEN stateBuffer ELSE WithNewStates(stateBuffer))
  BY DEF CloseAllBuffers
<1> DEFINE test == [db EXCEPT !.parts = PartsStored]
<1>2. Sent(lastPut, stateBuffer, test)
  BY PartsStoredSend DEF Inv
<1> HIDE DEF test
<1>3. CASE stateFirst
  <2>1. Sent(lastPut, NothingBuffered, StateStored(test, stateBuffer))
    BY <1>2, StateStoredSends
  <2>2. Sent(lastPut', WithNewStates(NothingBuffered), StateStored(test, stateBuffer))
    BY <1>1, <2>1, CloseDataBufferKeeps
  <2> QED
    BY <1>1, <1>3, <2>2, CloseDataBufferKeeps DEF test
<1>4. CASE ~stateFirst
  <2>1. Sent(lastPut', WithNewStates(stateBuffer), test)
    BY <1>1, <1>2, CloseDataBufferKeeps
  <2>2. Sent(lastPut', NothingBuffered, StateStored(test, WithNewStates(stateBuffer)))
    BY <2>1, StateStoredSends
  <2> QED
    BY <1>1, <1>4, <2>2, CloseDataBufferKeeps DEF test
<1> QED
  BY <1>3, <1>4

(* What keeps types: the states are evaluated, the rest is for each action to show. *)
LEMMA TypedNext ==
  ASSUME Typed, booklet # Invalid, UNCHANGED given, variables' = [u \in Units |-> variables'[u]],
         DecidedBy(variables', current', override', hidden', lastPut') \/ UNCHANGED <<current, hidden>>,
         {phase, phase'} \subseteq {"loading", "running"}, player' # "none" => phase' = "running", loads' = loads, changes' \in 0 .. MaxChanges,
         \A s \in States : override'[s] \in OptionsOf(s) \cup {override[s]},
         unit' \in Units \cup {NoUnit}, former' \in Units \cup {NoUnit}, buffer' \in Seq(Reports),
         player' \in {"none", "waiting", "loading", "ready", "started"}
  PROVE  Typed'
<1>1. \A s \in States : current'[s] \in OptionsOf(s)
  BY EvaluatedType DEF DecidedBy, Typed, TypeOK
<1>2. \A s \in States : override'[s] \in OptionsOf(s) \cup {None} \cup {preset[x] : x \in {s} \cap DOMAIN preset}
  BY DEF Typed, TypeOK
<1>3. hidden' \subseteq {t.id : t \in Conditional}
  BY DEF DecidedBy, HiddenBy, Typed, TypeOK
<1>4. \A b \in Range(buffer') : b[1] \in Units
  <2>1. \A r \in Reports : r[1] \in Units
    BY DEF Reports
  <2> QED
    BY <2>1 DEF Range
<1>5. /\ file' \in BookletFiles /\ booklet' = Parse(file') /\ Units' = Units /\ States' = States
      /\ \A s \in States : OptionsOf(s)' = OptionsOf(s)
      /\ Reports' = Reports /\ Conditional' = Conditional
  BY GivenFacts
<1>6. loads \in 0 .. MaxLoads /\ booklet' = booklet /\ preset' = preset
  BY DEF Typed, TypeOK, given
<1>7. TypeOK'
  BY <1>1, <1>2, <1>3, <1>4, <1>5, <1>6 DEF TypeOK
<1> QED
  BY <1>5, <1>7 DEF Typed

------------------------------------------------------------------------------
(* The actions *)

LEMMA InitIsInv == Init => Inv
<1> SUFFICES ASSUME Init PROVE Inv
  OBVIOUS
<1> USE DEF Init
<1>1. TypeOK
  BY BoundsAssumption DEF TypeOK
<1>2. Typed
  BY <1>1 DEF Typed
<1>3. BufferIsOfOneUnit
  BY DEF BufferIsOfOneUnit, Range
<1>4. Sent(lastPut, stateBuffer, db)
  BY DEF Sent, NothingBuffered, NothingStored
<1> QED
  BY <1>2, <1>3, <1>4 DEF Inv, Decided

LEMMA LoadTestKeepsInv ==
  ASSUME Inv, LoadTest
  PROVE  Inv'
<1>1. /\ loads' = loads + 1 /\ loads < MaxLoads /\ UNCHANGED <<given, db, changes>>
      /\ buffer' = <<>> /\ lastPut' = {} /\ stateBuffer' = NothingBuffered
      /\ unit' = NoUnit /\ player' = "none" /\ former' = NoUnit
      /\ phase' = IF booklet = Invalid THEN "error" ELSE "loading"
  BY DEF LoadTest
<1>2. booklet' = booklet /\ preset' = preset /\ Units' = Units /\ States' = States /\ Conditional' = Conditional
      /\ \A s \in States : OptionsOf(s)' = OptionsOf(s)
  BY <1>1, GivenFacts DEF Inv, given
<1>3. loads' \in 0 .. MaxLoads /\ changes' \in 0 .. MaxChanges
  BY <1>1, BoundsAssumption DEF Inv, Typed, TypeOK
<1>4. ASSUME booklet = Invalid PROVE TypeOK'
  BY <1>1, <1>2, <1>3, <1>4 DEF TypeOK
<1>5. ASSUME booklet # Invalid PROVE TypeOK'
  <2>1. /\ current' = [s \in States |-> DefaultOf(booklet.states[s])]
        /\ override' = [s \in States |-> IF s \in DOMAIN preset THEN preset[s] ELSE None]
        /\ hidden' = {t.id : t \in Conditional}
    BY <1>5 DEF LoadTest
  <2>2. \A s \in States : current'[s] \in OptionsOf(s)
    BY <1>5, <2>1, DefaultType DEF Inv
  <2>3. \A b \in Range(buffer') : b[1] \in Units
    BY <1>1 DEF Range
  <2> QED
    BY <1>1, <1>2, <1>3, <1>5, <2>1, <2>2, <2>3 DEF TypeOK
<1>6. TypeOK'
  BY <1>4, <1>5
<1>7. Typed'
  <2>1. file' \in BookletFiles /\ booklet' = Parse(file') /\ Reports' = Reports
    BY <1>1, GivenFacts DEF Inv
  <2> QED
    BY <1>1, <1>2, <1>6, <2>1 DEF Typed, LoadTest
<1>8. BufferIsOfOneUnit'
  BY <1>1 DEF BufferIsOfOneUnit, Range
<1>9. Decided'
  BY <1>1 DEF Decided
<1>10. Sent(lastPut, stateBuffer, db)'
  BY <1>1, SentNext DEF Inv, Sent, NothingBuffered
<1> QED
  BY <1>7, <1>8, <1>9, <1>10 DEF Inv

(* A test is loaded only if its booklet can be read. *)
LEMMA ReadableIfLoaded ==
  ASSUME Inv, phase \in {"loading", "running"}
  PROVE  booklet # Invalid /\ unit \in Units \cup {NoUnit} /\ former \in Units \cup {NoUnit}
         /\ changes \in 0 .. MaxChanges /\ player \in {"none", "waiting", "loading", "ready", "started"}
         /\ (player # "none" => phase = "running") /\ buffer \in Seq(Reports)
         /\ variables = [u \in Units |-> variables[u]]
  BY DEF Inv, Typed, TypeOK

(* Where neither the player nor the responses in the buffer are touched *)
LEMMA UntouchedPlayer ==
  ASSUME Inv, UNCHANGED shown, UNCHANGED buffer
  PROVE  BufferIsOfOneUnit'
  BY DEF Inv, BufferIsOfOneUnit, shown

LEMMA DecidedUntouched ==
  ASSUME Inv, UNCHANGED given, UNCHANGED <<variables, current, override, hidden, lastPut>>,
         phase = "running"
  PROVE  Decided'
<1>1. DecidedBy(variables', current', override', hidden', lastPut')
  BY DecidedNow DEF Inv
<1> QED
  BY <1>1, DecidedNext

LEMMA LoadFileKeepsInv ==
  ASSUME Inv, LoadFile
  PROVE  Inv'
<1>1. /\ phase \in {"loading", "running"} /\ phase' = phase
      /\ UNCHANGED given /\ UNCHANGED buffer /\ UNCHANGED shown /\ UNCHANGED db
      /\ loads' = loads /\ changes' = changes
  BY DEF LoadFile
<1>2. unit' = unit /\ former' = former /\ player' = player
  BY <1>1 DEF shown
<1>3. BufferIsOfOneUnit'
  BY <1>1, UntouchedPlayer
<1>4. CASE Head(toLoad)[2] = "scheme"
  <2>1. PICK known : variables' = known /\ EvaluateConditions(known)
    BY <1>4 DEF LoadFile
  <2>2. /\ DecidedBy(variables', current', override', hidden', lastPut')
        /\ Sent(lastPut', stateBuffer', db)
    BY <2>1, EvaluateConditionsKeeps
  <2>3. override' = override
    BY <2>1 DEF EvaluateConditions, StateOptionChanged
  <2>5. variables' = [w \in Units |-> variables'[w]]
    BY <1>1, <1>4, ReadableIfLoaded DEF LoadFile
  <2>4. Typed'
    BY <1>1, <1>2, <2>2, <2>3, <2>5, ReadableIfLoaded, TypedNext DEF Inv
  <2> QED
    BY <1>1, <1>3, <2>2, <2>4, DecidedNext, SentNext DEF Inv
<1>5. CASE Head(toLoad)[2] # "scheme"
  <2>1. UNCHANGED <<variables, current, override, hidden, lastPut, stateBuffer>>
    BY <1>5 DEF LoadFile
  <2>2. Typed'
    BY <1>1, <1>2, <2>1, ReadableIfLoaded, TypedNext DEF Inv
  <2>3. Decided'
    BY <1>1, <2>1, DecidedUntouched DEF Decided
  <2> QED
    BY <1>1, <1>3, <2>1, <2>2, <2>3, SentNext DEF Inv
<1> QED
  BY <1>4, <1>5

LEMMA FinishLoadingKeepsInv ==
  ASSUME Inv, FinishLoading
  PROVE  Inv'
<1>1. /\ phase = "loading" /\ phase' = "running"
      /\ UNCHANGED given /\ UNCHANGED buffer /\ UNCHANGED shown /\ UNCHANGED db
      /\ loads' = loads /\ changes' = changes
      /\ variables' = WithoutSchemes /\ EvaluateConditions(WithoutSchemes)
  BY DEF FinishLoading
<1>2. unit' = unit /\ former' = former /\ player' = player
  BY <1>1 DEF shown
<1>3. /\ DecidedBy(variables', current', override', hidden', lastPut')
      /\ Sent(lastPut', stateBuffer', db)
  BY <1>1, EvaluateConditionsKeeps
<1>4. override' = override
  BY <1>1 DEF EvaluateConditions, StateOptionChanged
<1>6. variables' = [u \in Units |-> variables'[u]]
  BY <1>1 DEF WithoutSchemes
<1>5. Typed'
  BY <1>1, <1>2, <1>3, <1>4, <1>6, ReadableIfLoaded, TypedNext DEF Inv
<1> QED
  BY <1>1, <1>3, <1>5, UntouchedPlayer, DecidedNext, SentNext DEF Inv

LEMMA DataBufferTimeKeepsInv ==
  ASSUME Inv, DataBufferTime
  PROVE  Inv'
<1>1. /\ phase = "running" /\ phase' = phase /\ CloseDataBuffer
      /\ stateBuffer' = WithNewStates(stateBuffer)
      /\ db' = [db EXCEPT !.parts = PartsStored]
      /\ UNCHANGED given /\ unit' = unit /\ former' = former /\ player' = player
      /\ loads' = loads /\ changes' = changes
  BY DEF DataBufferTime, shown
<1>2. /\ DecidedBy(variables', current', override', hidden', lastPut')
      /\ override' = override /\ buffer' = <<>> /\ variables' = [u \in Units |-> variables'[u]]
      /\ Sent(lastPut', stateBuffer', db)
  BY <1>1, CloseDataBufferKeeps DEF Inv
<1>3. Sent(lastPut', stateBuffer', db')
  BY <1>1, <1>2, PartsStoredSend
<1>4. Typed'
  BY <1>1, <1>2, ReadableIfLoaded, TypedNext DEF Inv
<1>5. BufferIsOfOneUnit'
  BY <1>2 DEF BufferIsOfOneUnit, Range
<1> QED
  BY <1>1, <1>2, <1>3, <1>4, <1>5, DecidedNext, SentNext DEF Inv

LEMMA StateBufferTimeKeepsInv ==
  ASSUME Inv, StateBufferTime
  PROVE  Inv'
<1>1. /\ phase \in {"loading", "running"} /\ phase' = phase
      /\ stateBuffer' = NothingBuffered /\ db' = StateStored(db, stateBuffer)
      /\ UNCHANGED <<variables, current, override, hidden, lastPut>>
      /\ UNCHANGED given /\ UNCHANGED shown /\ UNCHANGED buffer
      /\ loads' = loads /\ changes' = changes
  BY DEF StateBufferTime
<1>2. unit' = unit /\ former' = former /\ player' = player
  BY <1>1 DEF shown
<1>3. Sent(lastPut', stateBuffer', db')
  BY <1>1, StateStoredSends DEF Inv
<1>4. Typed'
  BY <1>1, <1>2, ReadableIfLoaded, TypedNext DEF Inv
<1>5. Decided'
  BY <1>1, DecidedUntouched DEF Decided
<1> QED
  BY <1>1, <1>3, <1>4, <1>5, UntouchedPlayer, SentNext DEF Inv

(* The buffers are closed and a player is started, or another unit is opened. *)
LEMMA ClosingKeepsInv ==
  ASSUME Inv, phase = "running", phase' = phase, UNCHANGED given, loads' = loads, changes' = changes,
         NEW stateFirst \in BOOLEAN, CloseAllBuffers(stateFirst),
         unit' \in Units \cup {NoUnit}, former' \in Units \cup {NoUnit},
         player' \in {"none", "waiting", "loading", "ready", "started"}
  PROVE  Inv'
<1>1. /\ DecidedBy(variables', current', override', hidden', lastPut')
      /\ override' = override /\ buffer' = <<>> /\ variables' = [u \in Units |-> variables'[u]]
      /\ Sent(lastPut', stateBuffer', db')
  BY CloseAllBuffersKeeps
<1>2. Typed'
  BY <1>1, ReadableIfLoaded, TypedNext DEF Inv
<1>3. BufferIsOfOneUnit'
  BY <1>1 DEF BufferIsOfOneUnit, Range
<1> QED
  BY <1>1, <1>2, <1>3, DecidedNext, SentNext DEF Inv

LEMMA TurnKeepsInv ==
  ASSUME Inv, NEW u \in Units, Turn(u)
  PROVE  Inv'
<1>1. PICK stateFirst \in BOOLEAN : CloseAllBuffers(stateFirst)
  BY DEF Turn
<1>2. /\ phase = "running" /\ phase' = phase /\ UNCHANGED given /\ loads' = loads /\ changes' = changes
      /\ unit' = u /\ player' = "waiting" /\ former' \in {unit, former}
  BY DEF Turn, Open
<1> QED
  BY <1>1, <1>2, ClosingKeepsInv, ReadableIfLoaded

LEMMA StartPlayerKeepsInv ==
  ASSUME Inv, StartPlayer
  PROVE  Inv'
<1>1. PICK stateFirst \in BOOLEAN : CloseAllBuffers(stateFirst)
  BY DEF StartPlayer
<1>2. /\ player = "ready" /\ phase' = phase /\ UNCHANGED given /\ loads' = loads /\ changes' = changes
      /\ unit' = unit /\ player' = "started" /\ former' = NoUnit
  BY DEF StartPlayer
<1>3. phase = "running"
  BY <1>2 DEF Inv, Typed
<1> QED
  BY <1>1, <1>2, <1>3, ClosingKeepsInv, ReadableIfLoaded

LEMMA AdmittedIsUnit ==
  ASSUME Inv, booklet # Invalid, NEW u \in Units
  PROVE  Admitted(u) \in Units
<1> DEFINE later == {w \in Units : w > u /\ Visible(w, hidden)}
<1>1. Units \subseteq Nat
  BY BookletFacts DEF Inv
<1>2. CASE Visible(u, hidden) \/ later = {}
  BY <1>2 DEF Admitted
<1>3. CASE ~(Visible(u, hidden) \/ later = {})
  <2>1. later \in SUBSET Nat /\ later # {}
    BY <1>1, <1>3
  <2>2. First(later) \in later
    BY <2>1, LeastNat
  <2>3. Admitted(u) = First(later)
    BY <1>3 DEF Admitted, First
  <2> QED
    BY <2>2, <2>3
<1> QED
  BY <1>2, <1>3

LEMMA JumpKeepsInv ==
  ASSUME Inv, NEW u \in Units, Jump(u)
  PROVE  Inv'
<1>1. /\ phase = "running" /\ phase' = phase /\ Open(Admitted(u))
      /\ UNCHANGED given /\ loads' = loads /\ changes' = changes /\ UNCHANGED buffer
      /\ UNCHANGED <<variables, current, override, hidden, lastPut>> /\ UNCHANGED <<stateBuffer, db>>
  BY DEF Jump
<1>2. /\ unit' \in Units /\ player' = "waiting" /\ former' \in {unit, former}
      /\ former' = IF player = "started" THEN unit ELSE former
  BY <1>1, AdmittedIsUnit, ReadableIfLoaded DEF Open
<1>3. BufferIsOfOneUnit'
  BY <1>1, <1>2 DEF Inv, BufferIsOfOneUnit
<1>4. Typed'
  BY <1>1, <1>2, ReadableIfLoaded, TypedNext DEF Inv
<1>5. Decided'
  BY <1>1, DecidedUntouched
<1> QED
  BY <1>1, <1>3, <1>4, <1>5, SentNext DEF Inv

LEMMA PrepareUnitKeepsInv ==
  ASSUME Inv, PrepareUnit
  PROVE  Inv'
<1>1. /\ player = "waiting" /\ player' = "loading" /\ unit' = unit /\ former' = former
      /\ stateBuffer' = [stateBuffer EXCEPT !.unit = unit]
      /\ phase' = phase /\ UNCHANGED given /\ loads' = loads /\ changes' = changes /\ UNCHANGED buffer
      /\ UNCHANGED <<variables, current, override, hidden, lastPut>> /\ UNCHANGED db
  BY DEF PrepareUnit
<1>2. phase = "running"
  BY <1>1 DEF Inv, Typed
<1>3. BufferIsOfOneUnit'
  BY <1>1 DEF Inv, BufferIsOfOneUnit
<1>4. Typed'
  BY <1>1, <1>2, ReadableIfLoaded, TypedNext DEF Inv
<1>5. Decided'
  BY <1>1, <1>2, DecidedUntouched
<1>6. Sent(lastPut', stateBuffer', db')
  <2>1. Sent(lastPut, stateBuffer, db)
    BY DEF Inv
  <2>2. stateBuffer = [states |-> stateBuffer.states, unit |-> stateBuffer.unit]
    BY <2>1 DEF Sent
  <2>3. stateBuffer' = [states |-> stateBuffer.states, unit |-> unit]
    BY <1>1, <2>2
  <2> QED
    BY <1>1, <2>1, <2>3 DEF Sent
<1> QED
  BY <1>1, <1>3, <1>4, <1>5, <1>6, SentNext DEF Inv

LEMMA PlayerReadyKeepsInv ==
  ASSUME Inv, PlayerReady
  PROVE  Inv'
<1>1. /\ player = "loading" /\ player' = "ready" /\ unit' = unit /\ former' = former
      /\ phase' = phase /\ UNCHANGED given /\ loads' = loads /\ changes' = changes /\ UNCHANGED buffer
      /\ UNCHANGED <<variables, current, override, hidden, lastPut>> /\ UNCHANGED <<stateBuffer, db>>
  BY DEF PlayerReady
<1>2. phase = "running"
  BY <1>1 DEF Inv, Typed
<1>3. BufferIsOfOneUnit'
  BY <1>1 DEF Inv, BufferIsOfOneUnit
<1>4. Typed'
  BY <1>1, <1>2, ReadableIfLoaded, TypedNext DEF Inv
<1>5. Decided'
  BY <1>1, <1>2, DecidedUntouched
<1> QED
  BY <1>1, <1>3, <1>4, <1>5, SentNext DEF Inv

(* A player that is not started yet reports nothing, so its unit is not mixed with the one before. *)
LEMMA StateChangedKeepsInv ==
  ASSUME Inv, NEW u \in Units, NEW content, StateChanged(u, content)
  PROVE  Inv'
<1>1. /\ phase = "running" /\ phase' = phase /\ changes < MaxChanges /\ changes' = changes + 1
      /\ (u = unit /\ player = "started") \/ (u = former /\ player \in {"waiting", "loading"})
      /\ content \in Content(Unit(u).id) /\ buffer' = Append(buffer, <<u, content>>)
      /\ UNCHANGED given /\ loads' = loads /\ UNCHANGED shown
      /\ UNCHANGED <<variables, current, override, hidden, lastPut>> /\ UNCHANGED <<stateBuffer, db>>
  BY DEF StateChanged, Reported
<1>2. unit' = unit /\ former' = former /\ player' = player
  BY <1>1 DEF shown
<1>3. <<u, content>> \in Reports /\ buffer \in Seq(Reports)
  BY <1>1, ReadableIfLoaded DEF Reports
<1>4. buffer' \in Seq(Reports) /\ \A b \in Range(buffer') : b \in Range(buffer) \/ b = <<u, content>>
  <2>1. buffer' \in Seq(Reports)
    BY <1>1, <1>3
  <2>2. ASSUME NEW i \in DOMAIN buffer'
        PROVE  buffer'[i] = <<u, content>> \/ (i \in DOMAIN buffer /\ buffer'[i] = buffer[i])
    BY <1>1, <1>3, <2>2
  <2> QED
    BY <2>1, <2>2 DEF Range
<1>5. BufferIsOfOneUnit'
  <2>1. u = IF player = "started" THEN unit ELSE former
    BY <1>1
  <2>2. <<u, content>>[1] = u
    OBVIOUS
  <2> QED
    BY <1>2, <1>4, <2>1, <2>2 DEF Inv, BufferIsOfOneUnit
<1>6. changes' \in 0 .. MaxChanges
  BY <1>1, ReadableIfLoaded, BoundsAssumption
<1>7. Typed'
  BY <1>1, <1>2, <1>4, <1>6, ReadableIfLoaded, TypedNext DEF Inv
<1>8. Decided'
  BY <1>1, DecidedUntouched
<1> QED
  BY <1>1, <1>5, <1>7, <1>8, SentNext DEF Inv

LEMMA SetOverrideKeepsInv ==
  ASSUME Inv, NEW s \in States, NEW option, SetOverride(s, option)
  PROVE  Inv'
<1>1. /\ phase = "running" /\ phase' = phase /\ changes < MaxChanges /\ changes' = changes + 1
      /\ option \in OptionsOf(s)
      /\ StateOptionChanged(current, [override EXCEPT ![s] = option])
      /\ stateBuffer' = WithStates(stateBuffer, Effective(current, override'))
      /\ UNCHANGED given /\ loads' = loads /\ UNCHANGED shown /\ UNCHANGED buffer
      /\ UNCHANGED <<variables, db>>
  BY DEF SetOverride
<1>2. /\ unit' = unit /\ former' = former /\ player' = player
      /\ override' = [override EXCEPT ![s] = option] /\ current' = current
      /\ hidden' = HiddenBy(Effective(current, override'))
      /\ lastPut' = LastPutOf(Effective(current, override'))
  BY <1>1 DEF shown, StateOptionChanged, LastPutOf
<1>3. DecidedBy(variables', current', override', hidden', lastPut')
  BY <1>1, <1>2, DecidedNow DEF Inv, DecidedBy
<1>4. Sent(lastPut', stateBuffer', db')
  BY <1>1, <1>2, WithStatesSends DEF Inv
<1>5. \A x \in States : override'[x] \in OptionsOf(x) \cup {override[x]}
  BY <1>1, <1>2
<1>6. changes' \in 0 .. MaxChanges
  BY <1>1, ReadableIfLoaded, BoundsAssumption
<1>7. Typed'
  BY <1>1, <1>2, <1>3, <1>5, <1>6, ReadableIfLoaded, TypedNext DEF Inv
<1> QED
  BY <1>1, <1>3, <1>4, <1>7, UntouchedPlayer, DecidedNext, SentNext DEF Inv

LEMMA StutteringKeepsInv ==
  ASSUME Inv, UNCHANGED vars
  PROVE  Inv'
<1>1. /\ UNCHANGED given /\ UNCHANGED shown /\ UNCHANGED <<phase, buffer, loads, changes>>
      /\ UNCHANGED <<variables, current, override, hidden, lastPut, stateBuffer, db>>
  BY DEF vars, given, shown
<1>2. Typed'
  BY <1>1, GivenFacts DEF Inv, Typed, TypeOK, shown, given, Units, States, OptionsOf, Conditional
<1>3. Decided'
  BY <1>1, DecidedUntouched DEF Decided
<1> QED
  BY <1>1, <1>2, <1>3, UntouchedPlayer, SentNext DEF Inv

LEMMA InvHolds == Spec => []Inv
<1>1. Inv /\ [Next]_vars => Inv'
  <2> SUFFICES ASSUME Inv, [Next]_vars PROVE Inv'
    OBVIOUS
  <2>1. CASE LoadTest
    BY <2>1, LoadTestKeepsInv
  <2>2. CASE LoadFile
    BY <2>2, LoadFileKeepsInv
  <2>3. CASE FinishLoading
    BY <2>3, FinishLoadingKeepsInv
  <2>4. CASE DataBufferTime
    BY <2>4, DataBufferTimeKeepsInv
  <2>5. CASE StateBufferTime
    BY <2>5, StateBufferTimeKeepsInv
  <2>6. CASE PrepareUnit
    BY <2>6, PrepareUnitKeepsInv
  <2>7. CASE PlayerReady
    BY <2>7, PlayerReadyKeepsInv
  <2>8. CASE StartPlayer
    BY <2>8, StartPlayerKeepsInv
  <2>9. CASE \E u \in Units : Turn(u) \/ Jump(u)
    BY <2>9, TurnKeepsInv, JumpKeepsInv
  <2>10. CASE \E u \in Units : \E content \in Content(Unit(u).id) : StateChanged(u, content)
    BY <2>10, StateChangedKeepsInv
  <2>11. CASE \E s \in States : \E option \in OptionsOf(s) : SetOverride(s, option)
    BY <2>11, SetOverrideKeepsInv
  <2>12. CASE UNCHANGED vars
    BY <2>12, StutteringKeepsInv
  <2> QED
    BY <2>1, <2>2, <2>3, <2>4, <2>5, <2>6, <2>7, <2>8, <2>9, <2>10, <2>11, <2>12 DEF Next
<1> QED
  BY <1>1, InitIsInv, PTL DEF Spec

------------------------------------------------------------------------------
(* What is known follows from the responses: the second inductive invariant *)

Files == {<<u, "definition">> : u \in Units} \cup {<<u, "scheme">> : u \in {w \in Units : HasScheme(Unit(w))}}
Pending(u, queue) == <<u, "scheme">> \in Range(queue)
Possible(u) == Content(Unit(u).id) \cup {Unanswered}

(* What the backend has: responses that a player may have reported, and a unit. *)
Recorded(test, buf) ==
  /\ {test.unit, buf.unit} \subseteq Units \cup {NoUnit}
  /\ \A u \in Units : PartOf(test.parts, u) \in Possible(u)

(* No file is loaded twice. *)
Queued(queue) == queue \in Seq(Files) /\ \A i, j \in DOMAIN queue : queue[i] = queue[j] => i = j

(* The last response in the buffer is the one that is kept; none comes while the test is loaded. *)
Answered(ph, responses, buf, test) ==
  /\ responses = [u \in Units |-> responses[u]] /\ \A u \in Units : responses[u] \in Possible(u)
  /\ buf # <<>> => buf[Len(buf)][2] = responses[buf[Len(buf)][1]]
  /\ ph = "loading" => buf = <<>> /\ \A u \in Units : responses[u] = PartOf(test.parts, u)

(* A player runs only when the scheme of its unit is there. *)
Playing(queue, number, what, before) ==
  /\ what # "none" => number \in Units
  /\ what \in {"loading", "ready", "started"} => ~Pending(number, queue)
  /\ ~Pending(before, queue)

(* Of a unit that has responses in the buffer it is known what was reported some time before. *)
Knowledge(u, ph, queue, responses, buf) ==
  IF Pending(u, queue) \/ (ph = "loading" /\ ~HasScheme(Unit(u))) THEN {Untold(Unit(u))}
  ELSE {KnownOf(Unit(u), content) :
          content \in IF \E b \in Range(buf) : b[1] = u THEN Possible(u) ELSE {responses[u]}}

Knowing(ph, queue, responses, known, buf) ==
  \A u \in Units : known[u] \in Knowledge(u, ph, queue, responses, buf)

Follow ==
  /\ booklet # Invalid => Recorded(db, stateBuffer)
  /\ phase \in {"loading", "running"} =>
       /\ Queued(toLoad) /\ Answered(phase, parts, buffer, db)
       /\ Playing(toLoad, unit, player, former) /\ Knowing(phase, toLoad, parts, variables, buffer)

LEMMA FollowNext ==
  ASSUME UNCHANGED given, booklet # Invalid => Recorded(db', stateBuffer'),
         phase' \in {"loading", "running"} =>
           /\ Queued(toLoad') /\ Answered(phase', parts', buffer', db')
           /\ Playing(toLoad', unit', player', former') /\ Knowing(phase', toLoad', parts', variables', buffer')
  PROVE  Follow'
<1>1. booklet' = booklet /\ Units' = Units /\ \A u : Unit(u)' = Unit(u) /\ Possible(u)' = Possible(u)
  BY DEF given, Units, Unit, Possible
<1>2. Files' = Files
  BY <1>1 DEF Files
<1>3. ASSUME booklet' # Invalid PROVE Recorded(db, stateBuffer)'
  BY <1>1, <1>3 DEF Recorded
<1>4. ASSUME phase' \in {"loading", "running"} PROVE Queued(toLoad)' /\ Answered(phase, parts, buffer, db)'
  BY <1>1, <1>2, <1>4 DEF Queued, Answered
<1>5. ASSUME phase' \in {"loading", "running"} PROVE Playing(toLoad, unit, player, former)'
  BY <1>1, <1>5 DEF Playing, Pending
<1>6. ASSUME phase' \in {"loading", "running"} PROVE Knowing(phase, toLoad, parts, variables, buffer)'
  <2>1. Knowing(phase', toLoad', parts', variables', buffer')
    BY <1>6
  <2>2. \A u : Knowledge(u, phase, toLoad, parts, buffer)' = Knowledge(u, phase', toLoad', parts', buffer')
    BY <1>1 DEF Knowledge, Pending
  <2> QED
    BY <1>1, <2>1, <2>2 DEF Knowing
<1> QED
  BY <1>3, <1>4, <1>5, <1>6 DEF Follow

(* prepareUnitContentLoadingQueueOrder leaves no file out and repeats none. *)
LEMMA QueueIsComplete ==
  ASSUME Typed, booklet # Invalid, NEW first \in Units \cup {NoUnit}
  PROVE  Queued(QueueFrom(first)) /\ Files \subseteq Range(QueueFrom(first))
<1> DEFINE N == Len(booklet.units)
           turn(i) == IF i < first THEN i + N ELSE i
           number == [f \in Files |-> 2 * turn(f[1]) + (IF f[2] = "scheme" THEN 0 ELSE 1)]
           n == Cardinality(Files)
<1>1. N \in Nat /\ Units = 1 .. N
  BY BookletFacts
<1>2. \A f \in Files : f = <<f[1], f[2]>> /\ f[1] \in 1 .. N /\ f[2] \in {"scheme", "definition"}
  BY <1>1 DEF Files
<1>3. IsFiniteSet(Files)
  <2>1. Files \in SUBSET ((1 .. N) \X {"scheme", "definition"})
    BY <1>2
  <2>2. IsFiniteSet(1 .. N) /\ IsFiniteSet({"scheme", "definition"})
    <3>1. IsFiniteSet({"scheme"}) /\ {"scheme", "definition"} = {"scheme"} \cup {"definition"}
      BY FS_Singleton
    <3>2. IsFiniteSet({"scheme"} \cup {"definition"})
      BY <3>1, FS_AddElement
    <3>3. IsFiniteSet(1 .. N)
      BY <1>1, FS_Interval
    <3> QED
      BY <3>1, <3>2, <3>3
  <2> QED
    BY <2>1, <2>2, FS_Product, FS_Subset
<1>4. \A i, j \in 1 .. N : turn(i) \in Int /\ (turn(i) = turn(j) => i = j)
  BY <1>1 DEF NoUnit
<1>5. \A f \in Files : number[f] \in Int
  BY <1>2, <1>4
<1>6. ASSUME NEW f \in Files, NEW g \in Files, number[f] = number[g] PROVE f = g
  <2> DEFINE bit(x) == IF x[2] = "scheme" THEN 0 ELSE 1
  <2>1. 2 * turn(f[1]) + bit(f) = 2 * turn(g[1]) + bit(g)
    BY <1>6
  <2>2. bit(f) \in {0, 1} /\ bit(g) \in {0, 1} /\ turn(f[1]) \in Int /\ turn(g[1]) \in Int
    BY <1>2, <1>4
  <2>4. bit(f) = bit(g) /\ turn(f[1]) = turn(g[1])
    <3> HIDE DEF bit, turn
    <3>1. PICK a \in Int, c \in Int, b \in {0, 1}, d \in {0, 1} :
            a = turn(f[1]) /\ c = turn(g[1]) /\ b = bit(f) /\ d = bit(g)
      BY <2>2
    <3>2. 2 * a + b = 2 * c + d
      BY <2>1, <3>1
    <3>3. a = c /\ b = d
      BY <3>2
    <3> QED
      BY <3>1, <3>3
  <2> QED
    BY <1>2, <1>4, <2>4
<1>7. n \in Nat
  BY <1>3, FS_CardinalityType
<1>8. QueueFrom(first) = InOrder(number)
  BY DEF QueueFrom, Files
<1>9. DOMAIN number = Files
  OBVIOUS
<1> HIDE DEF number
<1>10. /\ InOrder(number) \in [1 .. n -> Files]
       /\ \A j, k \in 1 .. n : InOrder(number)[j] = InOrder(number)[k] => j = k
       /\ \A f \in Files : \E k \in 1 .. n : InOrder(number)[k] = f
  BY <1>3, <1>5, <1>6, <1>9, InOrderBijection
<1> HIDE DEF n
<1>11. InOrder(number) \in Seq(Files) /\ DOMAIN InOrder(number) = 1 .. n
  BY <1>7, <1>10
<1> QED
  BY <1>8, <1>10, <1>11 DEF Queued, Range

(* A file that is loaded is no longer in the queue, the others are. *)
LEMMA TailOfQueue ==
  ASSUME NEW queue, Queued(queue), queue # <<>>
  PROVE  Queued(Tail(queue)) /\ Range(Tail(queue)) = Range(queue) \ {Head(queue)}
         /\ Head(queue) \in Files /\ Head(queue) \in Range(queue)
<1>1. /\ queue \in Seq(Files) /\ Len(queue) \in Nat \ {0} /\ DOMAIN queue = 1 .. Len(queue)
      /\ Tail(queue) \in Seq(Files) /\ DOMAIN Tail(queue) = 1 .. (Len(queue) - 1)
      /\ \A i \in 1 .. (Len(queue) - 1) : Tail(queue)[i] = queue[i + 1]
      /\ Head(queue) = queue[1]
  BY DEF Queued
<1>2. \A i \in 1 .. (Len(queue) - 1) : i + 1 \in DOMAIN queue /\ i + 1 # 1
  BY <1>1
<1>3. \A i \in DOMAIN queue : i # 1 => i - 1 \in 1 .. (Len(queue) - 1) /\ Tail(queue)[i - 1] = queue[i]
  BY <1>1
<1>4. 1 \in DOMAIN queue
  BY <1>1
<1>5. Queued(Tail(queue))
  <2>1. ASSUME NEW i \in DOMAIN Tail(queue), NEW j \in DOMAIN Tail(queue), Tail(queue)[i] = Tail(queue)[j]
        PROVE  i = j
    <3>1. i + 1 \in DOMAIN queue /\ j + 1 \in DOMAIN queue /\ queue[i + 1] = queue[j + 1]
      BY <1>1, <1>2, <2>1
    <3>2. i + 1 = j + 1
      BY <3>1 DEF Queued
    <3> QED
      BY <1>1, <3>2
  <2> QED
    BY <1>1, <2>1 DEF Queued
<1>6. \A i \in DOMAIN queue : queue[i] = Head(queue) => i = 1
  BY <1>1, <1>4 DEF Queued
<1>7. Range(Tail(queue)) = Range(queue) \ {Head(queue)}
  <2>1. ASSUME NEW f \in Range(Tail(queue)) PROVE f \in Range(queue) /\ f # Head(queue)
    <3>1. PICK i \in DOMAIN Tail(queue) : f = Tail(queue)[i]
      BY DEF Range
    <3>2. i + 1 \in DOMAIN queue /\ i + 1 # 1 /\ f = queue[i + 1]
      BY <1>1, <1>2, <3>1
    <3> QED
      BY <1>6, <3>2 DEF Range
  <2>2. ASSUME NEW f \in Range(queue), f # Head(queue) PROVE f \in Range(Tail(queue))
    <3>1. PICK i \in DOMAIN queue : f = queue[i]
      BY DEF Range
    <3>2. i # 1
      BY <1>1, <2>2, <3>1
    <3> QED
      BY <1>1, <1>3, <3>1, <3>2 DEF Range
  <2> QED
    BY <2>1, <2>2
<1>8. Head(queue) \in Files /\ Head(queue) \in Range(queue)
  BY <1>1, <1>4 DEF Range
<1> QED
  BY <1>5, <1>7, <1>8

(* After the buffer is closed the last responses are known, of every unit whose files are there. *)
LEMMA ClosedKnows ==
  ASSUME Inv, Follow, phase = "running"
  PROVE  Knowing("running", toLoad, parts, AfterBuffer.known, <<>>)
<1>1. /\ booklet # Invalid /\ booklet = Parse(file) /\ file \in BookletFiles
      /\ Knowing("running", toLoad, parts, variables, buffer)
      /\ Answered("running", parts, buffer, db) /\ Playing(toLoad, unit, player, former)
      /\ variables = [u \in Units |-> variables[u]] /\ buffer \in Seq(Reports)
  BY ReadableIfLoaded DEF Inv, Typed, Follow
<1> SUFFICES ASSUME NEW u \in Units
             PROVE  AfterBuffer.known[u] \in Knowledge(u, "running", toLoad, parts, <<>>)
  BY DEF Knowing
<1>2. Knowledge(u, "running", toLoad, parts, <<>>) =
        IF Pending(u, toLoad) THEN {Untold(Unit(u))} ELSE {KnownOf(Unit(u), parts[u])}
  BY DEF Knowledge, Range
<1>3. variables[u] \in Knowledge(u, "running", toLoad, parts, buffer)
  BY <1>1 DEF Knowing
<1>4. CASE buffer = <<>>
  BY <1>3, <1>4, AfterOneUnit DEF Inv
<1>5. CASE buffer # <<>>
  <2> DEFINE w == buffer[Len(buffer)][1]
             content == buffer[Len(buffer)][2]
             after == Updated(Unit(w), variables[w], content, SchemeLoaded(w, toLoad))
  <2>1. AfterBuffer.known = [variables EXCEPT ![w] = after]
    BY <1>5, AfterOneUnit DEF Inv
  <2>2. buffer[Len(buffer)] \in Range(buffer) /\ buffer[Len(buffer)] \in Reports
    BY <1>1, <1>5 DEF Range
  <2>3. w \in Units /\ content \in Content(Unit(w).id)
    BY <2>2 DEF Reports
  <2>4. content = parts[w]
    BY <1>1, <1>5 DEF Answered
  <2>5. \A b \in Range(buffer) : b[1] = w
    BY <2>2 DEF Inv, BufferIsOfOneUnit
  <2>6. ~Pending(w, toLoad)
    BY <1>1, <2>2 DEF Inv, BufferIsOfOneUnit, Playing
  <2>7. SchemeLoaded(w, toLoad) = HasScheme(Unit(w))
    BY <2>6 DEF SchemeLoaded, Pending, HasScheme
  <2> HIDE DEF w, content, after
  <2>8. CASE u = w
    <3>1. PICK old \in Possible(w) : variables[w] = KnownOf(Unit(w), old)
      BY <1>3, <2>2, <2>5, <2>6, <2>8 DEF Knowledge
    <3>2. Unit(w) \in Range(Parse(file).units)
      BY <1>1, <2>3 DEF Unit, Units, Range
    <3>3. after = KnownOf(Unit(w), content)
      <4>1. old \in Content(Unit(w).id) \cup {Unanswered} /\ Parse(file) # Invalid
        BY <1>1, <3>1 DEF Possible
      <4>2. Updated(Unit(w), KnownOf(Unit(w), old), content, HasScheme(Unit(w))) = KnownOf(Unit(w), content)
        BY <1>1, <2>3, <3>2, <4>1, ReportsAssumption
      <4> QED
        BY <2>7, <3>1, <4>2 DEF after
    <3>4. AfterBuffer.known[u] = after
      BY <1>1, <2>1, <2>3, <2>8
    <3> QED
      BY <1>2, <2>4, <2>6, <2>8, <3>3, <3>4
  <2>9. CASE u # w
    <3>1. AfterBuffer.known[u] = variables[u]
      BY <1>1, <2>1, <2>9
    <3>2. ~\E b \in Range(buffer) : b[1] = u
      BY <2>5, <2>9
    <3>3. Knowledge(u, "running", toLoad, parts, buffer) = Knowledge(u, "running", toLoad, parts, <<>>)
      BY <1>2, <3>2 DEF Knowledge
    <3> QED
      BY <1>3, <3>1, <3>3
  <2> QED
    BY <2>8, <2>9
<1> QED
  BY <1>4, <1>5

(* What is sent to the backend are responses that are kept, and the unit that is shown. *)
LEMMA StoredIsRecorded ==
  ASSUME NEW test, NEW buf, Recorded(test, buf), NEW put, Sent(put, buf, test)
  PROVE  Recorded(StateStored(test, buf), NothingBuffered) /\ StateStored(test, buf).parts = test.parts
<1>1. /\ test = [parts |-> test.parts, states |-> test.states, unit |-> test.unit]
      /\ test.unit \in Units \cup {NoUnit} /\ buf.unit \in Units \cup {NoUnit}
      /\ \A u \in Units : PartOf(test.parts, u) \in Possible(u)
  BY DEF Sent, Recorded
<1>2. StateStored(test, buf).parts = test.parts /\ StateStored(test, buf).unit \in {test.unit, buf.unit}
  BY <1>1 DEF StateStored
<1>3. NothingBuffered.unit = NoUnit
  BY DEF NothingBuffered
<1> QED
  BY <1>1, <1>2, <1>3 DEF Recorded

LEMMA PartsAreRecorded ==
  ASSUME Inv, Follow, phase = "running"
  PROVE  /\ Recorded([db EXCEPT !.parts = PartsStored], stateBuffer)
         /\ Sent(lastPut, stateBuffer, [db EXCEPT !.parts = PartsStored])
<1>1. Recorded(db, stateBuffer) /\ Answered("running", parts, buffer, db)
  BY ReadableIfLoaded DEF Follow
<1>2. Sent(lastPut, stateBuffer, db)
  BY DEF Inv
<1>3. db = [parts |-> db.parts, states |-> db.states, unit |-> db.unit]
  BY <1>2 DEF Sent
<1>4. \A u \in Units : PartOf(PartsStored, u) \in {parts[u], PartOf(db.parts, u)}
  BY DEF PartsStored, PartOf
<1>5. \A u \in Units : PartOf(PartsStored, u) \in Possible(u)
  BY <1>1, <1>4 DEF Answered, Recorded
<1>6. [db EXCEPT !.parts = PartsStored].parts = PartsStored /\ [db EXCEPT !.parts = PartsStored].unit = db.unit
  BY <1>3
<1> QED
  BY <1>1, <1>2, <1>5, <1>6, PartsStoredSend DEF Recorded

(* The states that are put into a buffer leave its unit as it is. *)
LEMMA NewStatesAreRecorded ==
  ASSUME NEW test, NEW buf, Recorded(test, buf), buf = [states |-> buf.states, unit |-> buf.unit]
  PROVE  Recorded(test, WithNewStates(buf))
<1>1. \A effective : WithStates(buf, effective).unit = buf.unit
  BY DEF WithStates
<1>2. WithNewStates(buf).unit = buf.unit
  BY <1>1 DEF WithNewStates
<1> QED
  BY <1>2 DEF Recorded

LEMMA ClosingRecords ==
  ASSUME Inv, Follow, phase = "running", NEW stateFirst \in BOOLEAN, CloseAllBuffers(stateFirst)
  PROVE  Recorded(db', stateBuffer')
<1> DEFINE test == [db EXCEPT !.parts = PartsStored]
<1>1. /\ CloseDataBuffer
      /\ stateBuffer' = IF stateFirst THEN WithNewStates(NothingBuffered) ELSE NothingBuffered
      /\ db' = StateStored(test, IF stateFirst THEN stateBuffer ELSE WithNewStates(stateBuffer))
  BY DEF CloseAllBuffers
<1>2. Recorded(test, stateBuffer) /\ Sent(lastPut, stateBuffer, test)
  BY PartsAreRecorded
<1> HIDE DEF test
<1>3. CASE stateFirst
  <2>1. Recorded(StateStored(test, stateBuffer), NothingBuffered)
    BY <1>2, StoredIsRecorded
  <2>2. NothingBuffered = [states |-> NothingBuffered.states, unit |-> NothingBuffered.unit]
    BY DEF NothingBuffered
  <2> QED
    BY <1>1, <1>3, <2>1, <2>2, NewStatesAreRecorded
<1>4. CASE ~stateFirst
  <2>1. Sent(lastPut', WithNewStates(stateBuffer), test)
    BY <1>1, <1>2, CloseDataBufferKeeps
  <2>2. Recorded(test, WithNewStates(stateBuffer))
    BY <1>2, NewStatesAreRecorded DEF Sent
  <2>3. Recorded(StateStored(test, WithNewStates(stateBuffer)), NothingBuffered)
    BY <2>1, <2>2, StoredIsRecorded
  <2> QED
    BY <1>1, <1>4, <2>3
<1> QED
  BY <1>3, <1>4

(* When the buffers are closed nothing is left to be known. *)
LEMMA ClosedFollows ==
  ASSUME Inv, Follow, phase = "running", phase' = phase, UNCHANGED given, toLoad' = toLoad, parts' = parts,
         CloseDataBuffer, Recorded(db', stateBuffer'), Playing(toLoad, unit', player', former')
  PROVE  Follow'
<1>1. Queued(toLoad) /\ Answered("running", parts, buffer, db)
  BY DEF Follow
<1>2. variables' = AfterBuffer.known /\ buffer' = <<>>
  BY DEF CloseDataBuffer
<1>3. Knowing("running", toLoad', parts', variables', buffer')
  BY <1>2, ClosedKnows
<1>4. Answered("running", parts', buffer', db')
  BY <1>1, <1>2 DEF Answered
<1> QED
  BY <1>1, <1>3, <1>4, FollowNext

LEMMA LoadTestFollows ==
  ASSUME Inv, Follow, LoadTest
  PROVE  Follow'
<1>1. /\ UNCHANGED given /\ UNCHANGED db /\ buffer' = <<>> /\ stateBuffer' = NothingBuffered
      /\ unit' = NoUnit /\ player' = "none" /\ former' = NoUnit
      /\ booklet = Invalid => phase' = "error"
  BY DEF LoadTest
<1>2. CASE booklet = Invalid
  BY <1>1, <1>2, FollowNext
<1>3. CASE booklet # Invalid
  <2>1. /\ phase' = "loading" /\ toLoad' = QueueFrom(db.unit) /\ parts' = PartsOnLoading
        /\ variables' = [u \in Units |-> Untold(Unit(u))]
    BY <1>3 DEF LoadTest
  <2>2. Recorded(db, stateBuffer)
    BY <1>3 DEF Follow
  <2>3. Recorded(db', stateBuffer')
    BY <1>1, <2>2 DEF Recorded, NothingBuffered
  <2>4. Queued(toLoad') /\ Files \subseteq Range(toLoad')
    BY <1>3, <2>1, <2>2, QueueIsComplete DEF Inv, Recorded
  <2>5. Answered("loading", parts', buffer', db')
    BY <1>1, <2>1, <2>2 DEF Answered, PartsOnLoading, Recorded
  <2>6. Playing(toLoad', unit', player', former')
    <3>1. NoUnit \notin Units
      BY <1>3, BookletFacts DEF Inv, NoUnit
    <3>2. \A f \in Range(toLoad') : f \in Files
      BY <2>4 DEF Queued, Range
    <3>3. \A f \in Files : f[1] \in Units
      BY DEF Files
    <3>4. ~Pending(NoUnit, toLoad')
      BY <3>1, <3>2, <3>3 DEF Pending
    <3> QED
      BY <1>1, <3>4 DEF Playing
  <2>7. Knowing("loading", toLoad', parts', variables', buffer')
    <3> SUFFICES ASSUME NEW u \in Units
                 PROVE  variables'[u] \in Knowledge(u, "loading", toLoad', parts', buffer')
      BY DEF Knowing
    <3>1. HasScheme(Unit(u)) => Pending(u, toLoad')
      BY <2>4 DEF Files, Pending
    <3> QED
      BY <2>1, <3>1 DEF Knowledge
  <2> QED
    BY <1>1, <2>1, <2>3, <2>4, <2>5, <2>6, <2>7, FollowNext
<1> QED
  BY <1>2, <1>3

(* A scheme makes known what was reported before it came. *)
LEMMA LoadFileFollows ==
  ASSUME Inv, Follow, LoadFile
  PROVE  Follow'
<1>1. /\ phase \in {"loading", "running"} /\ toLoad # <<>> /\ toLoad' = Tail(toLoad)
      /\ phase' = phase /\ UNCHANGED given /\ parts' = parts /\ buffer' = buffer /\ db' = db
      /\ unit' = unit /\ player' = player /\ former' = former
  BY DEF LoadFile, shown
<1>2. /\ Queued(toLoad) /\ Answered(phase, parts, buffer, db) /\ Recorded(db, stateBuffer)
      /\ Playing(toLoad, unit, player, former) /\ Knowing(phase, toLoad, parts, variables, buffer)
      /\ variables = [u \in Units |-> variables[u]]
  BY <1>1, ReadableIfLoaded DEF Follow
<1> DEFINE next == Head(toLoad)
<1>3. Queued(toLoad') /\ Range(toLoad') = Range(toLoad) \ {next}
      /\ next \in Files /\ next \in Range(toLoad)
  BY <1>1, <1>2, TailOfQueue
<1>4. Playing(toLoad', unit', player', former')
  BY <1>1, <1>2, <1>3 DEF Playing, Pending
<1>5. Recorded(db', stateBuffer')
  <2>1. stateBuffer' = stateBuffer \/ \E effective : stateBuffer' = WithStates(stateBuffer, effective)
    BY DEF LoadFile, EvaluateConditions
  <2>2. \A effective : WithStates(stateBuffer, effective).unit = stateBuffer.unit
    <3>1. stateBuffer = [states |-> stateBuffer.states, unit |-> stateBuffer.unit]
      BY DEF Inv, Sent
    <3> QED
      BY <3>1 DEF WithStates
  <2>3. stateBuffer'.unit = stateBuffer.unit
    BY <2>1, <2>2
  <2> QED
    BY <1>1, <1>2, <2>3 DEF Recorded
<1>6. Knowing(phase', toLoad', parts', variables', buffer')
  <2> SUFFICES ASSUME NEW u \in Units
               PROVE  variables'[u] \in Knowledge(u, phase, toLoad', parts, buffer)
    BY <1>1 DEF Knowing
  <2>1. variables[u] \in Knowledge(u, phase, toLoad, parts, buffer)
    BY <1>2 DEF Knowing
  <2>2. CASE next = <<u, "scheme">>
    <3>1. Pending(u, toLoad) /\ ~Pending(u, toLoad')
      BY <1>3, <2>2 DEF Pending
    <3>2. HasScheme(Unit(u))
      BY <1>3, <2>2 DEF Files
    <3>3. variables[u] = Untold(Unit(u))
      BY <2>1, <3>1 DEF Knowledge
    <3>4. variables' = [variables EXCEPT ![u] = Updated(Unit(u), WithBases(Unit(u), variables[u]), parts[u], TRUE)]
      <4>1. Head(toLoad)[1] = u /\ Head(toLoad)[2] = "scheme"
        BY <2>2
      <4> QED
        BY <4>1 DEF LoadFile
    <3>5. variables'[u] = Updated(Unit(u), WithBases(Unit(u), Untold(Unit(u))), parts[u], TRUE)
      BY <1>2, <3>3, <3>4
    <3>6. variables'[u] = KnownOf(Unit(u), parts[u])
      <4>1. HasScheme(Unit(u)) = TRUE
        BY <3>2 DEF HasScheme
      <4> QED
        BY <3>5, <4>1 DEF KnownOf
    <3>7. parts[u] \in Possible(u)
      BY <1>2 DEF Answered
    <3> QED
      BY <3>1, <3>2, <3>6, <3>7 DEF Knowledge
  <2>3. CASE next # <<u, "scheme">>
    <3>1. Pending(u, toLoad') = Pending(u, toLoad)
      BY <1>3, <2>3 DEF Pending
    <3>2. Knowledge(u, phase, toLoad', parts, buffer) = Knowledge(u, phase, toLoad, parts, buffer)
      BY <3>1 DEF Knowledge
    <3>3. variables'[u] = variables[u]
      <4>1. CASE next[2] = "scheme"
        <5>1. PICK value : variables' = [variables EXCEPT ![next[1]] = value]
          BY <4>1 DEF LoadFile
        <5>2. next[1] # u
          BY <1>3, <2>3, <4>1 DEF Files
        <5> QED
          BY <1>2, <5>1, <5>2
      <4>2. CASE next[2] # "scheme"
        BY <4>2 DEF LoadFile
      <4> QED
        BY <4>1, <4>2
    <3> QED
      BY <2>1, <3>2, <3>3
  <2> QED
    BY <2>2, <2>3
<1> QED
  BY <1>1, <1>2, <1>3, <1>4, <1>5, <1>6, FollowNext

LEMMA FinishLoadingFollows ==
  ASSUME Inv, Follow, FinishLoading
  PROVE  Follow'
<1>1. /\ phase = "loading" /\ phase' = "running" /\ UNCHANGED given /\ toLoad' = toLoad /\ parts' = parts
      /\ buffer' = buffer /\ db' = db /\ unit' = unit /\ player' = player /\ former' = former
      /\ variables' = WithoutSchemes
      /\ stateBuffer' = WithStates(stateBuffer, Effective(Evaluated(WithoutSchemes), override))
  BY DEF FinishLoading, shown, EvaluateConditions
<1>2. /\ Queued(toLoad) /\ Answered("loading", parts, buffer, db) /\ Recorded(db, stateBuffer)
      /\ Playing(toLoad, unit, player, former) /\ Knowing("loading", toLoad, parts, variables, buffer)
  BY <1>1, ReadableIfLoaded DEF Follow
<1>3. Recorded(db', stateBuffer')
  <2>1. stateBuffer = [states |-> stateBuffer.states, unit |-> stateBuffer.unit]
    BY DEF Inv, Sent
  <2>2. \A effective : WithStates(stateBuffer, effective).unit = stateBuffer.unit
    BY <2>1 DEF WithStates
  <2> QED
    BY <1>1, <1>2, <2>2 DEF Recorded
<1>4. Answered("running", parts', buffer', db')
  BY <1>1, <1>2 DEF Answered
<1>5. Knowing("running", toLoad', parts', variables', buffer')
  <2> SUFFICES ASSUME NEW u \in Units
               PROVE  variables'[u] \in Knowledge(u, "running", toLoad, parts, <<>>)
    BY <1>1, <1>2 DEF Knowing, Answered
  <2>1. variables[u] \in Knowledge(u, "loading", toLoad, parts, <<>>)
    BY <1>2 DEF Knowing, Answered
  <2>2. Knowledge(u, "running", toLoad, parts, <<>>) =
          IF Pending(u, toLoad) THEN {Untold(Unit(u))} ELSE {KnownOf(Unit(u), parts[u])}
    BY DEF Knowledge, Range
  <2>3. Knowledge(u, "loading", toLoad, parts, <<>>) =
          IF Pending(u, toLoad) \/ ~HasScheme(Unit(u)) THEN {Untold(Unit(u))} ELSE {KnownOf(Unit(u), parts[u])}
    BY DEF Knowledge, Range
  <2>4. CASE HasScheme(Unit(u))
    <3>1. variables'[u] = variables[u]
      BY <1>1, <2>4 DEF WithoutSchemes
    <3> QED
      BY <2>1, <2>2, <2>3, <2>4, <3>1
  <2>5. CASE ~HasScheme(Unit(u))
    <3>1. ~Pending(u, toLoad)
      BY <1>2, <2>5 DEF Pending, Queued, Files, Range
    <3>2. variables'[u] = Updated(Unit(u), Untold(Unit(u)), parts[u], FALSE)
      BY <1>1, <2>1, <2>3, <2>5 DEF WithoutSchemes
    <3>3. HasScheme(Unit(u)) = FALSE
      BY <2>5 DEF HasScheme
    <3>4. variables'[u] = KnownOf(Unit(u), parts[u])
      BY <3>2, <3>3 DEF KnownOf
    <3> QED
      BY <2>2, <3>1, <3>4
  <2> QED
    BY <2>4, <2>5
<1> QED
  BY <1>1, <1>2, <1>3, <1>4, <1>5, FollowNext

(* Actions that leave the responses and what is known of them alone *)
LEMMA UntouchedFollows ==
  ASSUME Inv, Follow, phase \in {"loading", "running"}, phase' = phase, UNCHANGED given,
         UNCHANGED <<toLoad, parts, variables, buffer>>, db'.parts = db.parts,
         Recorded(db', stateBuffer'), Playing(toLoad, unit', player', former')
  PROVE  Follow'
<1>1. /\ Queued(toLoad) /\ Answered(phase, parts, buffer, db)
      /\ Knowing(phase, toLoad, parts, variables, buffer)
  BY DEF Follow
<1>2. Answered(phase', parts', buffer', db')
  BY <1>1 DEF Answered
<1> QED
  BY <1>1, <1>2, FollowNext

LEMMA FollowFacts ==
  ASSUME Inv, Follow, phase \in {"loading", "running"}
  PROVE  /\ Recorded(db, stateBuffer) /\ Playing(toLoad, unit, player, former)
         /\ stateBuffer = [states |-> stateBuffer.states, unit |-> stateBuffer.unit]
         /\ Sent(lastPut, stateBuffer, db)
  BY ReadableIfLoaded DEF Follow, Inv, Sent

LEMMA DataBufferTimeFollows ==
  ASSUME Inv, Follow, DataBufferTime
  PROVE  Follow'
<1>1. /\ phase = "running" /\ phase' = phase /\ CloseDataBuffer /\ UNCHANGED given
      /\ toLoad' = toLoad /\ parts' = parts /\ unit' = unit /\ player' = player /\ former' = former
      /\ stateBuffer' = WithNewStates(stateBuffer) /\ db' = [db EXCEPT !.parts = PartsStored]
  BY DEF DataBufferTime, shown
<1>2. Recorded(db', stateBuffer')
  BY <1>1, FollowFacts, PartsAreRecorded, NewStatesAreRecorded
<1> QED
  BY <1>1, <1>2, FollowFacts, ClosedFollows

LEMMA StateBufferTimeFollows ==
  ASSUME Inv, Follow, StateBufferTime
  PROVE  Follow'
<1>1. /\ phase \in {"loading", "running"} /\ phase' = phase /\ UNCHANGED given
      /\ UNCHANGED <<toLoad, parts, variables, buffer>> /\ unit' = unit /\ player' = player /\ former' = former
      /\ stateBuffer' = NothingBuffered /\ db' = StateStored(db, stateBuffer)
  BY DEF StateBufferTime, shown
<1>2. Recorded(db', stateBuffer') /\ db'.parts = db.parts
  BY <1>1, FollowFacts, StoredIsRecorded
<1> QED
  BY <1>1, <1>2, FollowFacts, UntouchedFollows

LEMMA TurnFollows ==
  ASSUME Inv, Follow, NEW u \in Units, Turn(u)
  PROVE  Follow'
<1>1. PICK stateFirst \in BOOLEAN : CloseAllBuffers(stateFirst)
  BY DEF Turn
<1>2. /\ phase = "running" /\ phase' = phase /\ UNCHANGED given /\ toLoad' = toLoad /\ parts' = parts
      /\ unit' = u /\ player' = "waiting" /\ former' = IF player = "started" THEN unit ELSE former
  BY DEF Turn, Open
<1>3. Recorded(db', stateBuffer') /\ CloseDataBuffer
  BY <1>1, <1>2, ClosingRecords DEF CloseAllBuffers
<1>4. Playing(toLoad, unit', player', former')
  BY <1>2, FollowFacts DEF Playing
<1> QED
  BY <1>2, <1>3, <1>4, ClosedFollows

LEMMA StartPlayerFollows ==
  ASSUME Inv, Follow, StartPlayer
  PROVE  Follow'
<1>1. PICK stateFirst \in BOOLEAN : CloseAllBuffers(stateFirst)
  BY DEF StartPlayer
<1>2. /\ player = "ready" /\ phase' = phase /\ UNCHANGED given /\ toLoad' = toLoad /\ parts' = parts
      /\ unit' = unit /\ player' = "started" /\ former' = NoUnit
  BY DEF StartPlayer
<1>3. phase = "running"
  BY <1>2 DEF Inv, Typed
<1>4. Recorded(db', stateBuffer') /\ CloseDataBuffer
  BY <1>1, <1>3, ClosingRecords DEF CloseAllBuffers
<1>5. Playing(toLoad, unit', player', former')
  <2>1. ~Pending(NoUnit, toLoad)
    <3>1. Queued(toLoad)
      BY <1>3 DEF Follow
    <3>2. NoUnit \notin Units
      BY <1>3, ReadableIfLoaded, BookletFacts DEF Inv, NoUnit
    <3> QED
      BY <3>1, <3>2 DEF Queued, Pending, Files, Range
  <2> QED
    BY <1>2, <1>3, <2>1, FollowFacts DEF Playing
<1> QED
  BY <1>2, <1>3, <1>4, <1>5, ClosedFollows

LEMMA JumpFollows ==
  ASSUME Inv, Follow, NEW u \in Units, Jump(u)
  PROVE  Follow'
<1>1. /\ phase = "running" /\ phase' = phase /\ UNCHANGED given /\ Open(Admitted(u))
      /\ UNCHANGED <<toLoad, parts, variables, buffer>> /\ UNCHANGED <<stateBuffer, db>>
  BY DEF Jump
<1>2. unit' \in Units /\ player' = "waiting" /\ former' = IF player = "started" THEN unit ELSE former
  BY <1>1, AdmittedIsUnit, ReadableIfLoaded DEF Open
<1>3. Playing(toLoad, unit', player', former')
  BY <1>1, <1>2, FollowFacts DEF Playing
<1> QED
  BY <1>1, <1>3, FollowFacts, UntouchedFollows

(* A unit whose block is loaded has its scheme. *)
LEMMA PrepareUnitFollows ==
  ASSUME Inv, Follow, PrepareUnit
  PROVE  Follow'
<1>1. /\ player = "waiting" /\ BlockLoaded(unit) /\ player' = "loading" /\ unit' = unit /\ former' = former
      /\ stateBuffer' = [stateBuffer EXCEPT !.unit = unit] /\ phase' = phase /\ UNCHANGED given
      /\ UNCHANGED <<toLoad, parts, variables, buffer>> /\ UNCHANGED db
  BY DEF PrepareUnit
<1>2. phase = "running"
  BY <1>1 DEF Inv, Typed
<1>3. unit \in Units
  BY <1>1, <1>2, FollowFacts DEF Playing
<1>4. ~Pending(unit, toLoad)
  <2>1. \E t \in Range(booklet.testlets) : t.id = Unit(unit).parent
    <3>1. booklet = Parse(file) /\ file \in BookletFiles /\ booklet # Invalid
      BY <1>2, ReadableIfLoaded DEF Inv, Typed
    <3>2. Unit(unit) \in Range(Parse(file).units)
      BY <1>3, <3>1 DEF Unit, Units, Range
    <3> QED
      BY <3>1, <3>2, ParseAssumption
  <2>2. <<unit, "scheme">>[1] = unit
    OBVIOUS
  <2> QED
    BY <1>1, <2>1, <2>2 DEF BlockLoaded, Pending
<1>5. Playing(toLoad, unit', player', former')
  BY <1>1, <1>2, <1>3, <1>4, FollowFacts DEF Playing
<1>6. Recorded(db', stateBuffer')
  <2>1. stateBuffer'.unit = unit
    BY <1>1, <1>2, FollowFacts
  <2> QED
    BY <1>1, <1>2, <1>3, <2>1, FollowFacts DEF Recorded
<1> QED
  BY <1>1, <1>2, <1>5, <1>6, UntouchedFollows

LEMMA PlayerReadyFollows ==
  ASSUME Inv, Follow, PlayerReady
  PROVE  Follow'
<1>1. /\ player = "loading" /\ player' = "ready" /\ unit' = unit /\ former' = former /\ phase' = phase
      /\ UNCHANGED given /\ UNCHANGED <<toLoad, parts, variables, buffer>> /\ UNCHANGED <<stateBuffer, db>>
  BY DEF PlayerReady
<1>2. phase = "running"
  BY <1>1 DEF Inv, Typed
<1>3. Playing(toLoad, unit', player', former')
  BY <1>1, <1>2, FollowFacts DEF Playing
<1> QED
  BY <1>1, <1>2, <1>3, FollowFacts, UntouchedFollows

(* What is reported waits in the buffer; what is known is what was reported before. *)
LEMMA StateChangedFollows ==
  ASSUME Inv, Follow, NEW u \in Units, NEW content, StateChanged(u, content)
  PROVE  Follow'
<1>1. /\ phase = "running" /\ phase' = phase /\ UNCHANGED given
      /\ (u = unit /\ player = "started") \/ (u = former /\ player \in {"waiting", "loading"})
      /\ content \in Content(Unit(u).id)
      /\ parts' = [parts EXCEPT ![u] = content] /\ buffer' = Append(buffer, <<u, content>>)
      /\ UNCHANGED <<toLoad, variables, stateBuffer, db>>
      /\ unit' = unit /\ player' = player /\ former' = former
  BY DEF StateChanged, Reported, shown
<1>2. /\ Queued(toLoad) /\ Answered("running", parts, buffer, db)
      /\ Knowing("running", toLoad, parts, variables, buffer) /\ buffer \in Seq(Reports)
  BY <1>1, ReadableIfLoaded DEF Follow
<1>3. ~Pending(u, toLoad)
  BY <1>1, FollowFacts DEF Playing
<1>4. <<u, content>> \in Reports
  BY <1>1 DEF Reports
<1>5. /\ buffer' # <<>> /\ buffer'[Len(buffer')] = <<u, content>>
      /\ \A b : b \in Range(buffer') <=> b \in Range(buffer) \/ b = <<u, content>>
  <2>1. /\ Len(buffer) \in Nat /\ DOMAIN buffer = 1 .. Len(buffer)
        /\ Len(buffer') = Len(buffer) + 1 /\ DOMAIN buffer' = 1 .. (Len(buffer) + 1)
        /\ buffer'[Len(buffer) + 1] = <<u, content>> /\ \A i \in 1 .. Len(buffer) : buffer'[i] = buffer[i]
    BY <1>1, <1>2, <1>4
  <2>2. \A i \in DOMAIN buffer' : i \in DOMAIN buffer \/ i = Len(buffer) + 1
    BY <2>1
  <2>3. \A i \in DOMAIN buffer : i \in DOMAIN buffer'
    BY <2>1
  <2>4. Len(buffer) + 1 \in DOMAIN buffer'
    BY <2>1
  <2>5. \A b \in Range(buffer') : b \in Range(buffer) \/ b = <<u, content>>
    BY <2>1, <2>2 DEF Range
  <2>6. \A b \in Range(buffer) : b \in Range(buffer')
    BY <2>1, <2>3 DEF Range
  <2>7. <<u, content>> \in Range(buffer')
    BY <2>1, <2>4 DEF Range
  <2>8. buffer' # <<>>
    BY <2>1
  <2> QED
    BY <2>1, <2>5, <2>6, <2>7, <2>8
<1>6. Answered("running", parts', buffer', db')
  <2>1. /\ parts = [w \in Units |-> parts[w]] /\ \A w \in Units : parts[w] \in Possible(w)
    BY <1>2 DEF Answered
  <2>2. parts' = [w \in Units |-> IF w = u THEN content ELSE parts[w]]
    BY <1>1, <2>1
  <2>3. content \in Possible(u)
    BY <1>1 DEF Possible
  <2>4. buffer'[Len(buffer')][1] = u /\ buffer'[Len(buffer')][2] = content
    BY <1>5
  <2>5. \A w \in Units : parts'[w] \in Possible(w)
    BY <2>1, <2>2, <2>3
  <2> QED
    BY <2>2, <2>4, <2>5 DEF Answered
<1>7. Knowing("running", toLoad', parts', variables', buffer')
  <2> SUFFICES ASSUME NEW w \in Units
               PROVE  variables[w] \in Knowledge(w, "running", toLoad, parts', buffer')
    BY <1>1 DEF Knowing
  <2>1. variables[w] \in Knowledge(w, "running", toLoad, parts, buffer)
    BY <1>2 DEF Knowing
  <2>2. <<u, content>>[1] = u
    OBVIOUS
  <2>3. CASE w = u
    <3>1. \E b \in Range(buffer') : b[1] = w
      BY <1>5, <2>2, <2>3
    <3>2. parts[w] \in Possible(w)
      BY <1>2 DEF Answered
    <3>3. \E old \in Possible(w) : variables[w] = KnownOf(Unit(w), old)
      BY <1>3, <2>1, <2>3, <3>2 DEF Knowledge
    <3> QED
      BY <1>3, <2>3, <3>1, <3>3 DEF Knowledge
  <2>4. CASE w # u
    <3>1. (\E b \in Range(buffer') : b[1] = w) <=> (\E b \in Range(buffer) : b[1] = w)
      BY <1>5, <2>2, <2>4
    <3>2. parts'[w] = parts[w]
      <4>1. parts = [x \in Units |-> parts[x]]
        BY <1>2 DEF Answered
      <4> QED
        BY <1>1, <2>4, <4>1
    <3> QED
      BY <2>1, <3>1, <3>2 DEF Knowledge
  <2> QED
    BY <2>3, <2>4
<1> QED
  BY <1>1, <1>2, <1>6, <1>7, FollowFacts, FollowNext

LEMMA SetOverrideFollows ==
  ASSUME Inv, Follow, NEW s \in States, NEW option, SetOverride(s, option)
  PROVE  Follow'
<1>1. /\ phase = "running" /\ phase' = phase /\ UNCHANGED given /\ UNCHANGED <<toLoad, parts, variables, buffer>>
      /\ unit' = unit /\ player' = player /\ former' = former /\ db' = db
      /\ stateBuffer' = WithStates(stateBuffer, Effective(current, override'))
  BY DEF SetOverride, shown
<1>2. \A effective : WithStates(stateBuffer, effective).unit = stateBuffer.unit
  <2>1. stateBuffer = [states |-> stateBuffer.states, unit |-> stateBuffer.unit]
    BY <1>1, FollowFacts
  <2> QED
    BY <2>1 DEF WithStates
<1>3. Recorded(db', stateBuffer')
  BY <1>1, <1>2, FollowFacts DEF Recorded
<1> QED
  BY <1>1, <1>3, FollowFacts, UntouchedFollows

LEMMA FollowHolds == Spec => []Follow
<1>1. Init => Follow
  <2> SUFFICES ASSUME Init PROVE Follow
    OBVIOUS
  <2>1. \A u : PartOf(<<>>, u) = Unanswered
    BY DEF PartOf
  <2>2. Recorded(NothingStored, NothingBuffered)
    BY <2>1 DEF Recorded, NothingStored, NothingBuffered, Possible
  <2> QED
    BY <2>2 DEF Init, Follow
<1>2. Inv /\ Follow /\ [Next]_vars => Follow'
  <2> SUFFICES ASSUME Inv, Follow, [Next]_vars PROVE Follow'
    OBVIOUS
  <2>1. CASE LoadTest
    BY <2>1, LoadTestFollows
  <2>2. CASE LoadFile
    BY <2>2, LoadFileFollows
  <2>3. CASE FinishLoading
    BY <2>3, FinishLoadingFollows
  <2>4. CASE DataBufferTime
    BY <2>4, DataBufferTimeFollows
  <2>5. CASE StateBufferTime
    BY <2>5, StateBufferTimeFollows
  <2>6. CASE PrepareUnit
    BY <2>6, PrepareUnitFollows
  <2>7. CASE PlayerReady
    BY <2>7, PlayerReadyFollows
  <2>8. CASE StartPlayer
    BY <2>8, StartPlayerFollows
  <2>9. CASE \E u \in Units : Turn(u) \/ Jump(u)
    BY <2>9, TurnFollows, JumpFollows
  <2>10. CASE \E u \in Units : \E content \in Content(Unit(u).id) : StateChanged(u, content)
    BY <2>10, StateChangedFollows
  <2>11. CASE \E s \in States : \E option \in OptionsOf(s) : SetOverride(s, option)
    BY <2>11, SetOverrideFollows
  <2>12. CASE UNCHANGED vars
    <3>1. /\ UNCHANGED given /\ UNCHANGED <<phase, toLoad, parts, variables, buffer, db, stateBuffer>>
          /\ unit' = unit /\ player' = player /\ former' = former
      BY <2>12 DEF vars, given
    <3> QED
      BY <3>1, FollowNext DEF Follow
  <2> QED
    BY <2>1, <2>2, <2>3, <2>4, <2>5, <2>6, <2>7, <2>8, <2>9, <2>10, <2>11, <2>12 DEF Next
<1> QED
  BY <1>1, <1>2, InvHolds, PTL DEF Spec

(* With everything loaded and nothing buffered, all that the responses say is known. *)
LEMMA AllIsKnown ==
  ASSUME Inv, Follow, phase = "running", toLoad = <<>>, buffer = <<>>
  PROVE  variables = VariablesOf(parts)
<1>1. /\ Answered("running", parts, buffer, db) /\ Knowing("running", toLoad, parts, variables, buffer)
      /\ variables = [u \in Units |-> variables[u]]
  BY ReadableIfLoaded DEF Follow
<1>2. \A u \in Units : variables[u] = KnownOf(Unit(u), parts[u])
  <2> SUFFICES ASSUME NEW u \in Units PROVE variables[u] = KnownOf(Unit(u), parts[u])
    OBVIOUS
  <2>1. ~Pending(u, <<>>)
    BY DEF Pending, Range
  <2>2. ~\E b \in Range(<<>>) : b[1] = u
    BY DEF Range
  <2>3. variables[u] \in Knowledge(u, "running", <<>>, parts, <<>>)
    BY <1>1 DEF Knowing
  <2> QED
    BY <2>1, <2>2, <2>3 DEF Knowledge
<1>3. \A u \in Units : PartOf(parts, u) = parts[u]
  BY <1>1 DEF Answered, PartOf
<1> QED
  BY <1>1, <1>2, <1>3 DEF VariablesOf

LEMMA StatesFollow == Inv /\ Follow => StatesFollowResponses
<1> SUFFICES ASSUME Inv, Follow, phase = "running", toLoad = <<>>, buffer = <<>>
             PROVE  current = ByResponses(parts)
  BY DEF StatesFollowResponses
<1>1. current = Evaluated(variables)
  BY DEF Inv, Decided, StatesAreEvaluated
<1> QED
  BY <1>1, AllIsKnown DEF ByResponses

------------------------------------------------------------------------------
(* Theorems *)

(* The tab keeps its types: options are those of the states, units those of the booklet, *)
(* and nothing is loaded of a file that cannot be parsed.                                *)
THEOREM TypeCorrect == Spec => []TypeOK
<1>1. Inv => TypeOK
  BY DEF Inv, Typed
<1> QED
  BY <1>1, InvHolds, PTL

(* At any time of a running test the states are those of the variables, and they decide  *)
(* what is hidden, although the buffer reports the changes of its last unit only.        *)
THEOREM DecidedCorrect == Spec => [](StatesAreEvaluated /\ HiddenAsDecided /\ BufferIsOfOneUnit)
<1>1. Inv => StatesAreEvaluated /\ HiddenAsDecided /\ BufferIsOfOneUnit
  BY DEF Inv, Decided, StatesAreEvaluated, HiddenAsDecided
<1> QED
  BY <1>1, InvHolds, PTL

(* Unless states wait in the buffer, the backend has those in effect, through reloads,   *)
(* choices by hand and buffers that are closed in either order.                          *)
THEOREM StoredStatesCorrect == Spec => []StoredStatesAreCurrent
<1>1. Inv => StoredStatesAreCurrent
  BY DEF Inv, Decided, Sent, LastPutOf, StoredStatesAreCurrent
<1> QED
  BY <1>1, InvHolds, PTL

(* As soon as everything is loaded and no response waits, the states are those that all  *)
(* responses imply, in whatever order schemes and responses have arrived; the states      *)
(* decide what is shown (evaluateConditions, updateAllShowLocks).                          *)
THEOREM BranchCorrect == Spec => []BranchFollowsResponses
<1>1. Inv /\ Follow => BranchFollowsResponses
  <2>1. Inv => TypeOK /\ StatesAreEvaluated /\ BufferIsOfOneUnit /\ HiddenAsDecided
    BY DEF Inv, Typed, Decided, StatesAreEvaluated, HiddenAsDecided
  <2> QED
    BY <2>1, StatesFollow DEF BranchFollowsResponses
<1> QED
  BY <1>1, InvHolds, FollowHolds, PTL

(* A test that has states, and is continued, is in the branch of the stored responses,    *)
(* also if it is loaded lazily: then all schemes are waited for (loadResources).           *)
THEOREM ReloadCorrect == Spec => ReloadKeepsBranch
<1>1. Inv /\ Inv' /\ Follow /\ Follow' /\ [Next]_vars =>
        [phase = "loading" /\ phase' = "running" /\ stored # {} => current' = ByResponses(db.parts)]_vars
  <2> SUFFICES ASSUME Inv, Inv', Follow, Follow', [Next]_vars,
                      phase = "loading", phase' = "running", stored # {}
               PROVE  current' = ByResponses(db.parts)
    OBVIOUS
  <2>1. FinishLoading
    BY DEF Next, vars, LoadTest, LoadFile, DataBufferTime, StateBufferTime, PrepareUnit, PlayerReady,
           StartPlayer, Inv, Typed
  <2>2. /\ toLoad = <<>> /\ toLoad' = toLoad /\ parts' = parts /\ buffer' = buffer /\ UNCHANGED given
    BY <2>1 DEF FinishLoading, WaitsForFiles
  <2>3. Answered("loading", parts, buffer, db)
    BY DEF Follow
  <2>4. StatesFollowResponses'
    BY StatesFollow, PTL
  <2>5. current' = ByResponses(parts)'
    BY <2>2, <2>3, <2>4 DEF StatesFollowResponses, Answered
  <2>6. ByResponses(parts)' = ByResponses(parts)
    <3>1. booklet' = booklet /\ parts' = parts
      BY <2>2 DEF given
    <3> QED
      BY <3>1 DEF ByResponses, VariablesOf, Evaluated, ByAlias, Units, Unit, States
  <2>7. VariablesOf(parts) = VariablesOf(db.parts)
    BY <2>3 DEF VariablesOf, Answered, PartOf
  <2> QED
    BY <2>5, <2>6, <2>7 DEF ByResponses
<1> QED
  BY <1>1, InvHolds, FollowHolds, PTL DEF Spec, ReloadKeepsBranch

(* Who turns to another unit gets one that all responses so far let him see: the buffers  *)
(* are closed before the target is computed (setUnitNavigationRequest).                    *)
THEOREM TurnsCorrect == Spec => TurnsFollowResponses
<1>1. Inv /\ Inv' /\ Follow /\ Follow' /\ [Next]_vars =>
        [phase = "running" /\ toLoad = <<>> /\ unit' # unit => \A u \in Units : Turn(u) =>
           Visible(u, HiddenBy(Effective(ByResponses(parts), override)))]_vars
  <2> SUFFICES ASSUME Inv, Inv', Follow, Follow', phase = "running", toLoad = <<>>, NEW u \in Units, Turn(u)
               PROVE  Visible(u, HiddenBy(Effective(ByResponses(parts), override)))
    OBVIOUS
  <2>1. PICK stateFirst \in BOOLEAN : CloseAllBuffers(stateFirst)
    BY DEF Turn
  <2>2. /\ phase' = "running" /\ toLoad' = <<>> /\ parts' = parts /\ UNCHANGED given /\ IsTarget(u, hidden')
    BY DEF Turn
  <2>3. override' = override /\ buffer' = <<>> /\ DecidedBy(variables', current', override', hidden', lastPut')
    BY <2>1, CloseAllBuffersKeeps
  <2>4. StatesFollowResponses'
    BY StatesFollow, PTL
  <2>5. current' = ByResponses(parts)
    <3>1. booklet' = booklet /\ parts' = parts
      BY <2>2 DEF given
    <3>2. ByResponses(parts)' = ByResponses(parts)
      BY <3>1 DEF ByResponses, VariablesOf, Evaluated, ByAlias, Units, Unit, States
    <3> QED
      BY <2>2, <2>3, <2>4, <3>2 DEF StatesFollowResponses
  <2>6. hidden' = HiddenBy(Effective(ByResponses(parts), override))
    BY <2>3, <2>5 DEF DecidedBy
  <2> QED
    BY <2>2, <2>6 DEF IsTarget
<1> QED
  BY <1>1, InvHolds, FollowHolds, PTL DEF Spec, TurnsFollowResponses
==============================================================================
