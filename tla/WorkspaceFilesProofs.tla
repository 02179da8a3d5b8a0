------------------------- MODULE WorkspaceFilesProofs -------------------------
(* Between two requests and after every start the database of a workspace  *)
(* is in line with its folder: for any documents, uploads, deletions and   *)
(* admins, and any number of crashes and errors.                           *)
EXTENDS WorkspaceFiles, TLAPS

USE DocumentsAssumption, BoundsAssumption

------------------------------------------------------------------------------
(* The inductive invariant *)

(* In the following f stands for a folder, F for the rows of files, R for  *)
(* relations, L for logins, X for refused ids, P for the documents of an   *)
(* upload that are still to be stored, with their relations, and K for the *)
(* places of files that may be incomplete for the moment.                  *)
Place == {Key(d) : d \in Documents}
Descend(R) == \A x \in R : x[1][1] = x[2][1] + 1
Item == {x \in [doc : Documents, relations : SUBSET (Place \X Place)] :
           Descend(x.relations) /\ \A y \in x.relations : y[1] = Key(x.doc)}

Docs(F) == {r.doc : r \in F}
Found(d, i, F, R) ==
  \E s \in F : s.valid /\ s.doc.id = i /\ s.doc.level + 1 = d.level /\ <<Key(d), Key(s.doc)>> \in R
Promised(d, i, P, R) ==
  \E x \in P : x.doc.level = 0 /\ x.doc.id = i /\ d.level = 1 /\ <<Key(d), Key(x.doc)>> \in R
Fulfilled(d, P, F, R, X) == \A i \in d.needs \ X : Found(d, i, F, R) \/ Promised(d, i, P, R)
Complete(K, P, F, R, X) == \A r \in F : r.valid /\ Key(r.doc) \notin K => Fulfilled(r.doc, P, F, R, X)
LoggedIn(K, F, L) ==
  L \subseteq Keys(F) /\ \A r \in F : r.valid /\ r.doc.level = 3 /\ Key(r.doc) \notin K => Key(r.doc) \in L

(* at rest *)
Consistent(f, F, R, L, X) == Docs(F) = f /\ Complete({}, {}, F, R, X) /\ LoggedIn({}, F, L)

(* in an upload: the documents that are left rely on each other *)
Sorting(P, f, F, R, L, X) ==
  /\ Docs(F) = f /\ Complete({}, P, F, R, X) /\ LoggedIn({}, F, L)
  /\ \A x \in P : Fulfilled(x.doc, P, F, x.relations, X)
Storing(x, P, f, F, R, L, X) ==
  /\ {d \in Docs(F) : Key(d) # Key(x.doc)} = {d \in f : Key(d) # Key(x.doc)} /\ x.doc \in f
  /\ \A r \in F : Key(r.doc) = Key(x.doc) => r.doc.id = x.doc.id
  /\ Complete({}, P, F, R, X) /\ LoggedIn({}, F, L)
  /\ \A y \in P : Fulfilled(y.doc, P, F, y.relations, X)
Relating(x, P, f, F, R, L, X) ==
  /\ Docs(F) = f /\ x.doc \in f
  /\ Complete({Key(x.doc)}, P, F, R, X) /\ LoggedIn({Key(x.doc)}, F, L)
  /\ \A y \in P \cup {x} : Fulfilled(y.doc, P, F, y.relations, X)

(* in a deletion: whatever needs something in T is in T *)
Closed(T, F, R) == \A x \in R : x[2] \in T /\ x[2] \in Keys(F) => x[1] \in T
Deleting(T, f, F, R, L, X) ==
  Docs(F) = f /\ Complete(T, {}, F, R, X) /\ LoggedIn({}, F, L) /\ Closed(T, F, R)

Progress(q, f, F, R, L, X) ==
  /\ q.at \in {"validate", "select", "finish"} => Consistent(f, F, R, L, X)
  /\ q.at = "sort" => Sorting(q.batch, f, F, R, L, X)
  /\ q.at = "store" => Storing(q.doc, q.batch \cup {q.doc}, f, F, R, L, X)
  /\ q.at = "meta" => Relating(q.doc, q.batch, f, F, R, L, X)
  /\ q.at = "delete" => Deleting(q.todo, f, F, R, L, X)
  /\ q.at = "unlink" => Deleting(q.todo, {d \in f : Key(d) # q.doc}, F, R, L, X)

------------------------------------------------------------------------------
(* What the steps of a request do to folder and database *)

Typed(F) == F \subseteq {Row(d, ok, dup) : d \in Documents, ok \in BOOLEAN, dup \in BOOLEAN}
UniqueKeys(F) == \A r, s \in F : r # s => Key(r.doc) # Key(s.doc)

LEMMA RowType ==
  ASSUME NEW F, Typed(F), NEW r \in F
  PROVE  r.doc \in Documents /\ r.valid \in BOOLEAN /\ r.duplicate \in BOOLEAN
BY DEF Typed, Row

LEMMA LevelType ==
  ASSUME NEW d \in Documents
  PROVE  d.level \in 0..3 /\ (d.level = 0 => d.needs = {}) /\ Key(d) \in Place /\ Key(d)[1] = d.level
BY DEF Levels, Place, Key

LEMMA SameKeySameLevel ==
  ASSUME NEW d, NEW e, Key(d) = Key(e)
  PROVE  d.level = e.level
BY DEF Key

(* Refusing one thing more, or relating more, breaks no promise.           *)
LEMMA FulfilledGrows ==
  ASSUME NEW d, NEW P, NEW F, NEW R, NEW X, Fulfilled(d, P, F, R, X),
         NEW S, NEW Y, R \subseteq S, X \subseteq Y
  PROVE  Fulfilled(d, P, F, S, Y)
BY DEF Fulfilled, Found, Promised

LEMMA SortedIsConsistent ==
  ASSUME NEW f, NEW F, NEW R, NEW L, NEW X
  PROVE  Sorting({}, f, F, R, L, X) <=> Consistent(f, F, R, L, X)
BY DEF Sorting, Consistent

(* A document that is refused is needed by no other, or its id is noted.   *)
LEMMA RefusingKeeps ==
  ASSUME NEW P, NEW f, NEW F, NEW R, NEW L, NEW X, Sorting(P, f, F, R, L, X), NEW x \in P, NEW Y,
         Y = IF x.doc.level = 0 THEN X \cup {x.doc.id} ELSE X
  PROVE  Sorting(P \ {x}, f, F, R, L, Y)
<1>1. ASSUME NEW d, NEW S, Fulfilled(d, P, F, S, X) PROVE Fulfilled(d, P \ {x}, F, S, Y)
  <2> SUFFICES ASSUME NEW i \in d.needs \ Y, Promised(d, i, P, S) PROVE Promised(d, i, P \ {x}, S)
    BY <1>1 DEF Fulfilled
  <2>1. PICK y \in P : y.doc.level = 0 /\ y.doc.id = i /\ d.level = 1 /\ <<Key(d), Key(y.doc)>> \in S
    BY DEF Promised
  <2>2. y # x
    BY <2>1
  <2> QED
    BY <2>1, <2>2 DEF Promised
<1> QED
  BY <1>1 DEF Sorting, Complete

(* A file is put into the folder under an id that its place has already.   *)
LEMMA OverwritingKeeps ==
  ASSUME NEW P, NEW f, NEW F, NEW R, NEW L, NEW X, Sorting(P, f, F, R, L, X), NEW x \in P, NEW g,
         \A d \in f : Key(d) = Key(x.doc) => d.id = x.doc.id,
         g = (f \ {d \in f : Key(d) = Key(x.doc)}) \cup {x.doc}
  PROVE  Storing(x, (P \ {x}) \cup {x}, g, F, R, L, X)
<1>1. (P \ {x}) \cup {x} = P
  OBVIOUS
<1>2. \A r \in F : Key(r.doc) = Key(x.doc) => r.doc.id = x.doc.id
  BY DEF Sorting, Docs
<1>3. {d \in Docs(F) : Key(d) # Key(x.doc)} = {d \in g : Key(d) # Key(x.doc)} /\ x.doc \in g
  BY DEF Sorting
<1> QED
  BY <1>1, <1>2, <1>3 DEF Sorting, Storing

(* The row follows; its relations are still missing.                       *)
LEMMA StoringKeeps ==
  ASSUME NEW x, NEW P, NEW f, NEW F, NEW R, NEW L, NEW X, Storing(x, P \cup {x}, f, F, R, L, X), Typed(F),
         x.doc \in Documents,
         \A d, e \in f : d # e => Key(d) # Key(e),
         NEW G, G = {r \in F : Key(r.doc) # Key(x.doc)} \cup {Row(x.doc, TRUE, FALSE)},
         NEW S, S = {y \in R : y[1] # Key(x.doc)}
  PROVE  Relating(x, P, f, G, S, L, X)
<1> DEFINE new == Row(x.doc, TRUE, FALSE)
<1>1. new \in G /\ new.doc = x.doc /\ new.valid
  BY DEF Row
<1>2. ASSUME NEW s \in F
      PROVE  s \in G \/ (Key(s.doc) = Key(new.doc) /\ s.doc.id = new.doc.id /\ s.doc.level = new.doc.level)
  <2>1. CASE Key(s.doc) = Key(x.doc)
    <3>1. s.doc.id = x.doc.id
      BY <2>1 DEF Storing
    <3> QED
      BY <1>1, <2>1, <3>1, SameKeySameLevel
  <2>2. CASE Key(s.doc) # Key(x.doc)
    BY <2>2
  <2> QED
    BY <2>1, <2>2
<1>3. ASSUME NEW d, NEW T, Fulfilled(d, P \cup {x}, F, T, X) PROVE Fulfilled(d, P, G, T, X)
  <2> HIDE DEF new
  <2>1. ASSUME NEW i, Found(d, i, F, T) PROVE Found(d, i, G, T)
    BY <1>1, <1>2, <2>1 DEF Found
  <2>2. ASSUME NEW i, Promised(d, i, P \cup {x}, T) PROVE Found(d, i, G, T) \/ Promised(d, i, P, T)
    <3>1. PICK y \in P \cup {x} : y.doc.level = 0 /\ y.doc.id = i /\ d.level = 1 /\ <<Key(d), Key(y.doc)>> \in T
      BY <2>2 DEF Promised
    <3>2. CASE y = x
      <4>1. new.doc.level = 0 /\ new.doc.id = i /\ <<Key(d), Key(new.doc)>> \in T /\ 0 + 1 = d.level
        BY <1>1, <3>1, <3>2
      <4>2. new \in G /\ new.valid /\ new.doc.level + 1 = d.level
        BY <1>1, <4>1
      <4> QED
        BY <4>1, <4>2 DEF Found
    <3>3. CASE y \in P
      BY <3>1, <3>3 DEF Promised
    <3> QED
      BY <3>2, <3>3
  <2> QED
    BY <1>3, <2>1, <2>2 DEF Fulfilled
<1>4. ASSUME NEW d, NEW T, Fulfilled(d, P, G, T, X), Key(d) # Key(x.doc), T = R PROVE Fulfilled(d, P, G, S, X)
  BY <1>4 DEF Fulfilled, Found, Promised
<1>5. Complete({Key(x.doc)}, P, G, S, X)
  <2> SUFFICES ASSUME NEW r \in G, r.valid, Key(r.doc) # Key(x.doc) PROVE Fulfilled(r.doc, P, G, S, X)
    BY DEF Complete
  <2>1. r \in F
    BY DEF Row
  <2> QED
    BY <2>1, <1>3, <1>4 DEF Storing, Complete
<1>6. Docs(G) = f /\ x.doc \in f
  <2>1. Docs(G) = {d \in Docs(F) : Key(d) # Key(x.doc)} \cup {x.doc}
    BY <1>1 DEF Docs
  <2>2. {d \in f : Key(d) # Key(x.doc)} \cup {x.doc} = f
    BY DEF Storing
  <2> QED
    BY <2>1, <2>2 DEF Storing
<1>7. LoggedIn({Key(x.doc)}, G, L)
  <2>1. Keys(F) \subseteq Keys(G)
    <3> HIDE DEF new
    <3> QED
      BY <1>1, <1>2 DEF Keys
  <2>2. ASSUME NEW r \in G, Key(r.doc) # Key(x.doc) PROVE r \in F
    BY <2>2 DEF Row
  <2> QED
    BY <2>1, <2>2 DEF Storing, LoggedIn
<1>8. \A y \in P \cup {x} : Fulfilled(y.doc, P, G, y.relations, X)
  BY <1>3 DEF Storing
<1> QED
  BY <1>5, <1>6, <1>7, <1>8 DEF Relating

(* The relations follow, and the logins of a Testtakers file.              *)
LEMMA RelatingKeeps ==
  ASSUME NEW x, NEW P, NEW f, NEW F, NEW R, NEW L, NEW X, Relating(x, P, f, F, R, L, X), Typed(F), UniqueKeys(F),
         NEW S, S = R \cup x.relations,
         NEW M, M = IF x.doc.level = 3 THEN L \cup {Key(x.doc)} ELSE L
  PROVE  Sorting(P, f, F, S, M, X)
<1>1. PICK n \in F : n.doc = x.doc
  BY DEF Relating, Docs
<1>2. \A r \in F : Key(r.doc) = Key(x.doc) => r = n
  BY <1>1 DEF UniqueKeys
<1>3. Complete({}, P, F, S, X)
  <2> SUFFICES ASSUME NEW r \in F, r.valid PROVE Fulfilled(r.doc, P, F, S, X)
    BY DEF Complete
  <2>1. CASE Key(r.doc) = Key(x.doc)
    <3>1. r.doc = x.doc
      BY <1>1, <1>2, <2>1
    <3> QED
      BY <3>1, FulfilledGrows DEF Relating
  <2>2. CASE Key(r.doc) # Key(x.doc)
    <3>1. Fulfilled(r.doc, P, F, R, X)
      BY <2>2 DEF Relating, Complete
    <3> QED
      BY <3>1, FulfilledGrows
  <2> QED
    BY <2>1, <2>2
<1>4. LoggedIn({}, F, M)
  <2>1. Key(x.doc) \in Keys(F)
    BY <1>1 DEF Keys
  <2>2. \A r \in F : Key(r.doc) = Key(x.doc) => r.doc.level = x.doc.level
    BY SameKeySameLevel
  <2> QED
    BY <2>1, <2>2 DEF Relating, LoggedIn
<1> QED
  BY <1>3, <1>4 DEF Relating, Sorting

(* In a round a file and one that it needs are a Unit and a Resource.      *)
LEMMA RoundLevels ==
  ASSUME NEW todo \in SUBSET Documents, NEW d \in Round(todo), NEW e \in Round(todo), e.level + 1 = d.level
  PROVE  d.level = 1 /\ e.level = 0
<1> DEFINE Lowest(k) == (\E c \in todo : c.level = k) /\ \A c \in todo : k <= c.level
           lowest == CHOOSE k \in Levels : Lowest(k)
<1>1. d \in todo /\ e \in todo /\ \A c \in todo : c.level \in 0..3
  BY LevelType DEF Round
<1>2. \E k \in Levels : Lowest(k)
  <2> DEFINE at(k) == \E c \in todo : c.level = k
  <2>1. at(0) \/ at(1) \/ at(2) \/ at(3)
    BY <1>1
  <2>2. at(0) => Lowest(0)
    BY <1>1
  <2>3. ~at(0) /\ at(1) => Lowest(1)
    BY <1>1
  <2>4. ~at(0) /\ ~at(1) /\ at(2) => Lowest(2)
    BY <1>1
  <2>5. ~at(0) /\ ~at(1) /\ ~at(2) /\ at(3) => Lowest(3)
    BY <1>1
  <2> HIDE DEF at, Lowest
  <2>6. 0 \in Levels /\ 1 \in Levels /\ 2 \in Levels /\ 3 \in Levels
    BY DEF Levels
  <2> QED
    BY <2>1, <2>2, <2>3, <2>4, <2>5, <2>6
<1>3. lowest \in Levels /\ Lowest(lowest)
  BY <1>2
<1>4. Round(todo) = {c \in todo : c.level = lowest \/ (lowest = 0 /\ c.level = 1)}
  BY DEF Round
<1> HIDE DEF lowest
<1>5. lowest <= d.level /\ lowest <= e.level
  BY <1>1, <1>3
<1> QED
  BY <1>1, <1>3, <1>4, <1>5 DEF Levels

(* What is accepted relies on valid rows, or on Resources of the upload.   *)
LEMMA ValidatingKeeps ==
  ASSUME Typed(files), Consistent(folder, files, relations, logins, refused), NEW todo \in SUBSET Documents,
         NEW B, B = {[doc |-> d, relations |-> RelationsOf(d, Known(Round(todo)))] :
                     d \in {e \in Round(todo) : Accepted(e, Round(todo))}}
  PROVE  Sorting(B, folder, files, relations, logins, refused)
<1>1. Complete({}, B, files, relations, refused)
  BY DEF Consistent, Complete, Fulfilled, Promised
<1>2. ASSUME NEW x \in B PROVE Fulfilled(x.doc, B, files, x.relations, refused)
  <2>1. PICK d \in Round(todo) : /\ Accepted(d, Round(todo))
                                 /\ x = [doc |-> d, relations |-> RelationsOf(d, Known(Round(todo)))]
    OBVIOUS
  <2> SUFFICES ASSUME NEW i \in d.needs
               PROVE  Found(d, i, files, x.relations) \/ Promised(d, i, B, x.relations)
    BY <2>1 DEF Fulfilled
  <2>2. PICK e \in Known(Round(todo)) : e.level + 1 = d.level /\ e.id = i
    BY <2>1 DEF Accepted
  <2>3. <<Key(d), Key(e)>> \in x.relations
    BY <2>1, <2>2 DEF RelationsOf
  <2>4. CASE \E s \in files : s.valid /\ s.doc = e
    BY <2>2, <2>3, <2>4 DEF Found
  <2>5. CASE e \in Round(todo)
    <3>1. d.level = 1 /\ e.level = 0
      BY <2>2, <2>5, RoundLevels
    <3>2. e \in Documents
      BY <2>5 DEF Round
    <3>3. Accepted(e, Round(todo))
      BY <3>1, <3>2 DEF Accepted
    <3> DEFINE y == [doc |-> e, relations |-> RelationsOf(e, Known(Round(todo)))]
    <3>4. y \in B /\ y.doc = e
      BY <2>5, <3>3
    <3> HIDE DEF y
    <3> QED
      BY <2>2, <2>3, <3>1, <3>4 DEF Promised
  <2> QED
    BY <2>4, <2>5 DEF Known
<1> QED
  BY <1>1, <1>2 DEF Consistent, Sorting

LEMMA UsersType ==
  ASSUME relations \subseteq Place \X Place
  PROVE  /\ \A S, z : z \in Users(S) <=> \E y \in S : <<z, y>> \in relations
         /\ \A s, z : z \in Users({s}) <=> <<z, s>> \in relations
<1>1. ASSUME NEW S, NEW z PROVE z \in Users(S) <=> \E y \in S : <<z, y>> \in relations
  <2>1. ASSUME NEW x \in relations PROVE x = <<x[1], x[2]>>
    OBVIOUS
  <2>2. ASSUME NEW y \in S, <<z, y>> \in relations PROVE z \in Users(S)
    <3>1. <<z, y>>[1] = z /\ <<z, y>>[2] = y
      OBVIOUS
    <3>2. <<z, y>> \in {x \in relations : x[2] \in S}
      BY <2>2, <3>1
    <3> QED
      BY <3>1, <3>2 DEF Users
  <2> QED
    BY <2>1, <2>2 DEF Users
<1>2. ASSUME NEW s, NEW z PROVE z \in Users({s}) <=> <<z, s>> \in relations
  <2> DEFINE single == {s}
  <2> HIDE DEF single
  <2>1. z \in Users(single) <=> \E y \in single : <<z, y>> \in relations
    BY <1>1
  <2> USE DEF single
  <2> QED
    BY <2>1
<1> QED
  BY <1>1, <1>2

LEMMA LevelsDescend ==
  ASSUME relations \subseteq Place \X Place, Descend(relations), NEW y, NEW z, <<z, y>> \in relations
  PROVE  y[1] \in 0..3 /\ z[1] \in 0..3 /\ z[1] = y[1] + 1
<1>1. y \in Place /\ z \in Place
  OBVIOUS
<1>2. \A k \in Place : k[1] \in 0..3
  BY LevelType DEF Place
<1> QED
  BY <1>1, <1>2 DEF Descend

(* What is left of a selection contains the users of its files.            *)
LEMMA SelectingKeeps ==
  ASSUME relations \subseteq Place \X Place, Descend(relations),
         Consistent(folder, files, relations, logins, refused), NEW S,
         NEW T, T = S \ (Blocked(S) \cap Keys(files))
  PROVE  Deleting(T, folder, files, relations, logins, refused)
<1> DEFINE Near(s) == Users({s}) \cup Users(Users({s}))
           All(s) == Near(s) \cup Users(Near(s))
<1>0. \A s : Users({s}) \subseteq Near(s) /\ Users(Users({s})) \subseteq Near(s) /\ Near(s) \subseteq All(s)
  OBVIOUS
<1>9. \A s, y : y \in Near(s) => y \in Users({s}) \/ y \in Users(Users({s}))
  OBVIOUS
<1>10. \A s, y : y \in All(s) <=> y \in Near(s) \/ y \in Users(Near(s))
  OBVIOUS
<1>11. \A s : All(s) = Near(s) \cup Users(Near(s))
  OBVIOUS
<1> HIDE DEF Near, All
<1>1. ASSUME NEW s, NEW r, <<r, s>> \in relations PROVE All(r) \subseteq All(s) /\ r \in All(s)
  <2>1. r \in Users({s})
    BY <1>1, UsersType
  <2>2. ASSUME NEW z \in Users({r}) PROVE z \in Users(Users({s}))
    BY <2>1, <2>2, UsersType
  <2>3. ASSUME NEW z \in Users(Users({r})) PROVE z \in Users(Near(s)) /\ z[1] = s[1] + 3 /\ s[1] \in 0..3
    <3>1. PICK y \in Users({r}) : <<z, y>> \in relations
      BY <2>3, UsersType
    <3>2. y \in Near(s)
      BY <1>0, <2>2
    <3>3. <<y, r>> \in relations
      BY UsersType
    <3>4. s[1] \in 0..3 /\ r[1] = s[1] + 1
      BY <1>1, LevelsDescend
    <3>5. y[1] = r[1] + 1
      BY <3>3, LevelsDescend
    <3>6. z[1] = y[1] + 1
      BY <3>1, LevelsDescend
    <3>7. z \in Users(Near(s))
      BY <3>1, <3>2, UsersType
    <3> QED
      BY <3>4, <3>5, <3>6, <3>7
  <2>4. ASSUME NEW z \in Users(Near(r)) PROVE z \in All(s)
    <3>1. PICK y \in Near(r) : <<z, y>> \in relations
      BY <2>4, UsersType
    <3>2. CASE y \in Users({r})
      <4>1. z \in Users(Users({r}))
        BY <3>1, <3>2, UsersType
      <4> QED
        BY <1>10, <2>3, <4>1
    <3>3. CASE y \in Users(Users({r}))
      <4>1. y[1] = s[1] + 3 /\ s[1] \in 0..3
        BY <2>3, <3>3
      <4>2. z[1] \in 0..3 /\ z[1] = y[1] + 1
        BY <3>1, LevelsDescend
      <4> QED
        BY <4>1, <4>2
    <3> QED
      BY <1>9, <3>2, <3>3
  <2>5. \A z \in Near(r) : z \in All(s)
    BY <1>0, <1>9, <1>10, <2>2, <2>3
  <2> QED
    BY <1>0, <1>10, <2>1, <2>4, <2>5
<1>2. \A s : s \in Blocked(S) <=> s \in S /\ ~(All(s) \subseteq S)
  BY <1>11 DEF Blocked, Near, All
<1>3. Closed(T, files, relations)
  <2> SUFFICES ASSUME NEW x \in relations, x[2] \in T, x[2] \in Keys(files) PROVE x[1] \in T
    BY DEF Closed
  <2>1. <<x[1], x[2]>> \in relations
    OBVIOUS
  <2>2. All(x[2]) \subseteq S
    BY <1>2
  <2>3. x[1] \in S /\ All(x[1]) \subseteq S
    BY <1>1, <2>1, <2>2
  <2> QED
    BY <1>2, <2>3
<1>4. Complete(T, {}, files, relations, refused)
  BY DEF Consistent, Complete
<1> QED
  BY <1>3, <1>4 DEF Consistent, Deleting

(* A row goes that only rows to be deleted need.                           *)
LEMMA DeletingKeeps ==
  ASSUME NEW T, NEW f, NEW F, NEW R, NEW L, NEW X, Deleting(T, f, F, R, L, X), NEW k \in T,
         NEW G, G = {r \in F : Key(r.doc) # k}, NEW S, S = {x \in R : x[1] # k}, NEW M, M = L \ {k}
  PROVE  Deleting(T \ {k}, {d \in f : Key(d) # k}, G, S, M, X)
<1>1. Keys(G) = Keys(F) \ {k}
  BY DEF Keys
<1>2. Complete(T \ {k}, {}, G, S, X)
  <2> SUFFICES ASSUME NEW r \in G, r.valid, Key(r.doc) \notin T, NEW i \in r.doc.needs \ X
               PROVE  Found(r.doc, i, G, S)
    BY DEF Complete, Fulfilled
  <2>1. r \in F /\ ~Promised(r.doc, i, {}, R)
    BY DEF Promised
  <2>2. Found(r.doc, i, F, R)
    BY <2>1 DEF Deleting, Complete, Fulfilled
  <2>3. PICK s \in F : s.valid /\ s.doc.id = i /\ s.doc.level + 1 = r.doc.level /\ <<Key(r.doc), Key(s.doc)>> \in R
    BY <2>2 DEF Found
  <2>4. Key(s.doc) # k
    <3>1. Key(s.doc) \in Keys(F)
      BY DEF Keys
    <3> QED
      BY <2>3, <3>1 DEF Deleting, Closed
  <2>5. s \in G /\ <<Key(r.doc), Key(s.doc)>> \in S
    BY <2>3, <2>4
  <2> QED
    BY <2>3, <2>5 DEF Found
<1>3. Closed(T \ {k}, G, S)
  BY <1>1 DEF Deleting, Closed
<1>4. LoggedIn({}, G, M)
  BY <1>1 DEF Deleting, LoggedIn
<1>5. Docs(G) = {d \in f : Key(d) # k}
  BY DEF Deleting, Docs
<1> QED
  BY <1>2, <1>3, <1>4, <1>5 DEF Deleting

(* The start computes a consistent database.                               *)
LEMMA ValidType ==
  ASSUME NEW S \in SUBSET Documents, NEW d \in Valid(S)
  PROVE  d \in S /\ \A i \in d.needs : \E e \in Valid(S) : e.id = i /\ e.level + 1 = d.level
<1> DEFINE v0 == ValidAt(S, 0, {}) v1 == ValidAt(S, 1, v0) v2 == ValidAt(S, 2, v1) v3 == ValidAt(S, 3, v2)
<1>1. Valid(S) = v0 \cup v1 \cup v2 \cup v3
  BY DEF Valid
<1>2. /\ \A e \in v0 : e \in S /\ e.level = 0 /\ e.needs = {}
      /\ \A e \in v1 : e \in S /\ e.level = 0 + 1 /\ \A i \in e.needs : \E c \in v0 : c.id = i
      /\ \A e \in v2 : e \in S /\ e.level = 1 + 1 /\ \A i \in e.needs : \E c \in v1 : c.id = i
      /\ \A e \in v3 : e \in S /\ e.level = 2 + 1 /\ \A i \in e.needs : \E c \in v2 : c.id = i
  BY DEF ValidAt
<1>3. \A e \in v0 : e.level = 0
  BY <1>2
<1>4. \A e \in v1 : e.level = 1
  BY <1>2
<1>5. \A e \in v2 : e.level = 2
  BY <1>2
<1> HIDE DEF v0, v1, v2, v3
<1> QED
  BY <1>1, <1>2, <1>3, <1>4, <1>5

Rows == {Row(d, ok, dup) : d \in Documents, ok \in BOOLEAN, dup \in BOOLEAN}

LEMMA RowsType ==
  ASSUME NEW d \in Documents, NEW ok \in BOOLEAN, NEW dup \in BOOLEAN
  PROVE  Row(d, ok, dup) \in Rows
BY DEF Rows

LEMMA FilesForType ==
  ASSUME NEW S \in SUBSET Documents, NEW D
  PROVE  /\ Typed(FilesFor(S, D)) /\ Docs(FilesFor(S, D)) = S
         /\ \A r \in FilesFor(S, D) : r.doc \in S /\ r = Row(r.doc, r.doc \in Valid(S \ D), r.doc \in D)
         /\ \A d \in S : Row(d, d \in Valid(S \ D), d \in D) \in FilesFor(S, D)
<1>1. \A d \in S : Row(d, d \in Valid(S \ D), d \in D).doc = d
  BY DEF Row
<1>2. \A d \in S : (d \in Valid(S \ D)) \in BOOLEAN /\ (d \in D) \in BOOLEAN
  OBVIOUS
<1> DEFINE row(d) == Row(d, d \in Valid(S \ D), d \in D)
<1>3. FilesFor(S, D) = {row(d) : d \in S}
  BY DEF FilesFor
<1>4. \A d \in S : row(d) \in {Row(e, ok, dup) : e \in Documents, ok \in BOOLEAN, dup \in BOOLEAN}
  <2> HIDE DEF row
  <2> SUFFICES ASSUME NEW d \in S PROVE row(d) \in Rows
    BY DEF Rows
  <2> USE DEF row
  <2> DEFINE valid == d \in Valid(S \ D)
             duplicate == d \in D
  <2>1. CASE valid /\ duplicate
    <3>1. row(d) = Row(d, TRUE, TRUE)
      BY <2>1
    <3> QED
      BY <3>1, RowsType
  <2>2. CASE valid /\ ~duplicate
    <3>1. row(d) = Row(d, TRUE, FALSE)
      <4>1. valid = TRUE /\ duplicate = FALSE
        BY <2>2
      <4> QED
        BY <4>1, Zenon
    <3> QED
      BY <3>1, RowsType
  <2>3. CASE ~valid /\ duplicate
    <3>1. row(d) = Row(d, FALSE, TRUE)
      <4>1. valid = FALSE /\ duplicate = TRUE
        BY <2>3
      <4> QED
        BY <4>1, Zenon
    <3> QED
      BY <3>1, RowsType
  <2>4. CASE ~valid /\ ~duplicate
    <3>1. row(d) = Row(d, FALSE, FALSE)
      <4>1. valid = FALSE /\ duplicate = FALSE
        BY <2>4
      <4> QED
        BY <4>1, Zenon
    <3> QED
      BY <3>1, RowsType
  <2> QED
    BY <2>1, <2>2, <2>3, <2>4
<1> HIDE DEF row
<1>5. Typed(FilesFor(S, D))
  BY <1>3, <1>4 DEF Typed
<1>6. \A d \in S : row(d).doc = d
  BY <1>1 DEF row
<1>7. Docs(FilesFor(S, D)) = S /\ \A r \in FilesFor(S, D) : r.doc \in S /\ r = row(r.doc)
  BY <1>3, <1>6 DEF Docs
<1> QED
  BY <1>3, <1>5, <1>7 DEF row

LEMMA RowValid ==
  ASSUME NEW d, NEW V, NEW D
  PROVE  /\ Row(d, d \in V, d \in D).valid <=> d \in V
         /\ Row(d, d \in V, d \in D).duplicate <=> d \in D
BY DEF Row

LEMMA StartingIsConsistent ==
  ASSUME NEW S \in SUBSET Documents, NEW D, NEW L,
         NEW M, M = {k \in L : k \in {Key(d) : d \in S}} \cup {Key(d) : d \in {e \in Valid(S \ D) : e.level = 3}}
  PROVE  Consistent(S, FilesFor(S, D), RelationsFor(S \ D), M, {})
<1> DEFINE F == FilesFor(S, D)
           V == Valid(S \ D)
<1>0. S \ D \in SUBSET Documents
  OBVIOUS
<1>1. ASSUME NEW r \in F PROVE r.doc \in S /\ (r.valid => r.doc \in V)
  <2>1. r.doc \in S /\ r = Row(r.doc, r.doc \in V, r.doc \in D)
    BY FilesForType
  <2>2. Row(r.doc, r.doc \in V, r.doc \in D).valid <=> r.doc \in V
    BY RowValid
  <2> HIDE DEF F, V
  <2> QED
    BY <2>1, <2>2
<1>2. ASSUME NEW d \in V PROVE \E r \in F : r.doc = d /\ r.valid
  <2>1. d \in S
    BY <1>0, ValidType
  <2>2. Row(d, d \in V, d \in D) \in F
    BY <2>1, FilesForType
  <2>3. Row(d, d \in V, d \in D).doc = d
    BY DEF Row
  <2>4. Row(d, d \in V, d \in D).valid <=> d \in V
    BY RowValid
  <2> HIDE DEF F, V
  <2> QED
    BY <1>2, <2>2, <2>3, <2>4
<1>3. Docs(F) = S
  BY FilesForType
<1>4. ASSUME NEW r \in F, r.valid, NEW i \in r.doc.needs PROVE Found(r.doc, i, F, RelationsFor(S \ D))
  <2>1. r.doc \in V
    BY <1>1, <1>4
  <2>2. PICK e \in V : e.id = i /\ e.level + 1 = r.doc.level
    BY <1>0, <2>1, ValidType
  <2>3. e \in S \ D
    BY <1>0, ValidType
  <2>4. <<Key(r.doc), Key(e)>> \in RelationsFor(S \ D)
    BY <1>4, <2>1, <2>2, <2>3 DEF RelationsFor, RelationsOf
  <2>5. PICK s \in F : s.doc = e /\ s.valid
    BY <1>2
  <2> QED
    BY <2>2, <2>4, <2>5 DEF Found
<1>5. LoggedIn({}, F, M)
  <2>1. Keys(F) = {Key(d) : d \in S}
    BY <1>3 DEF Keys, Docs
  <2>2. V \subseteq S
    BY <1>0, ValidType
  <2>3. M \subseteq Keys(F)
    BY <2>1, <2>2
  <2> QED
    BY <1>1, <2>3 DEF LoggedIn
<1> HIDE DEF F, V
<1>6. Complete({}, {}, F, RelationsFor(S \ D), {})
  BY <1>4 DEF Complete, Fulfilled
<1> QED
  BY <1>3, <1>5, <1>6 DEF Consistent, F

------------------------------------------------------------------------------
(* The invariant *)

Upload ==
  [at : {"lock", "validate", "sort", "store", "meta", "finish"}, kind : {"upload"}, nr : 1..MaxRequests,
   todo : SUBSET Documents, batch : SUBSET Item, doc : {None} \cup Item]
Deletion ==
  [at : {"lock", "select", "delete", "unlink", "finish"}, kind : {"deletion"}, nr : 1..MaxRequests,
   todo : SUBSET Place, batch : {{}}, doc : {None} \cup Place]

(* what TypeOK says of folder and database, and of the rest                 *)
Tables(f, F, R, L) ==
  /\ f \subseteq Documents /\ \A d, e \in f : d # e => Key(d) # Key(e)
  /\ Typed(F) /\ UniqueKeys(F)
  /\ \A r, s \in F : r # s /\ SameId(r.doc, s.doc) => r.duplicate \/ s.duplicate
  /\ R \subseteq Keys(F) \X Place
  /\ L \subseteq {Key(d) : d \in {e \in Documents : e.level = 3}}
RestOK ==
  /\ written \in 0..MaxRequests /\ lock \in 1..MaxRequests \cup {None} /\ aged \in BOOLEAN
  /\ up \in BOOLEAN /\ clean \in BOOLEAN
  /\ refused \subseteq {d.id : d \in {e \in Documents : e.level = 0}}
  /\ requests \in 0..MaxRequests /\ faults \in 0..MaxFaults

Types ==
  /\ TypeOK /\ Descend(relations)
  /\ hash \in (SUBSET Documents) \X (0..MaxRequests) \X (1..MaxRequests \cup {None})
  /\ req \in [Admins -> {Idle} \cup Upload \cup Deletion]
  /\ \A a \in Admins : /\ req[a].at \in {"store", "meta"} => req[a].doc \in Item
                       /\ req[a].at = "unlink" => req[a].doc \in Place

(* No two requests have one number, and the last hash is of none of them.   *)
Numbers ==
  /\ \A a \in Admins : req[a].at # "idle" => up /\ req[a].nr <= requests
  /\ \A a, b \in Admins : req[a].at # "idle" /\ req[b].at # "idle" /\ req[a].nr = req[b].nr => a = b
  /\ lock # None => lock <= requests
  /\ hash[3] # None => hash[3] <= requests
  /\ clean => \A a \in Admins : req[a].at # "idle" => hash[3] # req[a].nr
  /\ clean => \A a \in AtWork : lock = req[a].nr

Working ==
  clean => \A a \in AtWork : /\ \A b \in AtWork : a = b
                             /\ Progress(req[a], folder, files, relations, logins, refused)

Settled == AtRest => Consistent(folder, files, relations, logins, refused)

(* If the hash is that of the lock there is, it is that of a consistent    *)
(* workspace: so the start need not read it.                               *)
Hashed ==
  clean /\ hash[3] = lock => /\ AtWork = {} /\ (up => hash[1] = folder)
                             /\ Consistent(hash[1], files, relations, logins, refused)

Order == Numbers /\ Working /\ Settled /\ Hashed
Inv == Types /\ Order

------------------------------------------------------------------------------
(* Steps of one kind *)

LEMMA TypeParts ==
  /\ TypeOK <=> Tables(folder, files, relations, logins) /\ RestOK
  /\ TypeOK' <=> Tables(folder', files', relations', logins') /\ RestOK'
<1>1. TypeOK <=> Tables(folder, files, relations, logins) /\ RestOK
  BY DEF TypeOK, Tables, RestOK, Typed, UniqueKeys, Place
<1>2. TypeOK' <=> Tables(folder', files', relations', logins') /\ RestOK'
  BY DEF TypeOK, Tables, RestOK, Typed, UniqueKeys, Place
<1> QED
  BY <1>1, <1>2

LEMMA RequestType ==
  ASSUME Types, NEW a \in Admins
  PROVE  /\ req[a].at \in {"validate", "sort", "store", "meta"} => req[a] \in Upload
         /\ req[a].at \in {"select", "delete", "unlink"} => req[a] \in Deletion
         /\ req[a].at # "idle" => req[a] \in Upload \cup Deletion
BY DEF Types, Upload, Deletion, Idle

LEMMA FilesType ==
  ASSUME Types
  PROVE  /\ Tables(folder, files, relations, logins) /\ Typed(files) /\ UniqueKeys(files)
         /\ relations \subseteq Place \X Place
<1>1. Tables(folder, files, relations, logins)
  BY TypeParts DEF Types
<1>2. Keys(files) \subseteq Place
  BY <1>1, RowType DEF Tables, Keys, Place
<1> QED
  BY <1>1, <1>2 DEF Tables

(* Nothing happens to the requests at work.                                *)
LEMMA FrameStep ==
  ASSUME Order, UNCHANGED <<disk, database, hash, lock, up, refused, clean>>,
         AtWork' = AtWork, \A b \in AtWork : req'[b] = req[b]
  PROVE  Working' /\ Settled' /\ Hashed'
<1>1. Working'
  BY DEF Order, Working, disk, database
<1>2. Settled'
  BY DEF Order, Settled, AtRest, disk, database
<1>3. Hashed'
  BY DEF Order, Hashed, disk, database
<1> QED
  BY <1>1, <1>2, <1>3

(* A request goes on.                                                      *)
LEMMA ServeStep ==
  ASSUME Order, NEW a \in AtWork, \A b \in Admins \ {a} : req'[b] = req[b],
         req'[a].nr = req[a].nr, req'[a].at \notin {"idle", "lock"},
         UNCHANGED <<hash, lock, up, clean, requests>>,
         clean => Progress(req'[a], folder', files', relations', logins', refused')
  PROVE  Order'
<1>1. a \in Admins /\ AtWork' = AtWork /\ req[a].at # "idle"
  BY DEF AtWork
<1>6. \A b \in Admins : req'[b].nr = req[b].nr /\ (req'[b].at # "idle" <=> req[b].at # "idle")
  BY <1>1
<1>7. \A b \in AtWork : b \in Admins
  BY DEF AtWork
<1>2. Numbers'
  <2> HIDE DEF AtWork
  <2> QED
    BY <1>1, <1>6, <1>7 DEF Order, Numbers
<1>3. Working'
  BY <1>1 DEF Order, Working
<1>4. Settled'
  BY <1>1 DEF Settled, AtRest
<1>5. Hashed'
  BY <1>1 DEF Order, Hashed
<1> QED
  BY <1>2, <1>3, <1>4, <1>5 DEF Order

LEMMA ErrorStep ==
  ASSUME Inv, NEW a \in Admins, EndWithError(a), UNCHANGED <<disk, database, hash, up, refused, requests>>,
         faults' \in 0..MaxFaults
  PROVE  Inv'
<1>1. req' \in [Admins -> {Idle} \cup Upload \cup Deletion] /\ req'[a] = Idle
      /\ \A b \in Admins \ {a} : req'[b] = req[b]
  BY DEF Inv, Types, EndWithError
<1>2. TypeOK'
  BY TypeParts DEF Inv, Types, RestOK, EndWithError, disk, database
<1>3. Types'
  BY <1>1, <1>2 DEF Inv, Types, disk, database, Idle
<1>4. Order'
  BY <1>1 DEF Inv, Order, Numbers, Working, Settled, AtRest, Hashed, EndWithError, Idle
<1> QED
  BY <1>3, <1>4 DEF Inv

------------------------------------------------------------------------------
(* The steps *)

LEMMA ArriveInv ==
  ASSUME Inv, NEW a \in Admins, NEW S,
         (Arrive(a, "upload", S) /\ S \in Uploads) \/ (Arrive(a, "deletion", S) /\ S \in Deletions)
  PROVE  Inv'
<1> DEFINE q(kind) == [at |-> "lock", kind |-> kind, nr |-> requests + 1, todo |-> S, batch |-> {}, doc |-> None]
<1>0. requests \in Nat /\ requests + 1 \in 1..MaxRequests
  BY DEF Inv, Types, TypeOK, Arrive
<1>1. S \in Uploads => q("upload") \in Upload
  BY <1>0 DEF Upload
<1>2. S \in Deletions => q("deletion") \in Deletion
  BY <1>0 DEF Deletion, Place
<1>3. PICK k : req' = [req EXCEPT ![a] = q(k)] /\ q(k) \in Upload \cup Deletion
  BY <1>1, <1>2 DEF Arrive
<1>4. q(k).at = "lock" /\ q(k).nr = requests + 1
  OBVIOUS
<1>5. /\ req[a] = Idle /\ up /\ requests' = requests + 1
      /\ UNCHANGED <<disk, database, hash, lock, aged, up, refused, clean, faults>>
  BY DEF Arrive
<1> HIDE DEF q
<1>6. req' \in [Admins -> {Idle} \cup Upload \cup Deletion] /\ req'[a] = q(k)
      /\ \A b \in Admins \ {a} : req'[b] = req[b]
  BY <1>3 DEF Inv, Types
<1>7. TypeOK'
  BY <1>0, <1>5, TypeParts DEF Inv, Types, RestOK, disk, database
<1>8. Types'
  BY <1>4, <1>5, <1>6, <1>7 DEF Inv, Types, disk, database
<1>9. AtWork' = AtWork /\ \A b \in AtWork : req'[b] = req[b]
  BY <1>4, <1>5, <1>6 DEF AtWork, Idle
<1>10. Working' /\ Settled' /\ Hashed'
  BY <1>5, <1>9, FrameStep DEF Inv
<1>11. Numbers'
  <2>1. \A b \in Admins : req[b].at # "idle" => req[b].nr \in Nat
    BY RequestType DEF Inv, Upload, Deletion
  <2>2. (lock # None => lock \in Nat) /\ (hash[3] # None => hash[3] \in Nat)
    BY DEF Inv, Types, TypeOK
  <2> QED
    BY <1>0, <1>4, <1>5, <1>6, <1>9, <2>1, <2>2 DEF Inv, Order, Numbers, Idle
<1> QED
  BY <1>8, <1>10, <1>11 DEF Inv, Order

LEMMA WriteLockInv ==
  ASSUME Inv, NEW a \in Admins, WriteLock(a)
  PROVE  Inv'
<1>1. req[a] \in Upload \/ req[a] \in Deletion
  BY RequestType DEF Inv, WriteLock
<1>2. /\ req'[a].at = (IF req[a].kind = "upload" THEN "validate" ELSE "select") /\ req'[a].nr = req[a].nr
      /\ \A b \in Admins \ {a} : req'[b] = req[b]
  BY <1>1 DEF WriteLock, Inv, Types, Upload, Deletion
<1>3. req'[a] \in Upload \/ req'[a] \in Deletion
  BY <1>1 DEF WriteLock, Inv, Types, Upload, Deletion
<1>4. req' \in [Admins -> {Idle} \cup Upload \cup Deletion]
  BY <1>2, <1>3 DEF WriteLock, Inv, Types
<1>5. req[a].nr \in 1..MaxRequests /\ req[a].at = "lock"
  BY <1>1 DEF Upload, Deletion, WriteLock
<1>6. TypeOK'
  BY <1>5, TypeParts DEF Inv, Types, RestOK, WriteLock, disk, database
<1>7. Types'
  BY <1>2, <1>4, <1>6 DEF Inv, Types, WriteLock, disk, database
<1>8. up /\ a \notin AtWork /\ (clean' => clean /\ AtWork = {} /\ AtWork' = {a}) /\ a \in AtWork'
  <2>1. up /\ a \notin AtWork /\ (clean' => clean /\ AtWork = {})
    BY <1>5 DEF Inv, Order, Numbers, AtWork, WriteLock
  <2>2. AtWork' = AtWork \cup {a}
    BY <1>2 DEF AtWork
  <2> QED
    BY <2>1, <2>2
<1>9. lock' = req[a].nr /\ UNCHANGED <<disk, database, hash, up, refused, requests>>
  BY DEF WriteLock
<1>10. clean' => hash[3] # lock'
  BY <1>5, <1>8, <1>9 DEF Inv, Order, Numbers
<1>11. Numbers'
  BY <1>2, <1>5, <1>8, <1>9, <1>10 DEF Inv, Order, Numbers
<1>12. Working'
  <2>1. clean' => Consistent(folder, files, relations, logins, refused)
    BY <1>8 DEF Inv, Order, Settled, AtRest
  <2> QED
    BY <1>2, <1>8, <1>9, <2>1 DEF Working, Progress, disk, database
<1>13. Settled'
  BY <1>8 DEF Settled, AtRest
<1>14. Hashed'
  BY <1>9, <1>10 DEF Hashed
<1> QED
  BY <1>7, <1>11, <1>12, <1>13, <1>14 DEF Inv, Order

LEMMA FinishInv ==
  ASSUME Inv, NEW a \in Admins, Finish(a)
  PROVE  Inv'
<1>1. a \in AtWork /\ up
  BY DEF Finish, AtWork, Inv, Order, Numbers
<1>2. /\ req' \in [Admins -> {Idle} \cup Upload \cup Deletion] /\ req'[a].at = "idle"
      /\ \A b \in Admins \ {a} : req'[b] = req[b]
  BY DEF Inv, Types, Finish, Idle
<1>3. /\ hash' \in (SUBSET Documents) \X (0..MaxRequests) \X (1..MaxRequests \cup {None})
      /\ hash'[3] = lock /\ lock' = None
      /\ UNCHANGED <<disk, database, up, refused, clean, requests, faults>>
  BY DEF Inv, Types, TypeOK, Finish, HashOf
<1>4. TypeOK'
  BY TypeParts DEF Inv, Types, RestOK, Finish, disk, database
<1>5. Types'
  BY <1>2, <1>3, <1>4 DEF Inv, Types, disk, database
<1>6. clean => /\ lock = req[a].nr /\ AtWork' = {}
               /\ Consistent(folder, files, relations, logins, refused)
  BY <1>1, <1>2 DEF Inv, Order, Numbers, Working, Progress, Finish, AtWork
<1>7. clean => lock # None
  BY <1>1, <1>6, RequestType DEF Inv, AtWork, Upload, Deletion
<1>8. Numbers'
  BY <1>1, <1>2, <1>3, <1>6 DEF Inv, Order, Numbers, AtWork
<1>9. Working'
  BY <1>3, <1>6 DEF Working
<1>10. Settled'
  BY <1>3, <1>6 DEF Settled, AtRest, disk, database
<1>11. Hashed'
  BY <1>3, <1>7 DEF Hashed
<1> QED
  BY <1>5, <1>8, <1>9, <1>10, <1>11 DEF Inv, Order

LEMMA RelationsType ==
  ASSUME NEW d \in Documents, NEW S \in SUBSET Documents
  PROVE  [doc |-> d, relations |-> RelationsOf(d, S)] \in Item
<1>1. ASSUME NEW x \in RelationsOf(d, S)
      PROVE  x \in Place \X Place /\ x[1] = Key(d) /\ x[1][1] = x[2][1] + 1
  <2>1. PICK e \in S : e.level + 1 = d.level /\ x = <<Key(d), Key(e)>>
    BY DEF RelationsOf
  <2> QED
    BY <2>1, LevelType
<1> DEFINE R == RelationsOf(d, S)
<1> HIDE DEF R
<1>2. R \subseteq Place \X Place /\ Descend(R) /\ \A y \in R : y[1] = Key(d)
  BY <1>1 DEF R, Descend
<1>3. [doc |-> d, relations |-> R] \in Item
  BY <1>2 DEF Item
<1> QED
  BY <1>3 DEF R

(* A request that goes on has the types of a request.                      *)
LEMMA StepTypes ==
  ASSUME Types, NEW a \in Admins, NEW q \in Upload \cup Deletion, req' = [req EXCEPT ![a] = q],
         q.at \in {"store", "meta"} => q.doc \in Item, q.at = "unlink" => q.doc \in Place,
         Tables(folder', files', relations', logins'), RestOK', Descend(relations'), hash' = hash
  PROVE  Types'
<1>1. TypeOK'
  BY TypeParts
<1>2. req' \in [Admins -> {Idle} \cup Upload \cup Deletion] /\ req'[a] = q
  BY DEF Types
<1>3. \A b \in Admins : /\ req'[b].at \in {"store", "meta"} => req'[b].doc \in Item
                        /\ req'[b].at = "unlink" => req'[b].doc \in Place
  BY <1>2 DEF Types
<1> QED
  BY <1>1, <1>2, <1>3 DEF Types

LEMMA GoingOn ==
  ASSUME Inv, NEW a \in AtWork, NEW q \in Upload \cup Deletion, req' = [req EXCEPT ![a] = q], q.nr = req[a].nr,
         q.at \notin {"idle", "lock"}, q.at \in {"store", "meta"} => q.doc \in Item, q.at = "unlink" => q.doc \in Place,
         UNCHANGED <<hash, lock, up, clean, requests>>,
         Tables(folder', files', relations', logins'), RestOK', Descend(relations'),
         clean => Progress(q, folder', files', relations', logins', refused')
  PROVE  Inv'
<1>1. a \in Admins /\ req'[a] = q /\ \A b \in Admins \ {a} : req'[b] = req[b]
  BY DEF AtWork, Inv, Types
<1>2. Types'
  BY <1>1, StepTypes DEF Inv
<1>3. Order'
  BY <1>1, ServeStep DEF Inv
<1> QED
  BY <1>2, <1>3 DEF Inv

LEMMA ValidateInv ==
  ASSUME Inv, NEW a \in Admins, Validate(a)
  PROVE  Inv'
<1> DEFINE todo == req[a].todo
           B == {[doc |-> d, relations |-> RelationsOf(d, Known(Round(todo)))] :
                 d \in {e \in Round(todo) : Accepted(e, Round(todo))}}
           q == IF todo = {} THEN [req[a] EXCEPT !.at = "finish"]
                ELSE [req[a] EXCEPT !.at = "sort", !.todo = todo \ Round(todo), !.batch = B]
<1>1. a \in AtWork /\ req[a] \in Upload /\ req[a].at = "validate" /\ todo \in SUBSET Documents
  BY RequestType DEF Inv, Validate, AtWork, Upload
<1>2. B \in SUBSET Item
  <2>1. Round(todo) \subseteq Documents
    BY <1>1 DEF Round
  <2>2. Known(Round(todo)) \subseteq Documents
    BY <2>1, FilesType, RowType DEF Inv, Known
  <2> HIDE DEF todo
  <2> QED
    BY <2>1, <2>2, RelationsType
<1>3. req' = [req EXCEPT ![a] = q]
  BY DEF Validate, Inv, Types
<1> HIDE DEF B
<1>4. q \in Upload /\ q.nr = req[a].nr
      /\ ((todo = {} /\ q.at = "finish") \/ (todo # {} /\ q.at = "sort" /\ q.batch = B))
  <2>1. CASE todo = {}
    BY <1>1, <2>1 DEF Upload
  <2>2. CASE todo # {}
    BY <1>1, <1>2, <2>2 DEF Upload
  <2> QED
    BY <2>1, <2>2
<1> HIDE DEF q
<1>5. UNCHANGED <<folder, written, files, relations, logins, hash, lock, aged, up, refused, clean, requests, faults>>
  BY DEF Validate, disk, database
<1>6. Tables(folder', files', relations', logins') /\ RestOK' /\ Descend(relations')
  BY <1>5, TypeParts DEF Inv, Types, RestOK
<1>7. clean => Progress(q, folder', files', relations', logins', refused')
  <2> SUFFICES ASSUME clean PROVE Progress(q, folder, files, relations, logins, refused)
    BY <1>5
  <2>1. Consistent(folder, files, relations, logins, refused)
    BY <1>1 DEF Inv, Order, Working, Progress
  <2>2. Sorting(B, folder, files, relations, logins, refused)
    BY <1>1, <2>1, FilesType, ValidatingKeeps DEF Inv, B
  <2> QED
    BY <1>4, <2>1, <2>2 DEF Progress
<1> QED
  BY <1>1, <1>3, <1>4, <1>5, <1>6, <1>7, GoingOn

LEMMA CategorizeInv ==
  ASSUME Inv, NEW a \in Admins, Categorize(a)
  PROVE  Inv'
<1>1. a \in AtWork /\ req[a] \in Upload /\ req[a].at = "sort"
  BY RequestType DEF Inv, Categorize, AtWork
<1>2. /\ UNCHANGED <<files, relations, logins, hash, lock, aged, up, clean, requests, faults>>
      /\ Tables(folder, files, relations, logins) /\ RestOK /\ Descend(relations)
  BY TypeParts DEF Categorize, database, Inv, Types
<1>3. clean => Sorting(req[a].batch, folder, files, relations, logins, refused)
  BY <1>1 DEF Inv, Order, Working, Progress
<1>4. CASE req[a].batch = {}
  <2> DEFINE q == [req[a] EXCEPT !.at = "validate"]
  <2>1. req' = [req EXCEPT ![a] = q] /\ UNCHANGED <<folder, written, refused>>
    BY <1>4 DEF Categorize, Inv, Types, disk
  <2>2. q \in Upload /\ q.nr = req[a].nr /\ q.at = "validate"
    BY <1>1 DEF Upload
  <2> HIDE DEF q
  <2>3. Tables(folder', files', relations', logins') /\ RestOK' /\ Descend(relations')
    BY <1>2, <2>1 DEF RestOK
  <2>4. clean => Progress(q, folder', files', relations', logins', refused')
    BY <1>2, <1>3, <1>4, <2>1, <2>2, SortedIsConsistent DEF Progress
  <2> QED
    BY <1>1, <1>2, <2>1, <2>2, <2>3, <2>4, GoingOn
<1>5. ASSUME NEW x \in req[a].batch, \E d \in folder : Key(d) = Key(x.doc) /\ d.id # x.doc.id,
             refused' = IF x.doc.level = 0 THEN refused \cup {x.doc.id} ELSE refused,
             UNCHANGED <<folder, written>>,
             req' = [req EXCEPT ![a].batch = @ \ {x}, ![a].at = "sort", ![a].doc = None]
      PROVE  Inv'
  <2> DEFINE q == [req[a] EXCEPT !.batch = req[a].batch \ {x}, !.at = "sort", !.doc = None]
  <2>1. req' = [req EXCEPT ![a] = q]
    BY <1>5 DEF Inv, Types
  <2>2. q \in Upload /\ q.nr = req[a].nr /\ q.at = "sort" /\ q.batch = req[a].batch \ {x}
    BY <1>1 DEF Upload
  <2> HIDE DEF q
  <2>3. x \in Item
    BY <1>1 DEF Upload
  <2>4. refused' \subseteq {d.id : d \in {e \in Documents : e.level = 0}}
    BY <1>2, <1>5, <2>3 DEF RestOK, Item
  <2>5. Tables(folder', files', relations', logins') /\ RestOK' /\ Descend(relations')
    BY <1>2, <1>5, <2>4 DEF RestOK
  <2>6. clean => Progress(q, folder', files', relations', logins', refused')
    BY <1>2, <1>3, <1>5, <2>2, RefusingKeeps DEF Progress
  <2> QED
    BY <1>1, <1>2, <2>1, <2>2, <2>5, <2>6, GoingOn
<1>6. ASSUME NEW x \in req[a].batch, \A d \in folder : Key(d) = Key(x.doc) => d.id = x.doc.id,
             folder' = (folder \ {d \in folder : Key(d) = Key(x.doc)}) \cup {x.doc},
             written' = req[a].nr, refused' = refused,
             req' = [req EXCEPT ![a].batch = @ \ {x}, ![a].at = "store", ![a].doc = x]
      PROVE  Inv'
  <2> DEFINE q == [req[a] EXCEPT !.batch = req[a].batch \ {x}, !.at = "store", !.doc = x]
  <2>1. req' = [req EXCEPT ![a] = q]
    BY <1>6 DEF Inv, Types
  <2>2. x \in Item /\ req[a].nr \in 1..MaxRequests
    BY <1>1 DEF Upload
  <2>3. q \in Upload /\ q.nr = req[a].nr /\ q.at = "store" /\ q.batch = req[a].batch \ {x} /\ q.doc = x
    BY <1>1, <2>2 DEF Upload
  <2> HIDE DEF q
  <2>4. x.doc \in Documents
    BY <2>2 DEF Item
  <2>5. Tables(folder', files', relations', logins')
    BY <1>2, <1>6, <2>4 DEF Tables
  <2>6. RestOK' /\ Descend(relations')
    BY <1>2, <1>6, <2>2 DEF RestOK
  <2>7. clean => Progress(q, folder', files', relations', logins', refused')
    BY <1>2, <1>3, <1>6, <2>3, OverwritingKeeps DEF Progress
  <2> QED
    BY <1>1, <1>2, <2>1, <2>2, <2>3, <2>5, <2>6, <2>7, GoingOn
<1> QED
  BY <1>4, <1>5, <1>6 DEF Categorize, disk

LEMMA StoreFileInv ==
  ASSUME Inv, NEW a \in Admins, StoreFile(a)
  PROVE  Inv'
<1> DEFINE x == req[a].doc
           others == {r \in files : Key(r.doc) # Key(x.doc)}
           taken == \E r \in others : SameId(r.doc, x.doc) /\ ~r.duplicate
           q == [req[a] EXCEPT !.at = "meta"]
<1>1. a \in AtWork /\ req[a] \in Upload /\ req[a].at = "store" /\ x \in Item
  BY RequestType DEF Inv, Types, StoreFile, AtWork
<1>2. /\ UNCHANGED <<folder, written, hash, up, refused, requests, faults>>
      /\ Tables(folder, files, relations, logins) /\ RestOK /\ Descend(relations)
  BY TypeParts DEF StoreFile, disk, Inv, Types
<1>3. CASE taken
  BY <1>2, <1>3, ErrorStep DEF StoreFile, disk, database, RestOK
<1>4. CASE ~taken
  <2>1. /\ files' = others \cup {Row(x.doc, TRUE, FALSE)}
        /\ relations' = {y \in relations : y[1] # Key(x.doc)}
        /\ req' = [req EXCEPT ![a].at = "meta"] /\ UNCHANGED <<logins, lock, aged, clean>>
    BY <1>4 DEF StoreFile
  <2>2. req' = [req EXCEPT ![a] = q]
    BY <2>1 DEF Inv, Types
  <2>3. q \in Upload /\ q.nr = req[a].nr /\ q.at = "meta" /\ q.batch = req[a].batch /\ q.doc = x
    BY <1>1 DEF Upload
  <2> HIDE DEF q
  <2>4. x.doc \in Documents
    BY <1>1 DEF Item
  <2>5. Tables(folder', files', relations', logins')
    <3> DEFINE new == Row(x.doc, TRUE, FALSE)
    <3>1. new.doc = x.doc /\ new \in Rows
      BY <2>4, RowsType DEF Row
    <3>2. Typed(files')
      <4>1. files \subseteq Rows
        BY <1>2 DEF Tables, Typed, Rows
      <4>2. files' \subseteq Rows
        BY <2>1, <3>1, <4>1
      <4> QED
        BY <4>2 DEF Typed, Rows
    <3>3. UniqueKeys(files')
      BY <1>2, <2>1, <3>1 DEF Tables, UniqueKeys
    <3>4. \A r, s \in files' : r # s /\ SameId(r.doc, s.doc) => r.duplicate \/ s.duplicate
      <4>1. \A r, s : SameId(r.doc, s.doc) <=> SameId(s.doc, r.doc)
        BY DEF SameId
      <4> QED
        BY <1>2, <1>4, <2>1, <3>1, <4>1 DEF Tables
    <3>5. relations' \subseteq Keys(files') \X Place
      <4>1. \A r \in files : Key(r.doc) # Key(x.doc) => Key(r.doc) \in Keys(files')
        BY <2>1 DEF Keys
      <4>2. \A k \in Keys(files) : k # Key(x.doc) => k \in Keys(files')
        BY <4>1 DEF Keys
      <4>3. \A y \in relations : y \in Keys(files) \X Place
        BY <1>2 DEF Tables
      <4> QED
        BY <2>1, <4>2, <4>3
    <3> QED
      BY <1>2, <2>1, <3>2, <3>3, <3>4, <3>5 DEF Tables
  <2>6. RestOK' /\ Descend(relations')
    BY <1>2, <2>1 DEF RestOK, Descend
  <2>7. clean => Progress(q, folder', files', relations', logins', refused')
    <3> SUFFICES ASSUME clean PROVE Relating(x, req[a].batch, folder', files', relations', logins', refused')
      BY <2>3 DEF Progress
    <3>1. Storing(x, req[a].batch \cup {x}, folder, files, relations, logins, refused)
      BY <1>1 DEF Inv, Order, Working, Progress
    <3>2. Typed(files) /\ \A d, e \in folder : d # e => Key(d) # Key(e)
      BY <1>2 DEF Tables
    <3> QED
      BY <1>2, <2>1, <2>4, <3>1, <3>2, StoringKeeps
  <2> QED
    BY <1>1, <1>2, <2>1, <2>2, <2>3, <2>5, <2>6, <2>7, GoingOn
<1> QED
  BY <1>3, <1>4

LEMMA StoreMetaInv ==
  ASSUME Inv, NEW a \in Admins, StoreMeta(a)
  PROVE  Inv'
<1> DEFINE x == req[a].doc
           gone == Key(x.doc) \notin Keys(files) /\ x.relations # {}
           q == [req[a] EXCEPT !.at = "sort", !.doc = None]
<1>1. a \in AtWork /\ req[a] \in Upload /\ req[a].at = "meta" /\ x \in Item
  BY RequestType DEF Inv, Types, StoreMeta, AtWork
<1>2. /\ UNCHANGED <<folder, written, hash, up, refused, requests, faults>>
      /\ Tables(folder, files, relations, logins) /\ RestOK /\ Descend(relations)
  BY TypeParts DEF StoreMeta, disk, Inv, Types
<1>3. CASE gone
  BY <1>2, <1>3, ErrorStep DEF StoreMeta, disk, database, RestOK
<1>4. CASE ~gone
  <2>1. /\ relations' = relations \cup x.relations
        /\ logins' = IF x.doc.level = 3 THEN logins \cup {Key(x.doc)} ELSE logins
        /\ req' = [req EXCEPT ![a].at = "sort", ![a].doc = None] /\ UNCHANGED <<files, lock, aged, clean>>
    BY <1>4 DEF StoreMeta
  <2>2. req' = [req EXCEPT ![a] = q]
    BY <2>1 DEF Inv, Types
  <2>3. q \in Upload /\ q.nr = req[a].nr /\ q.at = "sort" /\ q.batch = req[a].batch
    BY <1>1 DEF Upload
  <2> HIDE DEF q
  <2>4. /\ x.doc \in Documents /\ x.relations \subseteq Place \X Place /\ Descend(x.relations)
        /\ \A y \in x.relations : y[1] = Key(x.doc)
    BY <1>1 DEF Item
  <2>5. Tables(folder', files', relations', logins')
    <3>1. x.relations \subseteq Keys(files) \X Place
      BY <1>4, <2>4
    <3> QED
      BY <1>2, <2>1, <2>4, <3>1 DEF Tables
  <2>6. RestOK' /\ Descend(relations')
    BY <1>2, <2>1, <2>4 DEF RestOK, Descend
  <2>7. clean => Progress(q, folder', files', relations', logins', refused')
    <3> SUFFICES ASSUME clean PROVE Sorting(req[a].batch, folder', files', relations', logins', refused')
      BY <2>3 DEF Progress
    <3>1. Relating(x, req[a].batch, folder, files, relations, logins, refused)
      BY <1>1 DEF Inv, Order, Working, Progress
    <3>2. Typed(files) /\ UniqueKeys(files)
      BY <1>2 DEF Tables
    <3> QED
      BY <1>2, <2>1, <3>1, <3>2, RelatingKeeps
  <2> QED
    BY <1>1, <1>2, <2>1, <2>2, <2>3, <2>5, <2>6, <2>7, GoingOn
<1> QED
  BY <1>3, <1>4

LEMMA SelectInv ==
  ASSUME Inv, NEW a \in Admins, Select(a)
  PROVE  Inv'
<1> DEFINE T == req[a].todo \ (Blocked(req[a].todo) \cap Keys(files))
           q == [req[a] EXCEPT !.at = "delete", !.todo = T]
<1>1. a \in AtWork /\ req[a] \in Deletion /\ req[a].at = "select"
  BY RequestType DEF Inv, Select, AtWork
<1>2. /\ UNCHANGED <<folder, written, files, relations, logins, hash, lock, aged, up, refused, clean, requests, faults>>
      /\ Tables(folder, files, relations, logins) /\ RestOK /\ Descend(relations)
  BY TypeParts DEF Select, disk, database, Inv, Types
<1>3. req' = [req EXCEPT ![a] = q]
  BY DEF Select, Inv, Types
<1>4. q \in Deletion /\ q.nr = req[a].nr /\ q.at = "delete" /\ q.todo = T
  <2> HIDE DEF T
  <2>1. T \subseteq req[a].todo
    BY DEF T
  <2> QED
    BY <1>1, <2>1 DEF Deletion
<1> HIDE DEF q
<1>5. Tables(folder', files', relations', logins') /\ RestOK' /\ Descend(relations')
  BY <1>2 DEF RestOK
<1>6. clean => Progress(q, folder', files', relations', logins', refused')
  <2> SUFFICES ASSUME clean PROVE Deleting(T, folder, files, relations, logins, refused)
    BY <1>2, <1>4 DEF Progress
  <2>1. Consistent(folder, files, relations, logins, refused)
    BY <1>1 DEF Inv, Order, Working, Progress
  <2> QED
    BY <1>2, <2>1, FilesType, SelectingKeeps DEF Inv
<1> QED
  BY <1>1, <1>2, <1>3, <1>4, <1>5, <1>6, GoingOn

LEMMA DeleteRowInv ==
  ASSUME Inv, NEW a \in Admins, DeleteRow(a)
  PROVE  Inv'
<1>1. a \in AtWork /\ req[a] \in Deletion /\ req[a].at = "delete"
  BY RequestType DEF Inv, DeleteRow, AtWork
<1>2. /\ UNCHANGED <<folder, written, hash, lock, aged, up, refused, clean, requests, faults>>
      /\ Tables(folder, files, relations, logins) /\ RestOK /\ Descend(relations)
  BY TypeParts DEF DeleteRow, disk, Inv, Types
<1>3. clean => Deleting(req[a].todo, folder, files, relations, logins, refused)
  BY <1>1 DEF Inv, Order, Working, Progress
<1>4. CASE req[a].todo = {}
  <2> DEFINE q == [req[a] EXCEPT !.at = "finish"]
  <2>1. req' = [req EXCEPT ![a] = q] /\ UNCHANGED <<files, relations, logins>>
    BY <1>4 DEF DeleteRow, Inv, Types, database
  <2>2. q \in Deletion /\ q.nr = req[a].nr /\ q.at = "finish"
    BY <1>1 DEF Deletion
  <2> HIDE DEF q
  <2>3. Tables(folder', files', relations', logins') /\ RestOK' /\ Descend(relations')
    BY <1>2, <2>1 DEF RestOK
  <2>4. clean => Progress(q, folder', files', relations', logins', refused')
    BY <1>2, <1>3, <1>4, <2>1, <2>2 DEF Progress, Deleting, Consistent
  <2> QED
    BY <1>1, <1>2, <2>1, <2>2, <2>3, <2>4, GoingOn
<1>5. ASSUME NEW k \in req[a].todo, logins' = logins \ {k}, files' = {r \in files : Key(r.doc) # k},
             relations' = {x \in relations : x[1] # k},
             req' = [req EXCEPT ![a].at = "unlink", ![a].doc = k, ![a].todo = @ \ {k}]
      PROVE  Inv'
  <2> DEFINE q == [req[a] EXCEPT !.at = "unlink", !.doc = k, !.todo = req[a].todo \ {k}]
  <2>1. req' = [req EXCEPT ![a] = q]
    BY <1>5 DEF Inv, Types
  <2>2. k \in Place
    BY <1>1 DEF Deletion
  <2>3. q \in Deletion /\ q.nr = req[a].nr /\ q.at = "unlink" /\ q.doc = k /\ q.todo = req[a].todo \ {k}
    BY <1>1, <2>2 DEF Deletion
  <2> HIDE DEF q
  <2>4. Tables(folder', files', relations', logins')
    <3>1. relations' \subseteq Keys(files') \X Place
      <4>1. \A z \in Keys(files) : z # k => z \in Keys(files')
        BY <1>5 DEF Keys
      <4>2. \A y \in relations : y \in Keys(files) \X Place
        BY <1>2 DEF Tables
      <4> QED
        BY <1>5, <4>1, <4>2
    <3>2. Typed(files') /\ UniqueKeys(files')
      BY <1>2, <1>5 DEF Tables, Typed, UniqueKeys
    <3> QED
      BY <1>2, <1>5, <3>1, <3>2 DEF Tables
  <2>5. RestOK' /\ Descend(relations')
    BY <1>2, <1>5 DEF RestOK, Descend
  <2>6. clean => Progress(q, folder', files', relations', logins', refused')
    BY <1>2, <1>3, <1>5, <2>3, DeletingKeeps DEF Progress
  <2> QED
    BY <1>1, <1>2, <2>1, <2>2, <2>3, <2>4, <2>5, <2>6, GoingOn
<1> QED
  BY <1>4, <1>5 DEF DeleteRow

LEMMA UnlinkInv ==
  ASSUME Inv, NEW a \in Admins, Unlink(a)
  PROVE  Inv'
<1> DEFINE q == [req[a] EXCEPT !.at = "delete", !.doc = None]
<1>1. a \in AtWork /\ req[a] \in Deletion /\ req[a].at = "unlink"
  BY RequestType DEF Inv, Unlink, AtWork
<1>2. /\ UNCHANGED <<written, files, relations, logins, hash, lock, aged, up, refused, clean, requests, faults>>
      /\ folder' = {d \in folder : Key(d) # req[a].doc}
      /\ Tables(folder, files, relations, logins) /\ RestOK /\ Descend(relations)
  BY TypeParts DEF Unlink, database, Inv, Types
<1>3. req' = [req EXCEPT ![a] = q]
  BY DEF Unlink, Inv, Types
<1>4. q \in Deletion /\ q.nr = req[a].nr /\ q.at = "delete" /\ q.todo = req[a].todo
  BY <1>1 DEF Deletion
<1> HIDE DEF q
<1>5. Tables(folder', files', relations', logins') /\ RestOK' /\ Descend(relations')
  BY <1>2 DEF RestOK, Tables
<1>6. clean => Progress(q, folder', files', relations', logins', refused')
  BY <1>1, <1>2, <1>4 DEF Inv, Order, Working, Progress
<1> QED
  BY <1>1, <1>2, <1>3, <1>4, <1>5, <1>6, GoingOn

LEMMA FatalErrorInv ==
  ASSUME Inv, NEW a \in Admins, FatalError(a)
  PROVE  Inv'
<1>1. faults \in 0..MaxFaults
  BY TypeParts DEF Inv, Types, RestOK
<1>2. faults' \in 0..MaxFaults
  BY <1>1 DEF FatalError
<1> QED
  BY <1>2, ErrorStep DEF FatalError

LEMMA CrashInv ==
  ASSUME Inv, Crash
  PROVE  Inv'
<1>1. UNCHANGED <<folder, written, files, relations, logins, hash, lock, aged, refused, clean, requests>>
  BY DEF Crash, disk, database
<1>2. /\ req' \in [Admins -> {Idle} \cup Upload \cup Deletion] /\ \A a \in Admins : req'[a].at = "idle"
  BY DEF Crash, Idle
<1>3. RestOK' /\ ~up'
  <2>1. RestOK /\ up' = FALSE /\ faults < MaxFaults /\ faults' = faults + 1
    BY TypeParts DEF Crash, Inv, Types
  <2>2. faults' \in 0..MaxFaults
    BY <2>1 DEF RestOK
  <2>3. up' \in BOOLEAN
    BY <2>1
  <2> QED
    BY <1>1, <2>1, <2>2, <2>3 DEF RestOK
<1>4. TypeOK'
  BY <1>1, <1>3, TypeParts DEF Inv, Types
<1>5. Types'
  BY <1>1, <1>2, <1>4 DEF Inv, Types
<1>6. AtWork' = {}
  BY <1>2 DEF AtWork
<1>7. Numbers'
  BY <1>1, <1>2, <1>6 DEF Inv, Order, Numbers
<1>8. Working' /\ Settled'
  BY <1>3, <1>6 DEF Working, Settled, AtRest
<1>9. Hashed'
  BY <1>1, <1>3, <1>6 DEF Inv, Order, Hashed
<1> QED
  BY <1>5, <1>7, <1>8, <1>9 DEF Inv, Order

LEMMA RemoveByHandInv ==
  ASSUME Inv, NEW d \in Documents, RemoveByHand(d)
  PROVE  Inv'
<1>1. /\ UNCHANGED <<written, files, relations, logins, hash, lock, aged, req, up, refused, clean, requests, faults>>
      /\ folder' = folder \ {d} /\ ~up
  BY DEF RemoveByHand, database
<1>2. Tables(folder', files', relations', logins') /\ RestOK'
  BY <1>1, TypeParts DEF Inv, Types, Tables, RestOK
<1>3. Types'
  BY <1>1, <1>2, TypeParts DEF Inv, Types
<1>4. AtWork = {} /\ AtWork' = {}
  BY <1>1 DEF AtWork, Inv, Order, Numbers
<1>5. Order'
  BY <1>1, <1>4 DEF Inv, Order, Numbers, Working, Settled, AtRest, Hashed
<1> QED
  BY <1>3, <1>5 DEF Inv

LEMMA AgeInv ==
  ASSUME Inv, Age
  PROVE  Inv'
<1>1. /\ UNCHANGED <<folder, written, files, relations, logins, hash, lock, req, up, refused, clean, requests, faults>>
      /\ aged' = TRUE /\ AtWork' = AtWork
  BY DEF Age, disk, database, AtWork
<1>2. Types'
  BY <1>1, TypeParts DEF Inv, Types, RestOK
<1>3. Working' /\ Settled' /\ Hashed'
  BY <1>1, FrameStep DEF Inv, disk, database
<1>4. Numbers'
  BY <1>1 DEF Inv, Order, Numbers
<1> QED
  BY <1>2, <1>3, <1>4 DEF Inv, Order

(* The tables that the start writes have their types.                      *)
LEMMA StartingTypes ==
  ASSUME NEW S \in SUBSET Documents, \A d, e \in S : d # e => Key(d) # Key(e),
         NEW D \in Duplicates(S), NEW L,
         NEW M, M = {k \in L : k \in {Key(d) : d \in S}} \cup {Key(d) : d \in {e \in Valid(S \ D) : e.level = 3}},
         L \subseteq {Key(d) : d \in {e \in Documents : e.level = 3}}
  PROVE  Tables(S, FilesFor(S, D), RelationsFor(S \ D), M) /\ Descend(RelationsFor(S \ D))
<1> DEFINE F == FilesFor(S, D)
           R == RelationsFor(S \ D)
<1>1. Typed(F) /\ Docs(F) = S /\ \A r \in F : r.doc \in S /\ r = Row(r.doc, r.doc \in Valid(S \ D), r.doc \in D)
  BY FilesForType
<1>2. ASSUME NEW r \in F PROVE r.duplicate <=> r.doc \in D
  <2>1. r = Row(r.doc, r.doc \in Valid(S \ D), r.doc \in D)
    BY <1>1
  <2>2. Row(r.doc, r.doc \in Valid(S \ D), r.doc \in D).duplicate <=> r.doc \in D
    BY RowValid
  <2> HIDE DEF F
  <2> QED
    BY <2>1, <2>2
<1>3. \A r, s \in F : r # s => r.doc # s.doc
  <2> SUFFICES ASSUME NEW r \in F, NEW s \in F, r.doc = s.doc PROVE r = s
    OBVIOUS
  <2> HIDE DEF F
  <2> QED
    BY <1>1
<1>4. S \ D \in SUBSET Documents
  OBVIOUS
<1>5. \A d \in Valid(S \ D) : d \in S
  BY <1>4, ValidType
<1>6. \A x \in R : \E d \in S, e \in S : x = <<Key(d), Key(e)>> /\ e.level + 1 = d.level
  <2> SUFFICES ASSUME NEW x \in R PROVE \E d \in S, e \in S : x = <<Key(d), Key(e)>> /\ e.level + 1 = d.level
    OBVIOUS
  <2>1. PICK d \in Valid(S \ D) : x \in RelationsOf(d, S \ D)
    BY DEF RelationsFor
  <2>2. PICK e \in S \ D : e.level + 1 = d.level /\ x = <<Key(d), Key(e)>>
    BY <2>1 DEF RelationsOf
  <2> QED
    BY <1>5, <2>1, <2>2
<1>7. Keys(F) = {Key(d) : d \in S}
  BY <1>1 DEF Keys, Docs
<1> HIDE DEF F, R
<1>8. UniqueKeys(F)
  BY <1>1, <1>3 DEF UniqueKeys
<1>9. \A r, s \in F : r # s /\ SameId(r.doc, s.doc) => r.duplicate \/ s.duplicate
  <2>1. \A d, e \in S \ D : d # e => ~SameId(d, e)
    BY DEF Duplicates
  <2> QED
    BY <1>1, <1>2, <1>3, <2>1
<1>10. R \subseteq Keys(F) \X Place /\ Descend(R)
  <2> SUFFICES ASSUME NEW x \in R PROVE x \in Keys(F) \X Place /\ x[1][1] = x[2][1] + 1
    BY DEF Descend
  <2>1. PICK d \in S, e \in S : x = <<Key(d), Key(e)>> /\ e.level + 1 = d.level
    BY <1>6
  <2> QED
    BY <1>7, <2>1, LevelType
<1>11. M \subseteq {Key(d) : d \in {e \in Documents : e.level = 3}}
  BY <1>5
<1> QED
  BY <1>1, <1>8, <1>9, <1>10, <1>11 DEF Tables, F, R

LEMMA StartInv ==
  ASSUME Inv, Start
  PROVE  Inv'
<1>1. ~up /\ up' /\ UNCHANGED <<folder, written, lock, aged, req, requests, faults>> /\ up' \in BOOLEAN
  BY DEF Start, disk
<1>2. AtWork = {} /\ AtWork' = {} /\ \A a \in Admins : req[a].at = "idle"
  BY <1>1 DEF AtWork, Inv, Order, Numbers
<1>3. Tables(folder, files, relations, logins) /\ RestOK /\ Descend(relations)
  BY TypeParts DEF Inv, Types
<1>4. CASE hash = HashOf(folder, written, lock)
  <2>1. UNCHANGED <<files, relations, logins, hash, refused, clean>>
    BY <1>4 DEF Start, database
  <2>2. Types'
    BY <1>1, <1>3, <2>1, TypeParts DEF Inv, Types, RestOK
  <2>3. Numbers'
    BY <1>1, <1>2, <2>1 DEF Inv, Order, Numbers
  <2>4. hash[1] = folder /\ hash[3] = lock
    BY <1>4 DEF HashOf
  <2>5. Working' /\ Settled' /\ Hashed'
    BY <1>1, <1>2, <2>1, <2>4 DEF Inv, Order, Working, Settled, AtRest, Hashed
  <2> QED
    BY <2>2, <2>3, <2>5 DEF Inv, Order
<1>5. CASE hash # HashOf(folder, written, lock)
  <2>1. /\ hash' = <<folder, written, lock>> /\ refused' = {}
        /\ clean' = (folder # {} \/ (files = {} /\ logins = {}))
    BY <1>5 DEF Start, HashOf
  <2>2. /\ Tables(folder, files', relations', logins') /\ Descend(relations')
        /\ clean' => Consistent(folder, files', relations', logins', {})
    <3>1. CASE folder = {}
      <4>1. UNCHANGED <<files, relations, logins>>
        BY <1>5, <3>1 DEF Start, database
      <4>2. files = {} /\ logins = {} => Consistent(folder, files, relations, logins, {})
        BY <3>1 DEF Consistent, Docs, Complete, LoggedIn
      <4> QED
        BY <1>3, <2>1, <3>1, <4>1, <4>2
    <3>2. CASE folder # {}
      <4>1. PICK D \in Duplicates(folder) :
              /\ files' = FilesFor(folder, D) /\ relations' = RelationsFor(folder \ D)
              /\ logins' = {k \in logins : k \in {Key(d) : d \in folder}}
                           \cup {Key(d) : d \in {e \in Valid(folder \ D) : e.level = 3}}
        BY <1>5, <3>2 DEF Start
      <4>2. folder \in SUBSET Documents /\ (\A d, e \in folder : d # e => Key(d) # Key(e))
            /\ logins \subseteq {Key(d) : d \in {e \in Documents : e.level = 3}}
        BY <1>3 DEF Tables
      <4>3. Tables(folder, files', relations', logins') /\ Descend(relations')
        BY <4>1, <4>2, StartingTypes
      <4>4. Consistent(folder, files', relations', logins', {})
        BY <4>1, <4>2, StartingIsConsistent
      <4> QED
        BY <4>3, <4>4
    <3> QED
      BY <3>1, <3>2
  <2>3. hash' \in (SUBSET Documents) \X (0..MaxRequests) \X (1..MaxRequests \cup {None}) /\ hash'[3] = lock
        /\ hash'[1] = folder
    BY <1>3, <2>1 DEF Tables, RestOK
  <2>4. RestOK'
    BY <1>1, <1>3, <2>1 DEF RestOK
  <2>5. Types'
    BY <1>1, <2>2, <2>3, <2>4, TypeParts DEF Inv, Types
  <2>6. Numbers'
    BY <1>1, <1>2, <2>3 DEF Inv, Order, Numbers
  <2>7. Working' /\ Settled' /\ Hashed'
    BY <1>1, <1>2, <2>1, <2>2, <2>3 DEF Working, Settled, AtRest, Hashed
  <2> QED
    BY <2>5, <2>6, <2>7 DEF Inv, Order
<1> QED
  BY <1>4, <1>5

LEMMA InitInv == Init => Inv
<1> SUFFICES ASSUME Init PROVE Inv
  OBVIOUS
<1>1. AtWork = {} /\ \A a \in Admins : req[a].at = "idle"
  BY DEF Init, AtWork, Idle
<1>2. /\ files = FilesFor(First, {}) /\ relations = RelationsFor(First \ {})
      /\ folder = First /\ hash = <<First, 0, None>> /\ refused = {} /\ lock = None /\ up = TRUE
  <2>1. First \ {} = First
    OBVIOUS
  <2> QED
    BY <2>1 DEF Init, HashOf
<1>3. First \in SUBSET Documents /\ {} \in Duplicates(First) /\ \A d, e \in First : d # e => Key(d) # Key(e)
  BY DEF Duplicates
<1>4. logins \subseteq {Key(d) : d \in {e \in Documents : e.level = 3}}
  BY DEF Init
<1>5. logins = {k \in logins : k \in {Key(d) : d \in First}}
               \cup {Key(d) : d \in {e \in Valid(First \ {}) : e.level = 3}}
  <2>1. First \ {} \in SUBSET Documents /\ First \ {} \subseteq First
    OBVIOUS
  <2>2. \A d \in Valid(First \ {}) : d \in First
    BY <2>1, ValidType
  <2> QED
    BY <2>2 DEF Init
<1>6. Consistent(folder, files, relations, logins, refused)
  BY <1>2, <1>3, <1>5, StartingIsConsistent
<1>7. Tables(folder, files, relations, logins) /\ Descend(relations)
  BY <1>2, <1>3, <1>4, <1>5, StartingTypes
<1>8. RestOK
  <2>1. MaxRequests \in Nat /\ MaxFaults \in Nat
    OBVIOUS
  <2>2. 0 \in 0..MaxRequests /\ 0 \in 0..MaxFaults
    BY <2>1
  <2> QED
    BY <2>2 DEF Init, RestOK
<1>9. hash \in (SUBSET Documents) \X (0..MaxRequests) \X (1..MaxRequests \cup {None}) /\ hash[1] = First /\ hash[3] = None
  BY <1>2, <1>3
<1>10. req \in [Admins -> {Idle} \cup Upload \cup Deletion]
  BY DEF Init
<1>11. Types
  BY <1>1, <1>7, <1>8, <1>9, <1>10, TypeParts DEF Types
<1>12. Numbers
  BY <1>1, <1>2, <1>9 DEF Numbers
<1>13. Working /\ Settled /\ Hashed
  BY <1>1, <1>2, <1>6, <1>9 DEF Working, Settled, Hashed
<1> QED
  BY <1>11, <1>12, <1>13 DEF Inv, Order

------------------------------------------------------------------------------
(* The theorems *)

LEMMA NextInv == Inv /\ [Next]_vars => Inv'
<1> SUFFICES ASSUME Inv, [Next]_vars PROVE Inv'
  OBVIOUS
<1>1. ASSUME NEW a \in Admins, NEW S \in Uploads, Arrive(a, "upload", S) PROVE Inv'
  BY <1>1, ArriveInv
<1>2. ASSUME NEW a \in Admins, NEW S \in Deletions, Arrive(a, "deletion", S) PROVE Inv'
  BY <1>2, ArriveInv
<1>3. ASSUME NEW a \in Admins, Serve(a) PROVE Inv'
  BY <1>3, WriteLockInv, FinishInv, ValidateInv, CategorizeInv, StoreFileInv, StoreMetaInv, SelectInv,
     DeleteRowInv, UnlinkInv DEF Serve
<1>4. ASSUME NEW a \in Admins, FatalError(a) PROVE Inv'
  BY <1>4, FatalErrorInv
<1>5. ASSUME NEW d \in Documents, RemoveByHand(d) PROVE Inv'
  BY <1>5, RemoveByHandInv
<1>6. ASSUME UNCHANGED vars PROVE Inv'
  <2>1. UNCHANGED <<folder, written, files, relations, logins, hash, lock, aged, req, up, refused, clean, requests, faults>>
        /\ AtWork' = AtWork
    BY <1>6 DEF vars, AtWork
  <2>2. Types'
    BY <2>1, TypeParts DEF Inv, Types, RestOK
  <2>3. Working' /\ Settled' /\ Hashed'
    BY <2>1, FrameStep DEF Inv, disk, database
  <2>4. Numbers'
    BY <2>1 DEF Inv, Order, Numbers
  <2> QED
    BY <2>2, <2>3, <2>4 DEF Inv, Order
<1> QED
  BY <1>1, <1>2, <1>3, <1>4, <1>5, <1>6, AgeInv, CrashInv, StartInv DEF Next

(* Whatever is uploaded, deleted and interrupted: folder, database and     *)
(* requests are in order after every step.                                 *)
THEOREM InvCorrect == Spec => []Inv
<1> QED
  BY InitInv, NextInv, PTL DEF Spec

(* The database knows the files of the folder and no others between two    *)
(* requests and after every start (Workspace::storeAllFiles, hasFilesChanged).*)
THEOREM FolderCorrect == Spec => []FolderMatchesDatabase
<1>1. Inv => FolderMatchesDatabase
  BY DEF Inv, Types, Order, Settled, Consistent, Docs, FolderMatchesDatabase
<1> QED
  BY <1>1, InvCorrect, PTL

(* What a valid file needs is there, valid and related to it, but for the  *)
(* players that were refused (crossValidate, storeRelations, getBlockedFiles).*)
THEOREM CompleteCorrect == Spec => []ValidFilesAreComplete
<1>1. Inv => ValidFilesAreComplete
  <2> SUFFICES ASSUME Inv, AtRest, NEW r \in files, r.valid, NEW i \in r.doc.needs \ refused
               PROVE  Found(r.doc, i, files, relations)
    BY DEF ValidFilesAreComplete, Found
  <2>1. Fulfilled(r.doc, {}, files, relations, refused)
    BY DEF Inv, Order, Settled, Consistent, Complete
  <2> QED
    BY <2>1 DEF Fulfilled, Promised
<1> QED
  BY <1>1, InvCorrect, PTL

(* No logins without their Testtakers file, and none missing of a valid one *)
(* (updateLoginSource, deleteLoginSource, removeVanishedFilesFromDB).       *)
THEOREM LoginsCorrect == Spec => []LoginsHaveTheirFile
<1>1. Inv => LoginsHaveTheirFile
  BY DEF Inv, Order, Settled, Consistent, LoggedIn, LoginsHaveTheirFile
<1> QED
  BY <1>1, InvCorrect, PTL
===============================================================================
