---------------------------- MODULE SessionsProofs ----------------------------
(* Every person is on one device, sessions end for a reason and follow the *)
(* file, and a monitor prepares a session for every member: for any number *)
(* of devices, logins, codes, files and deletions.                         *)
EXTENDS Sessions, TLAPS, FiniteSetTheorems

USE LoginsAssumption, FilesAssumption, TokensAssumption, BoundsAssumption

------------------------------------------------------------------------------
(* The inductive invariant *)

Want == [login : Logins, code : AllCodes, session : {None} \cup 0..MaxChanges, data : Entry, read : 0..MaxChanges]
Served == [at : {"select", "update", "insert", "test"}, login : Logins, code : AllCodes, session : 0..MaxChanges,
           data : Entry, read : 0..MaxChanges, own : BOOLEAN, todo : SUBSET Want, token : Tokens \cup {None},
           blank : BOOLEAN]
Kept == [kind : {"login"}, login : Logins, token : 0..MaxChanges] \cup [kind : {"person"}, token : Tokens]

TableTypes ==
  /\ clock \in 1..MaxClock /\ uploads \in 0..MaxChanges /\ deletions \in 0..MaxChanges
  /\ logins \in Files /\ upload \in {None} \cup Versions
  /\ upload = None => logins \in Versions \cup {First}
  /\ upload # None => \A l \in Logins : logins[l] = Removed
  /\ sessions \in [Logins -> {None} \cup 0..MaxChanges]
PersonTypes ==
  /\ persons \subseteq Person /\ IsFiniteSet(persons)
  /\ tests \subseteq {Key(p) : p \in persons}
DeviceTypes ==
  /\ auth \in [Clients -> {None} \cup Kept]
  /\ req \in [Clients -> {Idle} \cup Served]
Types == TableTypes /\ PersonTypes /\ DeviceTypes

(* A person session belongs to the login session that is there, so a login *)
(* and a code stand for one person, unless every login is a new one.       *)
PersonsOfSession == \A p \in persons : sessions[p.login] = p.session
Unique ==
  \A p, q \in persons : p.login = q.login /\ p.code = q.code /\ p.login \notin AlwaysNew => p = q

(* A token that a device keeps, or will be answered with, is no other's.   *)
InSession(c) == auth[c] # None /\ auth[c].kind = "person"
Busy(c) == req[c].at # "idle"
HeldOnce ==
  \A c, d \in Clients : c # d =>
    /\ InSession(c) /\ InSession(d) => auth[c].token # auth[d].token
    /\ InSession(c) /\ Busy(d) => auth[c].token # req[d].token
    /\ Busy(c) /\ Busy(d) /\ req[c].token # None => req[c].token # req[d].token

(* While a device logs in it is in no session; who gets beyond its own     *)
(* session has a token; a token is renewed by its person, or was missing.  *)
InLogin ==
  \A c \in Clients : Busy(c) =>
    /\ ~InSession(c)
    /\ req[c].at = "test" \/ ~req[c].own => req[c].token # None
    /\ req[c].at = "update" => req[c].own \/ req[c].blank

Inv == Types /\ PersonsOfSession /\ Unique /\ HeldOnce /\ InLogin

------------------------------------------------------------------------------
(* Operators *)

LEMMA FreshIsNew ==
  ASSUME TokenIsLeft
  PROVE  FreshToken \in Tokens /\ FreshToken \notin UsedTokens
BY DEF TokenIsLeft, FreshToken

(* A new token is neither kept by a device nor on its way to one.          *)
LEMMA FreshIsNobodys ==
  ASSUME TokenIsLeft
  PROVE  /\ \A p \in persons : p.token # FreshToken
         /\ \A d \in Clients : auth[d] # None => auth[d].token # FreshToken
         /\ \A d \in Clients : Busy(d) => req[d].token # FreshToken
BY FreshIsNew DEF UsedTokens, Busy

LEMMA TokensApart == None \notin Tokens /\ Unheld \notin Tokens /\ None \notin 0..MaxChanges
BY DEF Tokens

(* The limit of a session is within that of its login.                     *)
LEMMA ExpirationWithin ==
  ASSUME Types, NEW e \in Entry
  PROVE  /\ ExpirationFromNow(e) \in 0..(2 * MaxClock)
         /\ e.validTo > 0 => ExpirationFromNow(e) \in 1..e.validTo
<1> DEFINE a == e.validTo
           b == IF e.validFor = 0 THEN 0 ELSE clock + e.validFor
           limits == {a, b} \ {0}
           least == CHOOSE x \in limits : \A y \in limits : x <= y
<1>1. a \in 0..MaxClock /\ b \in 0..(2 * MaxClock)
  BY DEF Entry, Types, TableTypes
<1>2. ExpirationFromNow(e) = IF limits = {} THEN 0 ELSE least
  BY DEF ExpirationFromNow
<1>3. limits # {} => least \in limits /\ \A y \in limits : least <= y
  <2>1. limits # {} => \E x \in limits : \A y \in limits : x <= y
    <3>1. CASE a = 0
      BY <1>1, <3>1
    <3>2. CASE b = 0
      BY <1>1, <3>2
    <3>3. CASE a # 0 /\ b # 0 /\ a <= b
      <4>1. a \in limits /\ \A y \in limits : a <= y
        BY <1>1, <3>3
      <4> QED
        BY <4>1
    <3>4. CASE a # 0 /\ b # 0 /\ ~(a <= b)
      <4>1. b \in limits /\ \A y \in limits : b <= y
        BY <1>1, <3>4
      <4> QED
        BY <4>1
    <3> QED
      BY <3>1, <3>2, <3>3, <3>4
  <2> QED
    BY <2>1
<1> HIDE DEF least
<1>4. limits # {} => least \in 1..(2 * MaxClock) /\ (a > 0 => least <= a)
  <2> SUFFICES ASSUME limits # {} PROVE least \in 1..(2 * MaxClock) /\ (a > 0 => least <= a)
    OBVIOUS
  <2>1. least \in {a, b} /\ least # 0
    BY <1>3
  <2>2. a > 0 => a \in limits
    BY <1>1
  <2> QED
    BY <1>1, <1>3, <2>1, <2>2
<1>5. a > 0 => limits # {}
  BY <1>1
<1> HIDE DEF limits
<1>6. CASE limits = {}
  BY <1>1, <1>2, <1>5, <1>6
<1>7. CASE limits # {}
  <2>1. ExpirationFromNow(e) = least
    BY <1>2, <1>7
  <2> QED
    BY <1>1, <1>4, <1>7, <2>1
<1> QED
  BY <1>6, <1>7

(* What a request is about is known when it is sent.                       *)
LEMMA WantedType ==
  ASSUME Types, NEW l \in Logins, logins[l] # Removed, NEW code \in AllCodes,
         NEW s \in {None} \cup 0..MaxChanges
  PROVE  Wanted(l, code, s) \in Want
BY DEF Wanted, Want, Types, TableTypes, Files

LEMMA RequestType ==
  ASSUME NEW own \in BOOLEAN, NEW w \in Want, w.session # None, NEW todo \in SUBSET Want,
         NEW token \in Tokens \cup {None}
  PROVE  Request(own, w, todo, token) \in Served
BY DEF Request, Want, Served

LEMMA LoginSessionType ==
  ASSUME Types, NEW l \in Logins
  PROVE  LoginSession(l) \in 0..MaxChanges
BY DEF LoginSession, Types, TableTypes

LEMMA MembersType ==
  ASSUME Types, NEW l
  PROVE  Members(l) \subseteq Want
BY WantedType DEF Members, Types, TableTypes

(* A set of rows changed one by one is as finite as before.                *)
LEMMA FiniteImage ==
  ASSUME NEW S, IsFiniteSet(S), NEW f, DOMAIN f = S
  PROVE  IsFiniteSet({f[x] : x \in S})
<1> DEFINE T == {f[x] : x \in S}
<1>1. [x \in S |-> f[x]] \in Surjection(S, T)
  BY DEF Surjection
<1> QED
  BY <1>1, FS_Surjection

------------------------------------------------------------------------------
(* What a step changes *)

(* No other device keeps the token or will be answered with it.            *)
Mine(c, t) == \A d \in Clients \ {c} : /\ InSession(d) => auth[d].token # t
                                       /\ Busy(d) => req[d].token # t

LEMMA MineNow ==
  ASSUME HeldOnce, NEW c \in Clients
  PROVE  /\ InSession(c) => Mine(c, auth[c].token)
         /\ Busy(c) /\ req[c].token # None => Mine(c, req[c].token)
BY DEF HeldOnce, Mine

(* Only one device acts, with a token that is its own.                     *)
LEMMA DeviceStep ==
  ASSUME DeviceTypes, HeldOnce, InLogin, NEW c \in Clients,
         \A d \in Clients \ {c} : auth'[d] = auth[d] /\ req'[d] = req[d],
         InSession(c)' => Mine(c, auth'[c].token),
         Busy(c)' /\ req'[c].token # None => Mine(c, req'[c].token),
         Busy(c)' => /\ ~InSession(c)'
                     /\ req'[c].at = "test" \/ ~req'[c].own => req'[c].token # None
                     /\ req'[c].at = "update" => req'[c].own \/ req'[c].blank
  PROVE  HeldOnce' /\ InLogin'
<1>1. \A d \in Clients : InSession(d) => auth[d].token # None
  BY TokensApart DEF InSession, DeviceTypes, Kept
<1>2. \A d \in Clients \ {c} : InSession(d)' = InSession(d) /\ Busy(d)' = Busy(d)
  BY DEF InSession, Busy
<1>3. InLogin'
  <2> SUFFICES ASSUME NEW d \in Clients, Busy(d)'
               PROVE  /\ ~InSession(d)'
                      /\ req'[d].at = "test" \/ ~req'[d].own => req'[d].token # None
                      /\ req'[d].at = "update" => req'[d].own \/ req'[d].blank
    BY DEF InLogin
  <2>1. CASE d = c
    BY <2>1
  <2>2. CASE d # c
    BY <1>2, <2>2 DEF InLogin
  <2> QED
    BY <2>1, <2>2
<1>4. HeldOnce'
  <2> SUFFICES ASSUME NEW d \in Clients, NEW e \in Clients, d # e
               PROVE  /\ InSession(d)' /\ InSession(e)' => auth'[d].token # auth'[e].token
                      /\ InSession(d)' /\ Busy(e)' => auth'[d].token # req'[e].token
                      /\ Busy(d)' /\ Busy(e)' /\ req'[d].token # None => req'[d].token # req'[e].token
    BY DEF HeldOnce
  <2>1. CASE d = c
    BY <1>2, <2>1 DEF Mine
  <2>2. CASE e = c
    BY <1>1, <1>2, <2>2 DEF Mine
  <2>3. CASE d # c /\ e # c
    BY <1>2, <2>3 DEF HeldOnce
  <2> QED
    BY <2>1, <2>2, <2>3
<1> QED
  BY <1>3, <1>4

(* A login session that is opened is nobody's yet.                         *)
LEMMA SessionOpened ==
  ASSUME Inv, NEW l \in Logins, sessions' = [sessions EXCEPT ![l] = LoginSession(l)], UNCHANGED persons
  PROVE  sessions' \in [Logins -> {None} \cup 0..MaxChanges] /\ PersonsOfSession'
<1>1. sessions' \in [Logins -> {None} \cup 0..MaxChanges]
  BY LoginSessionType DEF Inv, Types, TableTypes
<1>2. \A p \in persons : sessions[p.login] = p.session /\ p.session # None /\ p.login \in Logins
  BY DEF Inv, PersonsOfSession, Types, PersonTypes, Person
<1>3. \A p \in persons : sessions'[p.login] = p.session
  BY <1>2 DEF LoginSession, Inv, Types, TableTypes
<1> QED
  BY <1>1, <1>3 DEF PersonsOfSession

LEMMA PersonsStay ==
  ASSUME Inv, UNCHANGED <<persons, tests>>
  PROVE  PersonTypes' /\ Unique'
BY DEF Inv, Types, PersonTypes, Unique, Key

LEMMA TablesStay ==
  ASSUME Inv, UNCHANGED tables, sessions' \in [Logins -> {None} \cup 0..MaxChanges]
  PROVE  TableTypes'
BY DEF Inv, Types, TableTypes, tables

(* Everything but one device stays as it is.                               *)
LEMMA OnlyDeviceStep ==
  ASSUME Inv, UNCHANGED <<tables, sessions, persons, tests>>, DeviceTypes', HeldOnce', InLogin'
  PROVE  Inv'
<1>1. TableTypes' /\ PersonsOfSession'
  BY TablesStay DEF Inv, Types, TableTypes, PersonsOfSession
<1> QED
  BY <1>1, PersonsStay DEF Inv, Types

------------------------------------------------------------------------------
(* Logging in *)

LEMMA SubmitLoginKeepsInv ==
  ASSUME Inv, NEW c \in Clients, NEW l \in Logins, SubmitLogin(c, l)
  PROVE  Inv'
<1> DEFINE t == LoginSession(l)
<1>0. DeviceTypes /\ HeldOnce /\ InLogin /\ t \in 0..MaxChanges
  BY LoginSessionType DEF Inv, Types
<1>1. TableTypes' /\ PersonsOfSession'
  BY SessionOpened, TablesStay DEF SubmitLogin
<1>2. CASE Codes[l] = {NoCode}
  <2> DEFINE r == Request(TRUE, Wanted(l, NoCode, t), {}, None)
  <2>1. req' = [req EXCEPT ![c] = r] /\ auth' = auth /\ ~InSession(c)
    BY <1>2 DEF SubmitLogin, InSession
  <2>2. Wanted(l, NoCode, t) \in Want /\ t # None /\ Wanted(l, NoCode, t).session = t
    <3>1. NoCode \in AllCodes
      BY <1>2 DEF AllCodes
    <3>2. logins[l] # Removed
      BY DEF SubmitLogin, MayLogIn
    <3> QED
      BY <1>0, <3>1, <3>2, WantedType, TokensApart DEF Inv, Wanted
  <2>3. r \in Served
    BY <2>2, RequestType
  <2>4. DeviceTypes'
    BY <1>0, <2>1, <2>3 DEF DeviceTypes
  <2>5. r.at = "select" /\ r.own /\ r.token = None
    BY DEF Request
  <2> HIDE DEF r
  <2>6. \A d \in Clients \ {c} : auth'[d] = auth[d] /\ req'[d] = req[d]
    BY <1>0, <2>1 DEF DeviceTypes
  <2>7. req'[c] = r /\ ~InSession(c)'
    BY <1>0, <2>1 DEF DeviceTypes, InSession
  <2>8. HeldOnce' /\ InLogin'
    BY <1>0, <2>5, <2>6, <2>7, DeviceStep
  <2> QED
    BY <1>1, <2>4, <2>8, PersonsStay DEF Inv, Types, SubmitLogin
<1>3. CASE Codes[l] # {NoCode}
  <2> DEFINE a == [kind |-> "login", login |-> l, token |-> t]
  <2>1. auth' = [auth EXCEPT ![c] = a] /\ req' = req /\ req[c] = Idle
    BY <1>3 DEF SubmitLogin, Keep
  <2>2. DeviceTypes'
    BY <1>0, <2>1 DEF DeviceTypes, Kept
  <2>3. \A d \in Clients \ {c} : auth'[d] = auth[d] /\ req'[d] = req[d]
    BY <1>0, <2>1 DEF DeviceTypes
  <2>4. ~InSession(c)' /\ ~Busy(c)'
    BY <1>0, <2>1 DEF DeviceTypes, InSession, Busy, Idle
  <2>5. HeldOnce' /\ InLogin'
    BY <1>0, <2>3, <2>4, DeviceStep
  <2> QED
    BY <1>1, <2>2, <2>5, PersonsStay DEF Inv, Types, SubmitLogin
<1> QED
  BY <1>2, <1>3

(* A request goes on, or ends, and the device keeps what it has.           *)
LEMMA RequestStep ==
  ASSUME Inv, NEW c \in Clients, NEW r \in {Idle} \cup Served, req' = [req EXCEPT ![c] = r], UNCHANGED auth,
         r.at # "idle" => /\ ~InSession(c)
                          /\ r.token = None \/ Mine(c, r.token)
                          /\ r.at = "test" \/ ~r.own => r.token # None
                          /\ r.at = "update" => r.own \/ r.blank
  PROVE  DeviceTypes' /\ HeldOnce' /\ InLogin'
<1>0. DeviceTypes /\ HeldOnce /\ InLogin
  BY DEF Inv, Types
<1>1. DeviceTypes'
  BY <1>0 DEF DeviceTypes
<1>2. \A d \in Clients \ {c} : auth'[d] = auth[d] /\ req'[d] = req[d]
  BY <1>0 DEF DeviceTypes
<1>3. req'[c] = r /\ InSession(c)' = InSession(c)
  BY <1>0 DEF DeviceTypes, InSession
<1>4. InSession(c)' => Mine(c, auth'[c].token)
  BY <1>0, <1>3, MineNow
<1>5. HeldOnce' /\ InLogin'
  BY <1>0, <1>2, <1>3, <1>4, DeviceStep DEF Busy
<1> QED
  BY <1>1, <1>5

LEMMA IdleIsIdle == Idle.at = "idle"
BY DEF Idle

LEMMA ServedNow ==
  ASSUME Inv, NEW c \in Clients, Busy(c)
  PROVE  /\ req[c] \in Served /\ ~InSession(c)
         /\ req[c].token = None \/ Mine(c, req[c].token)
         /\ req[c].at = "test" \/ ~req[c].own => req[c].token # None
         /\ req[c].at = "update" => req[c].own \/ req[c].blank
<1>1. req[c] \in Served
  BY IdleIsIdle DEF Inv, Types, DeviceTypes, Busy
<1> QED
  BY <1>1, MineNow DEF Inv, InLogin

LEMMA SubmitCodeKeepsInv ==
  ASSUME Inv, NEW c \in Clients, NEW code \in AllCodes, SubmitCode(c, code)
  PROVE  Inv'
<1> DEFINE w == Wanted(auth[c].login, code, auth[c].token)
           r == Request(TRUE, w, {}, None)
<1>1. auth[c] # None /\ auth[c].kind = "login" /\ logins[auth[c].login] # Removed
  BY DEF SubmitCode, Authorized, LoginSessionByToken, MayLogIn
<1>2. auth[c].login \in Logins /\ auth[c].token \in 0..MaxChanges
  BY <1>1 DEF Inv, Types, DeviceTypes, Kept
<1>3. w \in Want /\ w.session # None
  BY <1>1, <1>2, WantedType, TokensApart DEF Inv, Wanted
<1>4. r \in Served
  BY <1>3, RequestType
<1>5. r.at = "select" /\ r.own /\ r.token = None /\ ~InSession(c)
  BY <1>1 DEF Request, InSession
<1>6. req' = [req EXCEPT ![c] = r] /\ UNCHANGED auth
  BY DEF SubmitCode
<1> HIDE DEF r
<1>7. DeviceTypes' /\ HeldOnce' /\ InLogin'
  BY <1>4, <1>5, <1>6, RequestStep
<1> QED
  BY <1>7, OnlyDeviceStep DEF SubmitCode

LEMMA RefusedKeeps ==
  ASSUME Inv, NEW c \in Clients, Refused(c), UNCHANGED auth
  PROVE  DeviceTypes' /\ HeldOnce' /\ InLogin'
BY RequestStep, IdleIsIdle DEF Refused

LEMMA SelectPersonKeepsInv ==
  ASSUME Inv, NEW c \in Clients, SelectPerson(c)
  PROVE  Inv'
<1>1. Busy(c) /\ req[c].at = "select"
  BY DEF SelectPerson, Busy
<1>2. /\ req[c] \in Served /\ ~InSession(c)
      /\ req[c].token = None \/ Mine(c, req[c].token)
      /\ ~req[c].own => req[c].token # None
  BY <1>1, ServedNow
<1>3. DeviceTypes' /\ HeldOnce' /\ InLogin'
  <2>1. CASE Refused(c)
    BY <2>1, RefusedKeeps DEF SelectPerson
  <2>2. CASE req' = [req EXCEPT ![c].at = "insert"]
    <3> DEFINE r == [req[c] EXCEPT !.at = "insert"]
    <3>1. r \in Served /\ r.at = "insert" /\ r.token = req[c].token /\ r.own = req[c].own
      BY <1>2 DEF Served
    <3>2. req' = [req EXCEPT ![c] = r]
      BY <2>2
    <3> HIDE DEF r
    <3> QED
      BY <1>2, <3>1, <3>2, RequestStep DEF SelectPerson
  <2>3. ASSUME NEW p \in persons,
               req' = [req EXCEPT ![c].at = IF req[c].own \/ p.token = None THEN "update" ELSE "test",
                                  ![c].blank = (p.token = None)]
        PROVE  DeviceTypes' /\ HeldOnce' /\ InLogin'
    <3> DEFINE at == IF req[c].own \/ p.token = None THEN "update" ELSE "test"
               r == [req[c] EXCEPT !.at = at, !.blank = (p.token = None)]
    <3>1. r \in Served /\ r.at = at /\ r.token = req[c].token /\ r.own = req[c].own /\ r.blank = (p.token = None)
      BY <1>2 DEF Served
    <3>2. req' = [req EXCEPT ![c] = r]
      BY <2>3
    <3>3. /\ r.at = "test" \/ ~r.own => r.token # None
          /\ r.at = "update" => r.own \/ r.blank
      <4>1. CASE req[c].own
        <5>1. r.own /\ r.at = "update"
          BY <3>1, <4>1
        <5> QED
          BY <5>1
      <4>2. CASE ~req[c].own
        <5>1. r.token # None
          BY <1>2, <3>1, <4>2
        <5>2. r.at = "update" => p.token = None
          BY <3>1, <4>2
        <5>3. p.token = None => r.blank
          BY <3>1
        <5> QED
          BY <5>1, <5>2, <5>3
      <4> QED
        BY <4>1, <4>2
    <3> HIDE DEF r
    <3> QED
      BY <1>2, <3>1, <3>2, <3>3, RequestStep DEF SelectPerson
  <2> QED
    BY <2>1, <2>2, <2>3 DEF SelectPerson
<1> QED
  BY <1>3, OnlyDeviceStep DEF SelectPerson

(* After its row was written a request has a token.                        *)
LEMMA WrittenKeeps ==
  ASSUME Inv, NEW c \in Clients, Busy(c), TokenIsLeft, UNCHANGED auth,
         req' = [req EXCEPT ![c].at = "test", ![c].token = IF req[c].own THEN FreshToken ELSE @]
  PROVE  DeviceTypes' /\ HeldOnce' /\ InLogin'
<1> DEFINE token == IF req[c].own THEN FreshToken ELSE req[c].token
           r == [req[c] EXCEPT !.at = "test", !.token = token]
<1>1. /\ req[c] \in Served /\ ~InSession(c)
      /\ req[c].token = None \/ Mine(c, req[c].token)
      /\ ~req[c].own => req[c].token # None
  BY ServedNow
<1>2. Mine(c, FreshToken) /\ FreshToken \in Tokens
  BY FreshIsNobodys, FreshIsNew DEF Mine, InSession
<1>3. r \in Served /\ r.at = "test" /\ r.token = token
  BY <1>1, <1>2 DEF Served
<1>4. token # None /\ (token = None \/ Mine(c, token))
  BY <1>1, <1>2, TokensApart
<1>5. req' = [req EXCEPT ![c] = r]
  BY DEF DeviceTypes
<1> HIDE DEF r, token
<1> QED
  BY <1>1, <1>3, <1>4, <1>5, RequestStep

(* Rows that get another token, or another limit, are still the same rows. *)
LEMMA RowsChanged ==
  ASSUME Inv, NEW f, DOMAIN f = persons, UNCHANGED <<sessions, tests>>,
         \A p \in persons : /\ f[p] \in Person
                            /\ Key(f[p]) = Key(p)
                            /\ f[p].login = p.login /\ f[p].session = p.session /\ f[p].code = p.code,
         persons' = {f[p] : p \in persons}
  PROVE  PersonTypes' /\ PersonsOfSession' /\ Unique'
<1>1. IsFiniteSet(persons')
  BY FiniteImage DEF Inv, Types, PersonTypes
<1>2. tests' \subseteq {Key(p) : p \in persons'}
  BY DEF Inv, Types, PersonTypes
<1>3. PersonTypes'
  BY <1>1, <1>2 DEF PersonTypes, Key
<1>4. PersonsOfSession'
  BY DEF Inv, PersonsOfSession
<1>5. Unique'
  <2> SUFFICES ASSUME NEW p \in persons, NEW q \in persons,
                      f[p].login = f[q].login, f[p].code = f[q].code, f[p].login \notin AlwaysNew
               PROVE  f[p] = f[q]
    BY DEF Unique
  <2>1. p = q
    BY DEF Inv, Unique
  <2> QED
    BY <2>1
<1> QED
  BY <1>3, <1>4, <1>5

LEMMA UpdateTokenKeepsInv ==
  ASSUME Inv, NEW c \in Clients, UpdateToken(c)
  PROVE  Inv'
<1> DEFINE t == IF req[c].own THEN FreshToken ELSE Unheld
           f == [p \in persons |-> IF SameKey(p, req[c]) THEN [p EXCEPT !.token = t] ELSE p]
<1>1. t \in Tokens \cup {None, Unheld}
  BY FreshIsNew DEF UpdateToken
<1>2. \A p \in persons : /\ f[p] \in Person
                         /\ Key(f[p]) = Key(p)
                         /\ f[p].login = p.login /\ f[p].session = p.session /\ f[p].code = p.code
  BY <1>1 DEF Inv, Types, PersonTypes, Person, Key
<1>3. persons' = {f[p] : p \in persons} /\ UNCHANGED <<sessions, tests, tables, auth>>
  BY DEF UpdateToken
<1>4. PersonTypes' /\ PersonsOfSession' /\ Unique'
  <2> HIDE DEF f
  <2>1. DOMAIN f = persons
    BY DEF f
  <2> QED
    BY <1>2, <1>3, <2>1, RowsChanged
<1>5. DeviceTypes' /\ HeldOnce' /\ InLogin'
  BY WrittenKeeps DEF UpdateToken, Busy
<1> QED
  BY <1>3, <1>4, <1>5, TablesStay DEF Inv, Types, TableTypes

LEMMA InsertedRow ==
  ASSUME Inv, NEW r \in Served, NEW t \in Tokens \cup {None, Unheld}, NEW n \in 0..MaxNew,
         sessions[r.login] = r.session, ~(\E p \in persons : SameKey(p, r)), UNCHANGED <<sessions, tests>>,
         persons' = persons \cup {[login |-> r.login, session |-> r.session, code |-> r.code, nr |-> n, token |-> t,
                                   until |-> ExpirationFromNow(r.data), read |-> r.read]}
  PROVE  PersonTypes' /\ PersonsOfSession' /\ Unique'
<1> DEFINE new == [login |-> r.login, session |-> r.session, code |-> r.code, nr |-> n, token |-> t,
                   until |-> ExpirationFromNow(r.data), read |-> r.read]
<1>1. new \in Person
  BY ExpirationWithin DEF Inv, Served, Person
<1>2. new.login = r.login /\ new.session = r.session /\ new.code = r.code
  OBVIOUS
<1> HIDE DEF new
<1>3. PersonTypes'
  <2>1. persons' = persons \cup {new} /\ UNCHANGED tests
    BY DEF new
  <2>2. IsFiniteSet(persons) /\ tests \subseteq {Key(p) : p \in persons} /\ persons \subseteq Person
    BY DEF Inv, Types, PersonTypes
  <2>3. IsFiniteSet(persons')
    BY <2>1, <2>2, FS_AddElement
  <2>4. tests' \subseteq {Key(p) : p \in persons'}
    BY <2>1, <2>2
  <2> QED
    BY <1>1, <2>1, <2>2, <2>3, <2>4 DEF PersonTypes, Key
<1>4. PersonsOfSession'
  BY <1>2 DEF Inv, PersonsOfSession, new
<1>5. Unique'
  <2>1. \A p \in persons : p.login = r.login /\ p.code = r.code => p.login \in AlwaysNew
    BY DEF SameKey, Inv, PersonsOfSession
  <2> QED
    BY <1>2, <2>1 DEF Inv, Unique, new
<1> QED
  BY <1>3, <1>4, <1>5

LEMMA InsertPersonKeepsInv ==
  ASSUME Inv, NEW c \in Clients, InsertPerson(c)
  PROVE  Inv'
<1> DEFINE r == req[c]
           t == IF r.own THEN FreshToken ELSE Unheld
           others == Cardinality({p \in persons : p.login = r.login})
           n == IF r.login \in AlwaysNew THEN others + 1 ELSE 0
<1>0. Busy(c) /\ r \in Served
  BY ServedNow DEF InsertPerson, Busy
<1>1. CASE Refused(c) /\ UNCHANGED persons
  <2>1. UNCHANGED <<tables, sessions, tests, auth, persons>>
    BY <1>1 DEF InsertPerson
  <2> QED
    BY <1>1, <2>1, RefusedKeeps, OnlyDeviceStep
<1>2. CASE req' = [req EXCEPT ![c].at = "select"] /\ UNCHANGED persons
  <2> DEFINE q == [r EXCEPT !.at = "select"]
  <2>1. q \in Served /\ q.at = "select" /\ q.token = r.token /\ q.own = r.own
    BY <1>0 DEF Served
  <2>2. req' = [req EXCEPT ![c] = q] /\ UNCHANGED <<tables, sessions, tests, auth, persons>>
    BY <1>2 DEF InsertPerson
  <2>3. ~q.own => q.token # None
    BY <1>0, <2>1, ServedNow
  <2>4. ~InSession(c) /\ (q.token = None \/ Mine(c, q.token))
    BY <1>0, <2>1, ServedNow
  <2> HIDE DEF q
  <2>5. DeviceTypes' /\ HeldOnce' /\ InLogin'
    BY <2>1, <2>2, <2>3, <2>4, RequestStep
  <2> QED
    BY <2>2, <2>5, OnlyDeviceStep
<1>3. CASE /\ sessions[r.login] = r.session /\ ~(\E p \in persons : SameKey(p, r))
           /\ r.login \in AlwaysNew => others < MaxNew
           /\ persons' = persons \cup
                {[login |-> r.login, session |-> r.session, code |-> r.code, nr |-> n, token |-> t,
                  until |-> ExpirationFromNow(r.data), read |-> r.read]}
           /\ req' = [req EXCEPT ![c].at = "test", ![c].token = IF r.own THEN t ELSE @]
  <2>1. others \in Nat
    BY FS_Subset, FS_CardinalityType DEF Inv, Types, PersonTypes
  <2>2. n \in 0..MaxNew
    BY <1>3, <2>1
  <2>3. t \in Tokens \cup {None, Unheld} /\ TokenIsLeft
    BY FreshIsNew DEF InsertPerson
  <2>4. UNCHANGED <<tables, sessions, tests, auth>>
    BY DEF InsertPerson
  <2>5. DeviceTypes' /\ HeldOnce' /\ InLogin'
    <3>1. req' = [req EXCEPT ![c].at = "test", ![c].token = IF req[c].own THEN FreshToken ELSE @]
      BY <1>3
    <3> QED
      BY <1>0, <2>3, <2>4, <3>1, WrittenKeeps
  <2> HIDE DEF n, t, r
  <2>6. PersonTypes' /\ PersonsOfSession' /\ Unique'
    BY <1>0, <1>3, <2>2, <2>3, <2>4, InsertedRow
  <2> QED
    BY <2>4, <2>5, <2>6, TablesStay DEF Inv, Types, TableTypes
<1> QED
  BY <1>1, <1>2, <1>3 DEF InsertPerson

(* Tests are added for rows that are there.                                *)
LEMMA TestsAdded ==
  ASSUME Inv, NEW S \in SUBSET persons, UNCHANGED persons, WithTests({Key(p) : p \in S})
  PROVE  PersonTypes' /\ Unique'
BY DEF Inv, Types, PersonTypes, Unique, Key, WithTests

LEMMA NextMemberKeepsInv ==
  ASSUME Inv, NEW c \in Clients, NextMember(c)
  PROVE  Inv'
<1> DEFINE r == req[c]
           todo == IF r.own THEN Members(r.login) ELSE r.todo
           member == {p \in persons : ~r.own /\ SameKey(p, r)}
           lost == ~r.own /\ member = {}
<1>0. /\ Busy(c) /\ r \in Served /\ ~InSession(c) /\ r.at = "test"
      /\ r.token # None /\ Mine(c, r.token) /\ r.token \in Tokens
  BY ServedNow DEF NextMember, Busy, Served
<1>1. UNCHANGED <<tables, persons>> /\ WithTests({Key(p) : p \in member})
  BY DEF NextMember
<1>2. PersonTypes' /\ Unique'
  BY <1>1, TestsAdded
<1>3. todo \subseteq Want
  BY <1>0, MembersType DEF Inv, Served
<1>4. CASE Refused(c) /\ UNCHANGED <<sessions, auth>>
  <2>1. DeviceTypes' /\ HeldOnce' /\ InLogin'
    BY <1>4, RefusedKeeps
  <2>2. TableTypes' /\ PersonsOfSession'
    BY <1>1, <1>4, TablesStay DEF Inv, Types, TableTypes, PersonsOfSession
  <2> QED
    BY <1>2, <2>1, <2>2 DEF Inv, Types
<1>5. CASE Refused(c) /\ Answered(c, r.token) /\ UNCHANGED sessions
  <2>1. req' = [req EXCEPT ![c] = Idle] /\ auth' = [auth EXCEPT ![c] = [kind |-> "person", token |-> r.token]]
    BY <1>5 DEF Refused, Answered, Keep
  <2>2. DeviceTypes /\ HeldOnce /\ InLogin
    BY DEF Inv, Types
  <2>3. DeviceTypes'
    BY <1>0, <2>1, <2>2 DEF DeviceTypes, Kept
  <2>4. /\ \A d \in Clients \ {c} : auth'[d] = auth[d] /\ req'[d] = req[d]
        /\ auth'[c].token = r.token /\ ~Busy(c)'
    BY <2>1, <2>2, IdleIsIdle DEF DeviceTypes, Busy
  <2>5. HeldOnce' /\ InLogin'
    BY <1>0, <2>2, <2>4, DeviceStep
  <2>6. TableTypes' /\ PersonsOfSession'
    BY <1>1, <1>5, TablesStay DEF Inv, Types, TableTypes, PersonsOfSession
  <2> QED
    BY <1>2, <2>3, <2>5, <2>6 DEF Inv, Types
<1>6. ASSUME NEW x \in todo, UNCHANGED auth,
             sessions' = (IF x.session = None THEN [sessions EXCEPT ![x.login] =
                            IF x.session # None THEN x.session ELSE LoginSession(x.login)] ELSE sessions),
             req' = [req EXCEPT ![c] =
                       Request(FALSE,
                               [x EXCEPT !.session = IF x.session # None THEN x.session ELSE LoginSession(x.login)],
                               {IF y.login = x.login
                                  THEN [y EXCEPT !.session = IF x.session # None THEN x.session ELSE LoginSession(x.login)]
                                  ELSE y : y \in todo \ {x}}, r.token)]
      PROVE  Inv'
  <2> DEFINE t == IF x.session # None THEN x.session ELSE LoginSession(x.login)
             w == [x EXCEPT !.session = t]
             rest == {IF y.login = x.login THEN [y EXCEPT !.session = t] ELSE y : y \in todo \ {x}}
             q == Request(FALSE, w, rest, r.token)
  <2>1. x \in Want /\ x.login \in Logins
    BY <1>3, <1>6 DEF Want
  <2>2. t \in 0..MaxChanges
    BY <2>1, LoginSessionType DEF Inv, Want
  <2>3. w \in Want /\ w.session = t /\ t # None
    BY <2>1, <2>2, TokensApart DEF Want
  <2>4. rest \subseteq Want
    BY <1>3, <2>2 DEF Want
  <2>5. q \in Served
    <3> HIDE DEF w, rest, t
    <3> QED
      BY <1>0, <2>3, <2>4, RequestType
  <2>6. q.at = "select" /\ q.token = r.token
    BY DEF Request
  <2>7. req' = [req EXCEPT ![c] = q]
    BY <1>6
  <2>8. DeviceTypes' /\ HeldOnce' /\ InLogin'
    <3> HIDE DEF q
    <3> QED
      BY <1>0, <1>6, <2>5, <2>6, <2>7, RequestStep
  <2>9. TableTypes' /\ PersonsOfSession'
    <3>1. CASE x.session = None
      <4>1. sessions' = [sessions EXCEPT ![x.login] = LoginSession(x.login)]
        BY <1>6, <3>1
      <4> QED
        BY <1>1, <2>1, <4>1, SessionOpened, TablesStay
    <3>2. CASE x.session # None
      <4>1. UNCHANGED sessions
        BY <1>6, <3>2
      <4> QED
        BY <1>1, <4>1, TablesStay DEF Inv, Types, TableTypes, PersonsOfSession
    <3> QED
      BY <3>1, <3>2
  <2> QED
    BY <1>2, <2>8, <2>9 DEF Inv, Types
<1> QED
  BY <1>4, <1>5, <1>6 DEF NextMember

------------------------------------------------------------------------------
(* Using a session, the file and the results *)

LEMMA StartTestKeepsInv ==
  ASSUME Inv, NEW c \in Clients, StartTest(c)
  PROVE  Inv'
<1>1. PICK p \in persons : WithTests({Key(p)})
  BY DEF StartTest
<1>2. UNCHANGED <<tables, sessions, persons, auth, req>>
  BY DEF StartTest
<1>3. {Key(q) : q \in {p}} = {Key(p)}
  OBVIOUS
<1>4. PersonTypes' /\ Unique'
  BY <1>1, <1>2, <1>3, TestsAdded
<1>5. TableTypes' /\ PersonsOfSession'
  BY <1>2, TablesStay DEF Inv, Types, TableTypes, PersonsOfSession
<1>6. DeviceTypes' /\ HeldOnce' /\ InLogin'
  BY <1>2 DEF Inv, Types, DeviceTypes, HeldOnce, InLogin, InSession, Busy
<1> QED
  BY <1>4, <1>5, <1>6 DEF Inv, Types

(* Who leaves keeps nothing.                                               *)
LEMMA ForgetKeeps ==
  ASSUME Inv, NEW c \in Clients, Forget(c), UNCHANGED req, req[c] = Idle
  PROVE  DeviceTypes' /\ HeldOnce' /\ InLogin'
<1>0. DeviceTypes /\ HeldOnce /\ InLogin
  BY DEF Inv, Types
<1>1. /\ DeviceTypes' /\ \A d \in Clients \ {c} : auth'[d] = auth[d] /\ req'[d] = req[d]
      /\ ~InSession(c)' /\ ~Busy(c)'
  BY <1>0, IdleIsIdle DEF Forget, DeviceTypes, InSession, Busy
<1> QED
  BY <1>0, <1>1, DeviceStep

LEMMA LogOutKeepsInv ==
  ASSUME Inv, NEW c \in Clients, LogOut(c)
  PROVE  Inv'
<1> DEFINE f == [p \in persons |-> IF auth[c].kind = "person" /\ p.token = auth[c].token
                                     THEN [p EXCEPT !.token = None] ELSE p]
<1>1. persons' = {f[p] : p \in persons}
  BY DEF LogOut, WithoutToken
<1>2. \A p \in persons : /\ f[p] \in Person
                         /\ Key(f[p]) = Key(p)
                         /\ f[p].login = p.login /\ f[p].session = p.session /\ f[p].code = p.code
  BY DEF Inv, Types, PersonTypes, Person, Key
<1>3. UNCHANGED <<tables, sessions, tests, req>> /\ DOMAIN f = persons
  BY DEF LogOut
<1> HIDE DEF f
<1>4. PersonTypes' /\ PersonsOfSession' /\ Unique'
  BY <1>1, <1>2, <1>3, RowsChanged
<1>5. DeviceTypes' /\ HeldOnce' /\ InLogin'
  BY ForgetKeeps DEF LogOut
<1> QED
  BY <1>3, <1>4, <1>5, TablesStay DEF Inv, Types, TableTypes

LEMMA TurnedAwayKeepsInv ==
  ASSUME Inv, NEW c \in Clients, TurnedAway(c)
  PROVE  Inv'
BY ForgetKeeps, OnlyDeviceStep DEF TurnedAway

LEMMA DevicesStay ==
  ASSUME Inv, UNCHANGED <<auth, req>>
  PROVE  DeviceTypes' /\ HeldOnce' /\ InLogin'
BY DEF Inv, Types, DeviceTypes, HeldOnce, InLogin, InSession, Busy

LEMMA DeleteLoginSourceKeepsInv ==
  ASSUME Inv, NEW v \in Versions, DeleteLoginSource(v)
  PROVE  Inv'
<1>1. TableTypes'
  <2>1. logins' \in Files /\ \A l \in Logins : logins'[l] = Removed
    BY DEF DeleteLoginSource, Files
  <2>2. v # None
    OBVIOUS
  <2> QED
    BY <2>1, <2>2 DEF DeleteLoginSource, Inv, Types, TableTypes
<1>2. PersonsOfSession'
  BY DEF DeleteLoginSource, Inv, PersonsOfSession
<1> QED
  BY <1>1, <1>2, PersonsStay, DevicesStay DEF DeleteLoginSource, Inv, Types

LEMMA AddLoginSourceKeepsInv ==
  ASSUME Inv, AddLoginSource
  PROVE  Inv'
<1> DEFINE f == [p \in persons |-> IF upload[p.login] = Removed THEN p
                                     ELSE [p EXCEPT !.until = upload[p.login].validTo, !.read = uploads]]
<1>1. upload \in Versions /\ upload \in Files
  BY DEF AddLoginSource, Inv, Types, TableTypes
<1>2. \A p \in persons : upload[p.login] # Removed => upload[p.login].validTo \in 0..(2 * MaxClock)
  <2>1. \A p \in persons : upload[p.login] # Removed => upload[p.login] \in Entry
    BY <1>1 DEF Files, Inv, Types, PersonTypes, Person
  <2> QED
    BY <2>1 DEF Entry
<1>3. \A p \in persons : /\ f[p] \in Person
                         /\ Key(f[p]) = Key(p)
                         /\ f[p].login = p.login /\ f[p].session = p.session /\ f[p].code = p.code
  <2> SUFFICES ASSUME NEW p \in persons
               PROVE  /\ f[p] \in Person
                      /\ Key(f[p]) = Key(p)
                      /\ f[p].login = p.login /\ f[p].session = p.session /\ f[p].code = p.code
    OBVIOUS
  <2>1. p \in Person /\ uploads \in 0..MaxChanges
    BY DEF Inv, Types, TableTypes, PersonTypes
  <2>2. CASE upload[p.login] = Removed
    <3>1. f[p] = p
      BY <2>2
    <3> QED
      BY <2>1, <3>1
  <2>3. CASE upload[p.login] # Removed
    <3>1. f[p] = [p EXCEPT !.until = upload[p.login].validTo, !.read = uploads]
      BY <2>3
    <3>2. upload[p.login].validTo \in 0..(2 * MaxClock)
      BY <1>2, <2>3
    <3> HIDE DEF f
    <3> QED
      BY <2>1, <3>1, <3>2 DEF Person, Key
  <2> QED
    BY <2>2, <2>3
<1>4. persons' = {f[p] : p \in persons} /\ DOMAIN f = persons /\ UNCHANGED <<sessions, tests>>
  BY DEF AddLoginSource, FollowFile
<1> HIDE DEF f
<1>5. PersonTypes' /\ PersonsOfSession' /\ Unique'
  BY <1>3, <1>4, RowsChanged
<1>6. TableTypes'
  BY <1>1 DEF AddLoginSource, Inv, Types, TableTypes
<1> QED
  BY <1>5, <1>6, DevicesStay DEF AddLoginSource, Inv, Types

LEMMA DeleteResultsKeepsInv ==
  ASSUME Inv, DeleteResults
  PROVE  Inv'
<1>1. TableTypes'
  BY DEF DeleteResults, Inv, Types, TableTypes
<1>2. PersonTypes' /\ PersonsOfSession' /\ Unique'
  BY FS_EmptySet DEF DeleteResults, PersonTypes, PersonsOfSession, Unique
<1> QED
  BY <1>1, <1>2, DevicesStay DEF DeleteResults, Inv, Types

LEMMA TickKeepsInv ==
  ASSUME Inv, Tick
  PROVE  Inv'
<1>1. TableTypes'
  BY DEF Tick, Inv, Types, TableTypes
<1>2. PersonsOfSession'
  BY DEF Tick, Inv, PersonsOfSession
<1> QED
  BY <1>1, <1>2, PersonsStay, DevicesStay DEF Tick, Inv, Types

------------------------------------------------------------------------------
(* One device for each person *)

LEMMA InitInv == Init => Inv
<1> SUFFICES ASSUME Init PROVE Inv
  OBVIOUS
<1>1. TableTypes
  BY DEF Init, TableTypes
<1>2. PersonTypes /\ PersonsOfSession /\ Unique
  BY FS_EmptySet DEF Init, PersonTypes, PersonsOfSession, Unique
<1>3. DeviceTypes /\ HeldOnce /\ InLogin
  BY IdleIsIdle DEF Init, DeviceTypes, HeldOnce, InLogin, InSession, Busy
<1> QED
  BY <1>1, <1>2, <1>3 DEF Inv, Types

LEMMA NextInv == Inv /\ [Next]_vars => Inv'
<1> SUFFICES ASSUME Inv, [Next]_vars PROVE Inv'
  OBVIOUS
<1>1. ASSUME NEW c \in Clients, NEW l \in Logins, SubmitLogin(c, l) PROVE Inv'
  BY <1>1, SubmitLoginKeepsInv
<1>2. ASSUME NEW c \in Clients, NEW code \in AllCodes, SubmitCode(c, code) PROVE Inv'
  BY <1>2, SubmitCodeKeepsInv
<1>3. ASSUME NEW c \in Clients, Serve(c) PROVE Inv'
  BY <1>3, SelectPersonKeepsInv, UpdateTokenKeepsInv, InsertPersonKeepsInv, NextMemberKeepsInv DEF Serve
<1>4. ASSUME NEW c \in Clients, StartTest(c) \/ LogOut(c) \/ TurnedAway(c) PROVE Inv'
  BY <1>4, StartTestKeepsInv, LogOutKeepsInv, TurnedAwayKeepsInv
<1>5. ASSUME NEW v \in Versions, DeleteLoginSource(v) PROVE Inv'
  BY <1>5, DeleteLoginSourceKeepsInv
<1>6. CASE AddLoginSource \/ DeleteResults \/ Tick
  BY <1>6, AddLoginSourceKeepsInv, DeleteResultsKeepsInv, TickKeepsInv
<1>7. CASE UNCHANGED vars
  BY <1>7, OnlyDeviceStep, DevicesStay DEF vars, tables
<1> QED
  BY <1>1, <1>2, <1>3, <1>4, <1>5, <1>6, <1>7 DEF Next

(* The inductive invariant holds in every behaviour. *)
THEOREM InvCorrect == Spec => []Inv
<1> QED
  BY InitInv, NextInv, PTL DEF Spec

(* Two devices are never in the session of one person, however the         *)
(* statements of their requests interleave.                                *)
THEOREM OneDeviceCorrect == Spec => []OneDevicePerPerson
<1>1. Inv => OneDevicePerPerson
  <2> SUFFICES ASSUME Inv PROVE TypeOK /\ OneDevice
    BY DEF OneDevicePerPerson
  <2>1. TypeOK
    <3>1. \A c \in Clients : req[c].at \in {"idle", "select", "update", "insert", "test"}
      BY IdleIsIdle DEF Inv, Types, DeviceTypes, Served
    <3>2. \A l \in Logins : sessions[l] = None \/ sessions[l] \in 0..MaxChanges
      BY DEF Inv, Types, TableTypes
    <3> QED
      BY <3>1, <3>2 DEF TypeOK, Inv, Types, TableTypes, PersonTypes
  <2>2. OneDevice
    <3> SUFFICES ASSUME NEW c \in Clients, NEW d \in Clients, NEW p \in persons, NEW q \in persons,
                        c # d, Holds(c, p), Holds(d, q), <<p.login, p.code>> = <<q.login, q.code>>
                 PROVE  p.login \in AlwaysNew /\ p # q
      BY DEF OneDevice
    <3>1. p.token # q.token
      BY DEF Holds, Inv, HeldOnce, InSession
    <3>2. p # q
      BY <3>1
    <3> QED
      BY <3>2 DEF Inv, Unique
  <2> QED
    BY <2>1, <2>2
<1> QED
  BY <1>1, InvCorrect, PTL

------------------------------------------------------------------------------
(* Sessions end for a reason *)

(* What only adds to the rows, or changes other things of them, keeps every token. *)
LEMMA TokensKept ==
  ASSUME Inv, NEW p \in persons,
         \/ persons \subseteq persons'
         \/ AddLoginSource
  PROVE  \E q \in persons' : q.token = p.token
<1>1. CASE persons \subseteq persons'
  BY <1>1
<1>2. CASE AddLoginSource
  <2>1. p \in Person
    BY DEF Inv, Types, PersonTypes
  <2> DEFINE q == IF upload[p.login] = Removed THEN p
                    ELSE [p EXCEPT !.until = upload[p.login].validTo, !.read = uploads]
  <2>2. q \in persons'
    BY <1>2 DEF AddLoginSource, FollowFile
  <2>3. q.token = p.token
    BY <2>1 DEF Person
  <2> QED
    BY <2>2, <2>3
<1> QED
  BY <1>1, <1>2

(* A device's session ends by its own log-out, a new login of the person,  *)
(* a monitor who found the row without a token, or the deletion of the     *)
(* results, never by anybody else's request.                               *)
THEOREM EndsCorrect == Spec => SessionsEndForAReason
<1> DEFINE Reason(c, p) ==
      \/ auth'[c] = None
      \/ persons' = {}
      \/ \E d \in Clients \ {c} :
           /\ req[d].at = "update" /\ req'[d].at = "test"
           /\ SameKey(p, req[d])
           /\ req[d].own \/ req[d].blank
<1>1. ASSUME Inv, [Next]_vars, NEW c \in Clients, NEW p \in persons, Holds(c, p),
             ~(\E q \in persons' : q.token = p.token)
      PROVE  Reason(c, p)
  <2>1. InSession(c) /\ ~Busy(c) /\ auth[c].token = p.token /\ p.token # None
    BY <1>1, TokensApart DEF Holds, InSession, Inv, InLogin, Types, DeviceTypes, Kept
  <2>2. CASE persons \subseteq persons' \/ AddLoginSource
    BY <1>1, <2>2, TokensKept
  <2>3. ASSUME NEW d \in Clients, UpdateToken(d) PROVE Reason(c, p)
    <3>1. c # d /\ Busy(d)
      BY <2>1, <2>3 DEF UpdateToken, Busy
    <3>2. CASE SameKey(p, req[d])
      <4>1. req[d].own \/ req[d].blank
        BY <2>3, <3>1, <1>1, ServedNow DEF UpdateToken
      <4>2. req'[d].at = "test"
        BY <2>3, <1>1, <3>1, ServedNow DEF UpdateToken, Inv, Types, DeviceTypes, Served
      <4> QED
        BY <2>3, <3>1, <3>2, <4>1, <4>2 DEF UpdateToken
    <3>3. CASE ~SameKey(p, req[d])
      <4>1. p \in persons'
        BY <2>3, <3>3 DEF UpdateToken
      <4> QED
        BY <1>1, <4>1
    <3> QED
      BY <3>2, <3>3
  <2>4. ASSUME NEW d \in Clients, LogOut(d) PROVE Reason(c, p)
    <3>1. CASE d = c
      BY <1>1, <2>4, <3>1 DEF LogOut, Forget, Inv, Types, DeviceTypes
    <3>2. CASE d # c
      <4>1. auth[d].kind = "person" => auth[d].token # p.token
        BY <1>1, <2>1, <2>4, <3>2 DEF LogOut, Authorized, Inv, HeldOnce, InSession
      <4>2. p \in persons'
        BY <2>4, <4>1 DEF LogOut, WithoutToken
      <4> QED
        BY <1>1, <4>2
    <3> QED
      BY <3>1, <3>2
  <2>5. CASE DeleteResults
    BY <2>5 DEF DeleteResults
  <2>6. ASSUME NEW d \in Clients,
               \/ \E l \in Logins : SubmitLogin(d, l)
               \/ \E code \in AllCodes : SubmitCode(d, code)
               \/ SelectPerson(d) \/ InsertPerson(d) \/ NextMember(d) \/ StartTest(d) \/ TurnedAway(d)
        PROVE  persons \subseteq persons'
    BY <2>6 DEF SubmitLogin, SubmitCode, SelectPerson, InsertPerson, NextMember, StartTest, TurnedAway
  <2>7. CASE (\E v \in Versions : DeleteLoginSource(v)) \/ Tick \/ UNCHANGED vars
    <3>1. persons' = persons
      BY <2>7 DEF DeleteLoginSource, Tick, vars
    <3> QED
      BY <2>2, <3>1
  <2> QED
    BY <1>1, <2>2, <2>3, <2>4, <2>5, <2>6, <2>7 DEF Next, Serve
<1>2. Inv /\ [Next]_vars =>
        [\A c \in Clients : \A p \in persons :
           Holds(c, p) /\ ~(\E q \in persons' : q.token = p.token) =>
             \/ auth'[c] = None
             \/ persons' = {}
             \/ \E d \in Clients \ {c} :
                  /\ req[d].at = "update" /\ req'[d].at = "test"
                  /\ SameKey(p, req[d])
                  /\ req[d].own \/ req[d].blank]_vars
  BY <1>1
<1> QED
  BY <1>2, InvCorrect, PTL DEF Spec, SessionsEndForAReason

------------------------------------------------------------------------------
(* Sessions follow the file *)

(* What a request has read in the file in force is what the file says; no  *)
(* request has read anything of a file whose logins are not there yet.     *)
Current(w) ==
  /\ w.read <= uploads
  /\ w.read = uploads => upload = None /\ w.data = logins[w.login]
ReadsAreCurrent ==
  \A c \in Clients : Busy(c) => Current(req[c]) /\ \A w \in req[c].todo : Current(w)

Following(p) ==
  /\ p.read <= uploads
  /\ p.read = uploads /\ upload = None /\ logins[p.login] # Removed /\ logins[p.login].validTo > 0
       => p.until \in 1..logins[p.login].validTo
FileInv == ReadsAreCurrent /\ \A p \in persons : Following(p)

LEMMA WantedCurrent ==
  ASSUME Inv, NEW l \in Logins, logins[l] # Removed, NEW code, NEW s
  PROVE  Current(Wanted(l, code, s))
BY DEF Current, Wanted, Inv, Types, TableTypes

LEMMA MembersCurrent ==
  ASSUME Inv, NEW l
  PROVE  \A w \in Members(l) : Current(w)
BY WantedCurrent DEF Members

(* A request that goes on is still about the same.                         *)
LEMMA ReadsStay ==
  ASSUME Inv, ReadsAreCurrent, UNCHANGED tables, NEW c \in Clients, NEW r, req' = [req EXCEPT ![c] = r],
         r.at # "idle" => Current(r) /\ \A w \in r.todo : Current(w)
  PROVE  ReadsAreCurrent'
BY DEF ReadsAreCurrent, Current, tables, Busy, Inv, Types, DeviceTypes

LEMMA ServedReads ==
  ASSUME Inv, ReadsAreCurrent, UNCHANGED tables, NEW c \in Clients, Busy(c), NEW r \in Served,
         req' = [req EXCEPT ![c] = r],
         r.login = req[c].login, r.data = req[c].data, r.read = req[c].read, r.todo = req[c].todo
  PROVE  ReadsAreCurrent'
<1>1. Current(r) /\ \A w \in r.todo : Current(w)
  BY DEF ReadsAreCurrent, Current
<1> QED
  BY <1>1, ReadsStay

LEMMA RequestReads ==
  ASSUME Inv, ReadsAreCurrent, UNCHANGED tables, NEW c \in Clients, NEW own, NEW w, NEW todo, NEW token,
         Current(w), \A x \in todo : Current(x),
         req' = [req EXCEPT ![c] = Request(own, w, todo, token)]
  PROVE  ReadsAreCurrent'
<1> DEFINE r == Request(own, w, todo, token)
<1>1. r.login = w.login /\ r.data = w.data /\ r.read = w.read /\ r.todo = todo
  BY DEF Request
<1>2. Current(r)
  BY <1>1 DEF Current
<1>3. req' = [req EXCEPT ![c] = r]
  OBVIOUS
<1> HIDE DEF r
<1> QED
  BY <1>1, <1>2, <1>3, ReadsStay

LEMMA IdleReads ==
  ASSUME Inv, ReadsAreCurrent, UNCHANGED tables, NEW c \in Clients, Refused(c)
  PROVE  ReadsAreCurrent'
BY ReadsStay, IdleIsIdle DEF Refused

LEMMA PersonsFollow ==
  ASSUME FileInv, UNCHANGED tables,
         \A q \in persons' : \E p \in persons : p.read = q.read /\ p.login = q.login /\ p.until = q.until
  PROVE  \A p \in persons' : Following(p)'
BY DEF FileInv, Following, tables

LEMMA SubmitReads ==
  ASSUME Inv, FileInv, NEW c \in Clients,
         \/ \E l \in Logins : SubmitLogin(c, l)
         \/ \E code \in AllCodes : SubmitCode(c, code)
  PROVE  FileInv'
<1>1. UNCHANGED <<tables, persons>>
  BY DEF SubmitLogin, SubmitCode
<1>2. ReadsAreCurrent'
  <2>1. ASSUME NEW l \in Logins, SubmitLogin(c, l) PROVE ReadsAreCurrent'
    <3>1. Current(Wanted(l, NoCode, LoginSession(l)))
      BY <2>1, WantedCurrent DEF SubmitLogin, MayLogIn
    <3>2. CASE UNCHANGED req
      BY <1>1, <3>2 DEF FileInv, ReadsAreCurrent, Current, Busy, tables
    <3>3. CASE req' = [req EXCEPT ![c] = Request(TRUE, Wanted(l, NoCode, LoginSession(l)), {}, None)]
      BY <1>1, <3>1, <3>3, RequestReads DEF FileInv
    <3> QED
      BY <2>1, <3>2, <3>3 DEF SubmitLogin
  <2>2. ASSUME NEW code \in AllCodes, SubmitCode(c, code) PROVE ReadsAreCurrent'
    <3>1. auth[c].login \in Logins /\ logins[auth[c].login] # Removed
      BY <2>2 DEF SubmitCode, Authorized, LoginSessionByToken, MayLogIn, Inv, Types, DeviceTypes, Kept
    <3>2. Current(Wanted(auth[c].login, code, auth[c].token))
      BY <3>1, WantedCurrent
    <3> QED
      BY <1>1, <2>2, <3>2, RequestReads DEF SubmitCode, FileInv
  <2> QED
    BY <2>1, <2>2
<1> QED
  BY <1>1, <1>2, PersonsFollow DEF FileInv

LEMMA ServeReads ==
  ASSUME Inv, FileInv, NEW c \in Clients, Serve(c)
  PROVE  FileInv'
<1> DEFINE r == req[c]
<1>0. Busy(c) /\ r \in Served /\ UNCHANGED tables /\ ReadsAreCurrent
      /\ Current(r) /\ \A w \in r.todo : Current(w)
  <2>1. Busy(c) /\ UNCHANGED tables
    BY DEF Serve, SelectPerson, UpdateToken, InsertPerson, NextMember, Busy
  <2> QED
    BY <2>1, ServedNow DEF FileInv, ReadsAreCurrent
<1>1. ASSUME Refused(c) PROVE ReadsAreCurrent'
  BY <1>0, <1>1, IdleReads
<1>2. ASSUME NEW at \in {"select", "insert", "update", "test"}, NEW token \in Tokens \cup {None},
             NEW blank \in BOOLEAN,
             req' = [req EXCEPT ![c] = [r EXCEPT !.at = at, !.token = token, !.blank = blank]]
      PROVE  ReadsAreCurrent'
  <2> DEFINE q == [r EXCEPT !.at = at, !.token = token, !.blank = blank]
  <2>1. q \in Served /\ q.login = r.login /\ q.data = r.data /\ q.read = r.read /\ q.todo = r.todo
    BY <1>0 DEF Served
  <2> HIDE DEF q
  <2> QED
    BY <1>0, <1>2, <2>1, ServedReads DEF q
<1>3. CASE SelectPerson(c)
  <2>1. CASE Refused(c)
    BY <1>1, <1>3, <2>1, <1>0, PersonsFollow DEF SelectPerson, FileInv
  <2>2. CASE req' = [req EXCEPT ![c].at = "insert"]
    <3>1. req' = [req EXCEPT ![c] = [r EXCEPT !.at = "insert", !.token = r.token, !.blank = r.blank]]
      BY <1>0, <2>2 DEF Served
    <3>2. r.token \in Tokens \cup {None} /\ r.blank \in BOOLEAN
      BY <1>0 DEF Served
    <3> QED
      BY <1>0, <1>2, <1>3, <3>1, <3>2, PersonsFollow DEF SelectPerson, FileInv
  <2>3. ASSUME NEW p \in persons,
               req' = [req EXCEPT ![c].at = IF r.own \/ p.token = None THEN "update" ELSE "test",
                                  ![c].blank = (p.token = None)]
        PROVE  FileInv'
    <3> DEFINE at == IF r.own \/ p.token = None THEN "update" ELSE "test"
               blank == (p.token = None)
    <3>1. req' = [req EXCEPT ![c] = [r EXCEPT !.at = at, !.token = r.token, !.blank = blank]]
      BY <1>0, <2>3 DEF Served
    <3>2. r.token \in Tokens \cup {None} /\ blank \in BOOLEAN /\ at \in {"select", "insert", "update", "test"}
      BY <1>0 DEF Served
    <3> HIDE DEF at, blank
    <3> QED
      BY <1>0, <1>2, <1>3, <3>1, <3>2, PersonsFollow DEF SelectPerson, FileInv
  <2> QED
    BY <1>3, <2>1, <2>2, <2>3 DEF SelectPerson
<1>4. ASSUME req' = [req EXCEPT ![c].at = "test", ![c].token = IF r.own THEN FreshToken ELSE @], TokenIsLeft
      PROVE  ReadsAreCurrent'
  <2> DEFINE token == IF r.own THEN FreshToken ELSE r.token
  <2>1. req' = [req EXCEPT ![c] = [r EXCEPT !.at = "test", !.token = token, !.blank = r.blank]]
    BY <1>0, <1>4 DEF Served
  <2>2. token \in Tokens \cup {None} /\ r.blank \in BOOLEAN
    BY <1>0, <1>4, FreshIsNew DEF Served
  <2> HIDE DEF token
  <2> QED
    BY <1>2, <2>1, <2>2
<1>5. CASE UpdateToken(c)
  <2>1. ReadsAreCurrent'
    BY <1>4, <1>5 DEF UpdateToken
  <2>2. \A q \in persons' : \E p \in persons : p.read = q.read /\ p.login = q.login /\ p.until = q.until
    BY <1>5 DEF UpdateToken, Inv, Types, PersonTypes, Person
  <2> QED
    BY <1>0, <2>1, <2>2, PersonsFollow DEF FileInv
<1>6. CASE InsertPerson(c)
  <2>1. CASE Refused(c) /\ UNCHANGED persons
    BY <1>0, <1>1, <2>1, PersonsFollow DEF FileInv
  <2>2. CASE req' = [req EXCEPT ![c].at = "select"] /\ UNCHANGED persons
    <3>1. req' = [req EXCEPT ![c] = [r EXCEPT !.at = "select", !.token = r.token, !.blank = r.blank]]
      BY <1>0, <2>2 DEF Served
    <3>2. r.token \in Tokens \cup {None} /\ r.blank \in BOOLEAN
      BY <1>0 DEF Served
    <3> QED
      BY <1>0, <1>2, <2>2, <3>1, <3>2, PersonsFollow DEF FileInv
  <2>3. ASSUME NEW n, NEW t,
               persons' = persons \cup
                 {[login |-> r.login, session |-> r.session, code |-> r.code, nr |-> n, token |-> t,
                   until |-> ExpirationFromNow(r.data), read |-> r.read]},
               req' = [req EXCEPT ![c].at = "test", ![c].token = IF r.own THEN FreshToken ELSE @]
        PROVE  FileInv'
    <3> DEFINE new == [login |-> r.login, session |-> r.session, code |-> r.code, nr |-> n, token |-> t,
                       until |-> ExpirationFromNow(r.data), read |-> r.read]
    <3>1. ReadsAreCurrent'
      BY <1>4, <1>6, <2>3 DEF InsertPerson
    <3>2. r.data.validTo > 0 => ExpirationFromNow(r.data) \in 1..r.data.validTo
      BY <1>0, ExpirationWithin DEF Inv, Served
    <3>3. Following(new)
      BY <1>0, <3>2 DEF Following, Current
    <3>4. \A p \in persons' : Following(p)
      BY <2>3, <3>3 DEF FileInv
    <3> QED
      BY <1>0, <3>1, <3>4 DEF FileInv, Following, tables
  <2>4. \/ Refused(c) /\ UNCHANGED persons
        \/ req' = [req EXCEPT ![c].at = "select"] /\ UNCHANGED persons
        \/ \E n, t :
             /\ persons' = persons \cup
                  {[login |-> r.login, session |-> r.session, code |-> r.code, nr |-> n, token |-> t,
                    until |-> ExpirationFromNow(r.data), read |-> r.read]}
             /\ req' = [req EXCEPT ![c].at = "test", ![c].token = IF r.own THEN FreshToken ELSE @]
    <3> DEFINE t == IF r.own THEN FreshToken ELSE Unheld
               n == IF r.login \in AlwaysNew THEN Cardinality({p \in persons : p.login = r.login}) + 1 ELSE 0
    <3>1. ASSUME req' = [req EXCEPT ![c].at = "test", ![c].token = IF r.own THEN t ELSE @]
          PROVE  req' = [req EXCEPT ![c].at = "test", ![c].token = IF r.own THEN FreshToken ELSE @]
      BY <3>1
    <3> QED
      BY <1>6, <3>1 DEF InsertPerson
  <2> QED
    BY <2>1, <2>2, <2>3, <2>4
<1>7. CASE NextMember(c)
  <2>1. UNCHANGED persons
    BY <1>7 DEF NextMember
  <2>2. ReadsAreCurrent'
    <3> DEFINE todo == IF r.own THEN Members(r.login) ELSE r.todo
    <3>1. \A w \in todo : Current(w)
      BY <1>0, MembersCurrent
    <3>2. ASSUME NEW x \in todo, NEW t,
                 req' = [req EXCEPT ![c] =
                           Request(FALSE, [x EXCEPT !.session = t],
                                   {IF y.login = x.login THEN [y EXCEPT !.session = t] ELSE y : y \in todo \ {x}}, r.token)]
          PROVE  ReadsAreCurrent'
      <4> DEFINE rest == {IF y.login = x.login THEN [y EXCEPT !.session = t] ELSE y : y \in todo \ {x}}
      <4>1. todo \subseteq Want
        BY <1>0, MembersType DEF Inv, Served
      <4>2. \A y \in todo : Current([y EXCEPT !.session = t])
        BY <3>1, <4>1 DEF Current, Want
      <4>3. \A y \in rest : Current(y)
        BY <3>1, <4>2
      <4> HIDE DEF rest
      <4> QED
        BY <1>0, <3>2, <4>2, <4>3, RequestReads DEF rest
    <3>3. CASE Refused(c)
      BY <1>1, <3>3
    <3>4. \/ Refused(c)
          \/ \E x \in todo, t \in 0..MaxChanges \cup {None} :
               req' = [req EXCEPT ![c] =
                         Request(FALSE, [x EXCEPT !.session = t],
                                 {IF y.login = x.login THEN [y EXCEPT !.session = t] ELSE y : y \in todo \ {x}}, r.token)]
      <4> SUFFICES ASSUME NEW x \in todo,
                          req' = [req EXCEPT ![c] =
                                    Request(FALSE, [x EXCEPT !.session = IF x.session # None THEN x.session
                                                                         ELSE LoginSession(x.login)],
                                            {IF y.login = x.login
                                               THEN [y EXCEPT !.session = IF x.session # None THEN x.session
                                                                          ELSE LoginSession(x.login)]
                                               ELSE y : y \in todo \ {x}}, r.token)]
                   PROVE  \E t \in 0..MaxChanges \cup {None} :
                            req' = [req EXCEPT ![c] =
                                      Request(FALSE, [x EXCEPT !.session = t],
                                              {IF y.login = x.login THEN [y EXCEPT !.session = t] ELSE y :
                                                 y \in todo \ {x}}, r.token)]
        BY <1>7 DEF NextMember
      <4> DEFINE t == IF x.session # None THEN x.session ELSE LoginSession(x.login)
      <4>1. x \in Want
        BY <1>0, MembersType DEF Inv, Served
      <4>2. t \in 0..MaxChanges \cup {None}
        BY <4>1, LoginSessionType DEF Want, Inv
      <4>3. req' = [req EXCEPT ![c] =
                      Request(FALSE, [x EXCEPT !.session = t],
                              {IF y.login = x.login THEN [y EXCEPT !.session = t] ELSE y : y \in todo \ {x}}, r.token)]
        OBVIOUS
      <4> HIDE DEF t
      <4> WITNESS t \in 0..MaxChanges \cup {None}
      <4> QED
        BY <4>3
    <3> QED
      BY <3>2, <3>3, <3>4
  <2> QED
    BY <1>0, <2>1, <2>2, PersonsFollow DEF FileInv
<1> QED
  BY <1>3, <1>5, <1>6, <1>7 DEF Serve

LEMMA RequestsAsRead ==
  ASSUME ReadsAreCurrent, UNCHANGED req,
         \A w : Current(w) => Current(w)'
  PROVE  ReadsAreCurrent'
BY DEF ReadsAreCurrent, Busy

LEMMA DeviceReads ==
  ASSUME Inv, FileInv, NEW c \in Clients, StartTest(c) \/ LogOut(c) \/ TurnedAway(c)
  PROVE  FileInv'
<1>1. UNCHANGED <<tables, req>>
  BY DEF StartTest, LogOut, TurnedAway
<1>2. ReadsAreCurrent'
  BY <1>1, RequestsAsRead DEF FileInv, Current, tables
<1>3. \A q \in persons' : \E p \in persons : p.read = q.read /\ p.login = q.login /\ p.until = q.until
  BY DEF StartTest, LogOut, TurnedAway, WithoutToken, Inv, Types, PersonTypes, Person
<1> QED
  BY <1>1, <1>2, <1>3, PersonsFollow DEF FileInv

LEMMA DeleteLoginSourceReads ==
  ASSUME Inv, FileInv, NEW v \in Versions, DeleteLoginSource(v)
  PROVE  FileInv'
<1>1. /\ \A c \in Clients : Busy(c) => req[c].read \in Nat /\ \A w \in req[c].todo : w.read \in Nat
      /\ \A p \in persons : p.read \in Nat /\ uploads \in Nat
  BY ServedNow DEF Served, Want, Inv, Types, TableTypes, PersonTypes, Person
<1>2. uploads \in Nat /\ uploads' = uploads + 1 /\ UNCHANGED <<req, persons>>
  BY DEF DeleteLoginSource, Inv, Types, TableTypes
<1>3. ReadsAreCurrent'
  BY <1>1, <1>2 DEF FileInv, ReadsAreCurrent, Current, Busy
<1>4. \A p \in persons' : Following(p)'
  BY <1>1, <1>2 DEF FileInv, Following
<1> QED
  BY <1>3, <1>4 DEF FileInv

LEMMA AddLoginSourceReads ==
  ASSUME Inv, FileInv, AddLoginSource
  PROVE  FileInv'
<1>1. upload # None /\ upload \in Files /\ uploads \in Nat /\ logins' = upload /\ upload' = None
      /\ UNCHANGED <<req, uploads>>
  BY DEF AddLoginSource, Inv, Types, TableTypes
<1>2. ReadsAreCurrent'
  BY <1>1, RequestsAsRead DEF FileInv, Current
<1>3. \A p \in persons' : Following(p)'
  <2> SUFFICES ASSUME NEW q \in persons' PROVE Following(q)'
    OBVIOUS
  <2>1. PICK p \in persons : q = IF upload[p.login] = Removed THEN p
                                 ELSE [p EXCEPT !.until = upload[p.login].validTo, !.read = uploads]
    BY DEF AddLoginSource, FollowFile
  <2>2. p \in Person /\ p.login \in Logins /\ Following(p)
    BY DEF Inv, Types, PersonTypes, Person, FileInv
  <2>3. CASE upload[p.login] = Removed
    BY <1>1, <2>1, <2>2, <2>3 DEF Following
  <2>4. CASE upload[p.login] # Removed
    <3>1. q.until = upload[p.login].validTo /\ q.read = uploads /\ q.login = p.login
      BY <2>1, <2>2, <2>4 DEF Person
    <3>2. upload[p.login].validTo \in Nat
      BY <1>1, <2>2, <2>4 DEF Files, Entry
    <3> QED
      BY <1>1, <3>1, <3>2 DEF Following
  <2> QED
    BY <2>3, <2>4
<1> QED
  BY <1>2, <1>3 DEF FileInv

LEMMA OtherReads ==
  ASSUME Inv, FileInv, DeleteResults \/ Tick \/ UNCHANGED vars
  PROVE  FileInv'
<1>1. UNCHANGED <<logins, upload, uploads, req>> /\ persons' \in {persons, {}}
  BY DEF DeleteResults, Tick, vars
<1>2. ReadsAreCurrent'
  BY <1>1, RequestsAsRead DEF FileInv, Current
<1> QED
  BY <1>1, <1>2 DEF FileInv, Following

(* Every person session ends when the login of the file in force does,     *)
(* unless its request had read the file before.                            *)
THEOREM FollowCorrect == Spec => []SessionsFollowTheFile
<1>1. Init => FileInv
  BY IdleIsIdle DEF Init, FileInv, ReadsAreCurrent, Busy
<1>2. Inv /\ FileInv /\ [Next]_vars => FileInv'
  BY SubmitReads, ServeReads, DeviceReads, DeleteLoginSourceReads, AddLoginSourceReads, OtherReads DEF Next
<1>3. FileInv => SessionsFollowTheFile
  BY DEF FileInv, Following, SessionsFollowTheFile
<1> QED
  BY <1>1, <1>2, <1>3, InvCorrect, PTL DEF Spec

------------------------------------------------------------------------------
(* A monitor prepares a session for every member *)

Registered(l, code) == \E q \in persons : q.login = l /\ q.code = code /\ Key(q) \in tests
Member(l, code) == l \in Logins \ (Monitors \cup AlwaysNew) /\ code \in Codes[l] /\ logins[l] # Removed
Undisturbed == uploads = 0 /\ deletions = 0

(* While the sessions of the members are prepared each is ready, still to  *)
(* be done or being done.                                                  *)
Prepared ==
  \A c \in Clients : Busy(c) /\ ~req[c].own =>
    \A l \in Logins : \A code \in Codes[l] : Member(l, code) =>
      \/ Registered(l, code)
      \/ \E x \in req[c].todo : x.login = l /\ x.code = code
      \/ req[c].login = l /\ req[c].code = code

(* The token that answers a person's own login is of the person's session. *)
OwnToken ==
  \A c \in Clients : Busy(c) /\ req[c].at = "test" /\ req[c].own =>
    \A p \in persons : p.token = req[c].token => p.login = req[c].login

MonitorInv == OwnToken /\ (uploads = 0 => upload = None) /\ (Undisturbed => Prepared)

LEMMA RegisteredStays ==
  ASSUME Inv, [Next]_vars, deletions' = 0, NEW l, NEW code, Registered(l, code)
  PROVE  Registered(l, code)'
<1>1. PICK p \in persons : p.login = l /\ p.code = code /\ Key(p) \in tests
  BY DEF Registered
<1>2. p \in Person
  BY DEF Inv, Types, PersonTypes
<1>3. ASSUME persons \subseteq persons', tests \subseteq tests' PROVE Registered(l, code)'
  BY <1>1, <1>3 DEF Registered, Key
<1>4. ASSUME NEW q \in persons', q.login = p.login, q.session = p.session, q.code = p.code, q.nr = p.nr,
             tests \subseteq tests'
      PROVE  Registered(l, code)'
  BY <1>1, <1>4 DEF Registered, Key
<1>5. ASSUME NEW c \in Clients,
             \/ \E m \in Logins : SubmitLogin(c, m)
             \/ \E k \in AllCodes : SubmitCode(c, k)
             \/ SelectPerson(c) \/ InsertPerson(c) \/ NextMember(c) \/ StartTest(c) \/ TurnedAway(c)
      PROVE  Registered(l, code)'
  <2>1. persons \subseteq persons' /\ tests \subseteq tests'
    BY <1>5 DEF SubmitLogin, SubmitCode, SelectPerson, InsertPerson, NextMember, StartTest, TurnedAway, WithTests
  <2> QED
    BY <1>3, <2>1
<1>6. ASSUME NEW c \in Clients, UpdateToken(c) PROVE Registered(l, code)'
  <2> DEFINE t == IF req[c].own THEN FreshToken ELSE Unheld
             q == IF SameKey(p, req[c]) THEN [p EXCEPT !.token = t] ELSE p
  <2>1. q \in persons' /\ UNCHANGED tests
    BY <1>6 DEF UpdateToken
  <2>2. q.login = p.login /\ q.session = p.session /\ q.code = p.code /\ q.nr = p.nr
    BY <1>2 DEF Person
  <2> HIDE DEF q
  <2> QED
    BY <1>4, <2>1, <2>2
<1>7. ASSUME NEW c \in Clients, LogOut(c) PROVE Registered(l, code)'
  <2> DEFINE q == IF auth[c].kind = "person" /\ p.token = auth[c].token THEN [p EXCEPT !.token = None] ELSE p
  <2>1. q \in persons' /\ UNCHANGED tests
    BY <1>7 DEF LogOut, WithoutToken
  <2>2. q.login = p.login /\ q.session = p.session /\ q.code = p.code /\ q.nr = p.nr
    BY <1>2 DEF Person
  <2> HIDE DEF q
  <2> QED
    BY <1>4, <2>1, <2>2
<1>8. CASE AddLoginSource
  <2> DEFINE q == IF upload[p.login] = Removed THEN p
                    ELSE [p EXCEPT !.until = upload[p.login].validTo, !.read = uploads]
  <2>1. q \in persons' /\ UNCHANGED tests
    BY <1>8 DEF AddLoginSource, FollowFile
  <2>2. q.login = p.login /\ q.session = p.session /\ q.code = p.code /\ q.nr = p.nr
    BY <1>2 DEF Person
  <2> HIDE DEF q
  <2> QED
    BY <1>4, <2>1, <2>2
<1>9. CASE (\E v \in Versions : DeleteLoginSource(v)) \/ Tick \/ UNCHANGED vars
  <2>1. UNCHANGED <<persons, tests>>
    BY <1>9 DEF DeleteLoginSource, Tick, vars
  <2> QED
    BY <1>3, <2>1
<1>10. ~DeleteResults
  BY DEF DeleteResults, Inv, Types, TableTypes
<1> QED
  BY <1>5, <1>6, <1>7, <1>8, <1>9, <1>10 DEF Next, Serve

(* The rows after a step have their tokens from before, or none that a     *)
(* login is to be answered with, unless they are the row of that login.    *)
LEMMA OwnTokenStays ==
  ASSUME Inv, OwnToken, [Next]_vars
  PROVE  OwnToken'
<1>0. \A c \in Clients : Busy(c) => req[c].token # Unheld
  BY ServedNow, TokensApart DEF Served
<1>1. ASSUME UNCHANGED persons,
             \A c \in Clients : req'[c] = req[c] \/ req'[c].at # "test" \/ ~req'[c].own
      PROVE  OwnToken'
  BY <1>1 DEF OwnToken, Busy
<1>2. ASSUME NEW c \in Clients,
             \/ \E l \in Logins : SubmitLogin(c, l)
             \/ \E code \in AllCodes : SubmitCode(c, code)
      PROVE  OwnToken'
  <2>1. UNCHANGED persons
    BY <1>2 DEF SubmitLogin, SubmitCode
  <2>2. \/ UNCHANGED req
        \/ \E w : req' = [req EXCEPT ![c] = Request(TRUE, w, {}, None)]
    BY <1>2 DEF SubmitLogin, SubmitCode
  <2>3. \A w : Request(TRUE, w, {}, None).at # "test"
    BY DEF Request
  <2>4. \A d \in Clients : req'[d] = req[d] \/ req'[d].at # "test"
    BY <2>2, <2>3 DEF Inv, Types, DeviceTypes
  <2> QED
    BY <1>1, <2>1, <2>4
<1>3. ASSUME NEW c \in Clients, SelectPerson(c) PROVE OwnToken'
  <2>0. req \in [Clients -> {Idle} \cup Served] /\ req[c] \in Served
    BY <1>3, ServedNow DEF Inv, Types, DeviceTypes, SelectPerson, Busy
  <2>1. \A d \in Clients : req'[d] = req[d] \/ req'[d].at # "test" \/ ~req'[d].own
    <3>1. CASE Refused(c)
      BY <2>0, <3>1, IdleIsIdle DEF Refused
    <3>2. CASE req' = [req EXCEPT ![c].at = "insert"]
      BY <2>0, <3>2 DEF Served
    <3>3. ASSUME NEW p \in persons,
                 req' = [req EXCEPT ![c].at = IF req[c].own \/ p.token = None THEN "update" ELSE "test",
                                    ![c].blank = (p.token = None)]
          PROVE  \A d \in Clients : req'[d] = req[d] \/ req'[d].at # "test" \/ ~req'[d].own
      <4>1. CASE req[c].own \/ p.token = None
        <5>1. req'[c].at = "update"
          BY <2>0, <3>3, <4>1 DEF Served
        <5> QED
          BY <2>0, <3>3, <5>1
      <4>2. CASE ~(req[c].own \/ p.token = None)
        <5>1. ~req'[c].own
          BY <2>0, <3>3, <4>2 DEF Served
        <5> QED
          BY <2>0, <3>3, <5>1
      <4> QED
        BY <4>1, <4>2
    <3> QED
      BY <1>3, <3>1, <3>2, <3>3 DEF SelectPerson
  <2> QED
    BY <1>1, <1>3, <2>1 DEF SelectPerson
<1>4. ASSUME NEW c \in Clients, Busy(c), TokenIsLeft, NEW r \in Served, r = req[c],
             req' = [req EXCEPT ![c].at = "test", ![c].token = IF r.own THEN FreshToken ELSE @],
             \A q \in persons' : \/ q.login = r.login /\ q.token \in {IF r.own THEN FreshToken ELSE Unheld}
                                 \/ \E p \in persons : p.token = q.token /\ p.login = q.login
      PROVE  OwnToken'
  <2> SUFFICES ASSUME NEW d \in Clients, Busy(d)', req'[d].at = "test", req'[d].own,
                      NEW q \in persons', q.token = req'[d].token
               PROVE  q.login = req'[d].login
    BY DEF OwnToken
  <2>0. req \in [Clients -> {Idle} \cup Served]
    BY DEF Inv, Types, DeviceTypes
  <2>1. CASE d = c
    <3>1. req'[c] = [r EXCEPT !.at = "test", !.token = IF r.own THEN FreshToken ELSE @]
      BY <1>4, <2>0
    <3>2. req'[c].login = r.login /\ r.own /\ req'[c].token = FreshToken
      <4>1. req'[c].own = r.own /\ req'[c].login = r.login
        BY <3>1 DEF Served
      <4>2. r.own
        BY <2>1, <4>1
      <4>3. req'[c] = [r EXCEPT !.at = "test", !.token = FreshToken]
        BY <3>1, <4>2
      <4> QED
        BY <4>1, <4>2, <4>3 DEF Served
    <3>3. ~(\E p \in persons : p.token = q.token)
      BY <1>4, <2>1, <3>2, FreshIsNobodys
    <3> QED
      BY <1>4, <2>1, <3>2, <3>3
  <2>2. CASE d # c
    <3>1. req'[d] = req[d] /\ Busy(d)
      BY <1>4, <2>0, <2>2 DEF Busy
    <3>2. q.token # FreshToken /\ q.token # Unheld
      BY <1>0, <1>4, <3>1, FreshIsNobodys
    <3>3. PICK p \in persons : p.token = q.token /\ p.login = q.login
      BY <1>4, <3>2
    <3> QED
      BY <3>1, <3>3 DEF OwnToken
  <2> QED
    BY <2>1, <2>2
<1>5. ASSUME NEW c \in Clients, UpdateToken(c) PROVE OwnToken'
  <2>1. Busy(c) /\ req[c] \in Served
    BY <1>5, ServedNow DEF UpdateToken, Busy
  <2>2. \A q \in persons' : \/ q.login = req[c].login /\ q.token \in {IF req[c].own THEN FreshToken ELSE Unheld}
                            \/ \E p \in persons : p.token = q.token /\ p.login = q.login
    BY <1>5 DEF UpdateToken, SameKey, Inv, Types, PersonTypes, Person
  <2> QED
    BY <1>4, <1>5, <2>1, <2>2 DEF UpdateToken
<1>6. ASSUME NEW c \in Clients, InsertPerson(c) PROVE OwnToken'
  <2>0. Busy(c) /\ req[c] \in Served /\ req \in [Clients -> {Idle} \cup Served] /\ TokenIsLeft
    BY <1>6, ServedNow DEF InsertPerson, Busy, Inv, Types, DeviceTypes
  <2>1. CASE UNCHANGED persons /\ (Refused(c) \/ req' = [req EXCEPT ![c].at = "select"])
    <3>1. \A d \in Clients : req'[d] = req[d] \/ req'[d].at # "test"
      BY <2>0, <2>1, IdleIsIdle DEF Refused, Served
    <3> QED
      BY <1>1, <2>1, <3>1
  <2>2. CASE /\ req' = [req EXCEPT ![c].at = "test", ![c].token = IF req[c].own THEN FreshToken ELSE @]
             /\ \A q \in persons' : \/ q.login = req[c].login /\ q.token \in {IF req[c].own THEN FreshToken ELSE Unheld}
                                    \/ \E p \in persons : p.token = q.token /\ p.login = q.login
    BY <1>4, <2>0, <2>2
  <2>3. \/ UNCHANGED persons /\ (Refused(c) \/ req' = [req EXCEPT ![c].at = "select"])
        \/ /\ req' = [req EXCEPT ![c].at = "test", ![c].token = IF req[c].own THEN FreshToken ELSE @]
           /\ \E n : persons' = persons \cup
                {[login |-> req[c].login, session |-> req[c].session, code |-> req[c].code, nr |-> n,
                  token |-> IF req[c].own THEN FreshToken ELSE Unheld,
                  until |-> ExpirationFromNow(req[c].data), read |-> req[c].read]}
    <3> DEFINE t == IF req[c].own THEN FreshToken ELSE Unheld
    <3>1. ASSUME req' = [req EXCEPT ![c].at = "test", ![c].token = IF req[c].own THEN t ELSE @]
          PROVE  req' = [req EXCEPT ![c].at = "test", ![c].token = IF req[c].own THEN FreshToken ELSE @]
      BY <3>1
    <3> QED
      BY <1>6, <3>1 DEF InsertPerson
  <2>4. CASE \E n : persons' = persons \cup
               {[login |-> req[c].login, session |-> req[c].session, code |-> req[c].code, nr |-> n,
                 token |-> IF req[c].own THEN FreshToken ELSE Unheld,
                 until |-> ExpirationFromNow(req[c].data), read |-> req[c].read]}
    <3>1. \A q \in persons' : \/ q.login = req[c].login /\ q.token \in {IF req[c].own THEN FreshToken ELSE Unheld}
                              \/ \E p \in persons : p.token = q.token /\ p.login = q.login
      BY <2>4
    <3> QED
      BY <2>1, <2>2, <2>3, <3>1
  <2> QED
    BY <2>1, <2>3, <2>4
<1>7. ASSUME NEW c \in Clients, NextMember(c) PROVE OwnToken'
  <2>1. \/ Refused(c)
        \/ \E w, todo, token : req' = [req EXCEPT ![c] = Request(FALSE, w, todo, token)]
    BY <1>7 DEF NextMember
  <2>2. \A w, todo, token : ~Request(FALSE, w, todo, token).own
    BY DEF Request
  <2>3. \A d \in Clients : req'[d] = req[d] \/ req'[d].at # "test" \/ ~req'[d].own
    <3>1. req \in [Clients -> {Idle} \cup Served]
      BY DEF Inv, Types, DeviceTypes
    <3>2. CASE Refused(c)
      BY <3>1, <3>2, IdleIsIdle DEF Refused
    <3>3. ASSUME NEW r, ~r.own, req' = [req EXCEPT ![c] = r]
          PROVE  \A d \in Clients : req'[d] = req[d] \/ ~req'[d].own
      BY <3>1, <3>3
    <3> QED
      BY <2>1, <2>2, <3>2, <3>3
  <2> QED
    BY <1>1, <1>7, <2>3 DEF NextMember
<1>8. ASSUME UNCHANGED req,
             \A q \in persons' : q.token = None \/ \E p \in persons : p.token = q.token /\ p.login = q.login
      PROVE  OwnToken'
  <2> SUFFICES ASSUME NEW c \in Clients, Busy(c), req[c].at = "test", req[c].own,
                      NEW q \in persons', q.token = req[c].token
               PROVE  q.login = req[c].login
    BY <1>8 DEF OwnToken, Busy
  <2>1. q.token # None
    BY ServedNow
  <2>2. PICK p \in persons : p.token = q.token /\ p.login = q.login
    BY <1>8, <2>1
  <2> QED
    BY <2>2 DEF OwnToken
<1>9. ASSUME NEW c \in Clients, StartTest(c) \/ LogOut(c) \/ TurnedAway(c) PROVE OwnToken'
  <2>1. UNCHANGED req
    BY <1>9 DEF StartTest, LogOut, TurnedAway
  <2>2. \A q \in persons' : q.token = None \/ \E p \in persons : p.token = q.token /\ p.login = q.login
    BY <1>9 DEF StartTest, LogOut, TurnedAway, WithoutToken, Inv, Types, PersonTypes, Person
  <2> QED
    BY <1>8, <2>1, <2>2
<1>10. CASE (\E v \in Versions : DeleteLoginSource(v)) \/ AddLoginSource \/ DeleteResults \/ Tick \/ UNCHANGED vars
  <2>1. UNCHANGED req
    BY <1>10 DEF DeleteLoginSource, AddLoginSource, DeleteResults, Tick, vars
  <2>2. \A q \in persons' : \E p \in persons : p.token = q.token /\ p.login = q.login
    <3>1. CASE persons' \in {persons, {}}
      BY <3>1
    <3>2. CASE AddLoginSource
      <4> SUFFICES ASSUME NEW q \in persons' PROVE \E p \in persons : p.token = q.token /\ p.login = q.login
        OBVIOUS
      <4>1. PICK p \in persons : q = IF upload[p.login] = Removed THEN p
                                   ELSE [p EXCEPT !.until = upload[p.login].validTo, !.read = uploads]
        BY <3>2 DEF AddLoginSource, FollowFile
      <4>2. p \in Person
        BY DEF Inv, Types, PersonTypes
      <4>3. p.token = q.token /\ p.login = q.login
        BY <4>1, <4>2 DEF Person
      <4> QED
        BY <4>3
    <3> QED
      BY <1>10, <3>1, <3>2 DEF DeleteLoginSource, DeleteResults, Tick, vars
  <2> QED
    BY <1>8, <2>1, <2>2
<1> QED
  BY <1>2, <1>3, <1>5, <1>6, <1>7, <1>9, <1>10 DEF Next, Serve

LEMMA FileStays ==
  ASSUME Inv, MonitorInv, [Next]_vars
  PROVE  /\ uploads' = 0 => uploads = 0 /\ upload' = None /\ UNCHANGED logins
         /\ deletions' = 0 => deletions = 0
<1>1. uploads \in Nat /\ deletions \in Nat /\ (uploads = 0 => upload = None)
  BY DEF Inv, Types, TableTypes, MonitorInv
<1>2. CASE UNCHANGED tables
  BY <1>1, <1>2 DEF tables
<1>3. CASE (\E v \in Versions : DeleteLoginSource(v)) \/ AddLoginSource \/ DeleteResults \/ Tick
  BY <1>1, <1>3 DEF DeleteLoginSource, AddLoginSource, DeleteResults, Tick
<1>4. UNCHANGED tables \/ (\E v \in Versions : DeleteLoginSource(v)) \/ AddLoginSource \/ DeleteResults \/ Tick
  <2>1. ASSUME NEW c \in Clients,
               \/ \E l \in Logins : SubmitLogin(c, l)
               \/ \E code \in AllCodes : SubmitCode(c, code)
               \/ Serve(c) \/ StartTest(c) \/ LogOut(c) \/ TurnedAway(c)
        PROVE  UNCHANGED tables
    BY <2>1 DEF SubmitLogin, SubmitCode, Serve, SelectPerson, UpdateToken, InsertPerson, NextMember, StartTest,
                LogOut, TurnedAway
  <2>2. CASE UNCHANGED vars
    BY <2>2 DEF vars, tables
  <2> QED
    BY <2>1, <2>2 DEF Next
<1> QED
  BY <1>2, <1>3, <1>4

(* Whom a monitor finds: every member.                                     *)
LEMMA MembersCovered ==
  ASSUME NEW m \in Monitors, NEW l \in Logins, NEW code \in Codes[l], Member(l, code)
  PROVE  \E x \in Members(m) : x.login = l /\ x.code = code
<1>1. code \in AllCodes
  BY DEF AllCodes
<1>2. Wanted(l, code, sessions[l]) \in Members(m)
  <2>1. <<l, code>> \in {y \in Logins \X AllCodes :
                           /\ m \in Monitors /\ y[1] \notin Monitors \cup AlwaysNew
                           /\ y[2] \in Codes[y[1]]
                           /\ logins[y[1]] # Removed}
    BY <1>1 DEF Member
  <2> QED
    BY <2>1 DEF Members
<1>3. Wanted(l, code, sessions[l]).login = l /\ Wanted(l, code, sessions[l]).code = code
  BY DEF Wanted
<1> QED
  BY <1>2, <1>3

LEMMA MonitorsMembers ==
  ASSUME NEW l, NEW x \in Members(l)
  PROVE  l \in Monitors
BY DEF Members

(* Of the member that was done just now there is a row with a test.        *)
LEMMA DoneIsRegistered ==
  ASSUME Inv, NEW c \in Clients, NextMember(c), NEW p \in persons, ~req[c].own, SameKey(p, req[c]),
         NEW l, NEW code, req[c].login = l, req[c].code = code
  PROVE  Registered(l, code)'
<1>1. p \in persons' /\ Key(p) \in tests' /\ p.login = l /\ p.code = code
  BY DEF NextMember, WithTests, SameKey
<1> QED
  BY <1>1 DEF Registered, Key

LEMMA PreparedStays ==
  ASSUME Inv, MonitorInv, [Next]_vars, Undisturbed'
  PROVE  Prepared'
<1>0. Undisturbed /\ Prepared /\ UNCHANGED logins /\ deletions' = 0
  BY FileStays DEF Undisturbed, MonitorInv
<1>1. req \in [Clients -> {Idle} \cup Served]
  BY DEF Inv, Types, DeviceTypes
<1> SUFFICES ASSUME NEW c \in Clients, Busy(c)', ~req'[c].own,
                    NEW l \in Logins, NEW code \in Codes[l], Member(l, code)
             PROVE  \/ Registered(l, code)'
                    \/ \E x \in req'[c].todo : x.login = l /\ x.code = code
                    \/ req'[c].login = l /\ req'[c].code = code
  BY <1>0 DEF Prepared, Member
<1>2. CASE /\ Busy(c) /\ ~req[c].own
           /\ req'[c].todo = req[c].todo /\ req'[c].login = req[c].login /\ req'[c].code = req[c].code
  BY <1>0, <1>2, RegisteredStays DEF Prepared
<1>3. CASE req'[c] = req[c]
  BY <1>2, <1>3 DEF Busy
<1>4. CASE SelectPerson(c) \/ UpdateToken(c) \/ InsertPerson(c)
  <2>1. Busy(c) /\ req[c] \in Served
    BY <1>4, ServedNow DEF SelectPerson, UpdateToken, InsertPerson, Busy
  <2>2. \/ req'[c] = Idle
        \/ /\ req'[c].own = req[c].own /\ req'[c].todo = req[c].todo
           /\ req'[c].login = req[c].login /\ req'[c].code = req[c].code
    <3>1. CASE Refused(c)
      BY <1>1, <3>1 DEF Refused
    <3>2. CASE \E at \in {"select", "insert"} : req' = [req EXCEPT ![c].at = at]
      BY <1>1, <2>1, <3>2 DEF Served
    <3>3. CASE \E at, blank : req' = [req EXCEPT ![c].at = at, ![c].blank = blank]
      BY <1>1, <2>1, <3>3 DEF Served
    <3>4. CASE \E token : req' = [req EXCEPT ![c].at = "test", ![c].token = token]
      BY <1>1, <2>1, <3>4 DEF Served
    <3>5. ASSUME NEW t, req' = [req EXCEPT ![c].at = "test", ![c].token = IF req[c].own THEN t ELSE @]
          PROVE  \E token : req' = [req EXCEPT ![c].at = "test", ![c].token = token]
      <4>1. req' = [req EXCEPT ![c].at = "test", ![c].token = IF req[c].own THEN t ELSE req[c].token]
        BY <1>1, <2>1, <3>5 DEF Served
      <4> QED
        BY <4>1
    <3>6. CASE SelectPerson(c)
      <4>1. \/ Refused(c) \/ req' = [req EXCEPT ![c].at = "insert"]
            \/ \E p \in persons :
                 req' = [req EXCEPT ![c].at = IF req[c].own \/ p.token = None THEN "update" ELSE "test",
                                    ![c].blank = (p.token = None)]
        BY <3>6 DEF SelectPerson
      <4> QED
        BY <3>1, <3>2, <3>3, <4>1
    <3>7. CASE UpdateToken(c)
      BY <3>4, <3>5, <3>7 DEF UpdateToken
    <3>8. CASE InsertPerson(c)
      BY <3>1, <3>2, <3>4, <3>5, <3>8 DEF InsertPerson
    <3> QED
      BY <1>4, <3>6, <3>7, <3>8
  <2> QED
    BY <1>2, <2>1, <2>2, IdleIsIdle DEF Busy
<1>5. CASE NextMember(c)
  <2> DEFINE r == req[c]
             todo == IF r.own THEN Members(r.login) ELSE r.todo
  <2>0. Busy(c) /\ r \in Served
    BY <1>5, ServedNow DEF NextMember, Busy
  <2>1. ~Refused(c)
    BY <1>1, IdleIsIdle DEF Refused, Busy
  <2>2. PICK x \in todo :
          req' = [req EXCEPT ![c] =
                    Request(FALSE,
                            [x EXCEPT !.session = IF x.session # None THEN x.session ELSE LoginSession(x.login)],
                            {IF y.login = x.login
                               THEN [y EXCEPT !.session = IF x.session # None THEN x.session ELSE LoginSession(x.login)]
                               ELSE y : y \in todo \ {x}}, r.token)]
    BY <1>5, <2>1 DEF NextMember
  <2> DEFINE t == IF x.session # None THEN x.session ELSE LoginSession(x.login)
  <2>3. req' = [req EXCEPT ![c] =
                   Request(FALSE, [x EXCEPT !.session = t],
                           {IF y.login = x.login THEN [y EXCEPT !.session = t] ELSE y : y \in todo \ {x}}, r.token)]
    BY <2>2
  <2> HIDE DEF t
  <2>4. todo \subseteq Want
    BY <2>0, MembersType DEF Inv, Served
  <2>5. /\ req'[c].login = x.login /\ req'[c].code = x.code
        /\ req'[c].todo = {IF y.login = x.login THEN [y EXCEPT !.session = t] ELSE y : y \in todo \ {x}}
    BY <1>1, <2>3, <2>4 DEF Request, Want
  <2>6. ASSUME NEW y \in todo, y.login = l, y.code = code
        PROVE  \/ \E z \in req'[c].todo : z.login = l /\ z.code = code
               \/ req'[c].login = l /\ req'[c].code = code
    <3>1. CASE y = x
      BY <2>5, <2>6, <3>1
    <3>2. CASE y # x
      <4> DEFINE z == IF y.login = x.login THEN [y EXCEPT !.session = t] ELSE y
      <4>1. z \in req'[c].todo
        BY <2>5, <3>2
      <4>2. z.login = l /\ z.code = code
        BY <2>4, <2>6 DEF Want
      <4> QED
        BY <4>1, <4>2
    <3> QED
      BY <3>1, <3>2
  <2>7. CASE r.own
    <3>1. r.login \in Monitors
      BY <2>2, <2>7, MonitorsMembers
    <3>2. PICK y \in Members(r.login) : y.login = l /\ y.code = code
      BY <3>1, MembersCovered
    <3>3. y \in todo
      BY <2>7
    <3> QED
      BY <2>6, <3>2, <3>3
  <2>8. CASE ~r.own
    <3>1. \/ Registered(l, code)
          \/ \E y \in r.todo : y.login = l /\ y.code = code
          \/ r.login = l /\ r.code = code
      BY <1>0, <2>0, <2>8 DEF Prepared
    <3>2. CASE Registered(l, code)
      BY <1>0, <3>2, RegisteredStays
    <3>3. CASE \E y \in r.todo : y.login = l /\ y.code = code
      BY <2>6, <2>8, <3>3
    <3>4. CASE r.login = l /\ r.code = code
      <4>1. PICK p \in persons : SameKey(p, r)
        BY <1>5, <2>1, <2>8 DEF NextMember
      <4> QED
        BY <1>5, <2>8, <3>4, <4>1, DoneIsRegistered
    <3> QED
      BY <3>1, <3>2, <3>3, <3>4
  <2> QED
    BY <2>7, <2>8
<1>6. ASSUME NEW m \in Logins, SubmitLogin(c, m) PROVE req'[c] = req[c]
  <2>1. Request(TRUE, Wanted(m, NoCode, LoginSession(m)), {}, None).own
    BY DEF Request
  <2> QED
    BY <1>1, <1>6, <2>1 DEF SubmitLogin
<1>7. ASSUME NEW k \in AllCodes PROVE ~SubmitCode(c, k)
  <2>1. Request(TRUE, Wanted(auth[c].login, k, auth[c].token), {}, None).own
    BY DEF Request
  <2> QED
    BY <1>1, <2>1 DEF SubmitCode
<1>8. ASSUME StartTest(c) \/ LogOut(c) \/ TurnedAway(c) PROVE req'[c] = req[c]
  BY <1>8 DEF StartTest, LogOut, TurnedAway
<1>9. ASSUME NEW d \in Clients \ {c},
             \/ \E m \in Logins : SubmitLogin(d, m)
             \/ \E k \in AllCodes : SubmitCode(d, k)
             \/ Serve(d) \/ StartTest(d) \/ LogOut(d) \/ TurnedAway(d)
      PROVE  req'[c] = req[c]
  BY <1>1, <1>9 DEF SubmitLogin, SubmitCode, Serve, SelectPerson, UpdateToken, InsertPerson, NextMember, Refused,
                    StartTest, LogOut, TurnedAway
<1>10. CASE (\E v \in Versions : DeleteLoginSource(v)) \/ AddLoginSource \/ DeleteResults \/ Tick \/ UNCHANGED vars
  BY <1>3, <1>10 DEF DeleteLoginSource, AddLoginSource, DeleteResults, Tick, vars
<1> QED
  BY <1>3, <1>4, <1>5, <1>6, <1>7, <1>8, <1>9, <1>10 DEF Next, Serve

(* When a monitor's login is answered every member has a person session    *)
(* with a test, whoever logs in meanwhile.                                 *)
THEOREM MembersCorrect == Spec => MonitorRegistersEveryMember
<1>1. Init => MonitorInv
  BY IdleIsIdle DEF Init, MonitorInv, OwnToken, Prepared, Busy
<1>2. Inv /\ MonitorInv /\ [Next]_vars => MonitorInv'
  BY OwnTokenStays, FileStays, PreparedStays DEF MonitorInv
<1>3. ASSUME Inv, MonitorInv, [Next]_vars, NEW c \in Clients, NEW p \in persons,
             auth[c] = None, auth'[c] # None, auth'[c].token = p.token, p.login \in Monitors, req[c] # Idle,
             uploads = 0, deletions = 0,
             NEW l \in Logins \ (Monitors \cup AlwaysNew), NEW code \in Codes[l], logins[l] # Removed
      PROVE  \E q \in persons' : q.login = l /\ q.code = code /\ Key(q) \in tests'
  <2>0. auth \in [Clients -> {None} \cup Kept] /\ Member(l, code)
    BY <1>3 DEF Inv, Types, DeviceTypes, Member
  <2>1. NextMember(c) /\ Answered(c, req[c].token)
    <3>1. auth' # auth /\ ~(\E m \in Logins : SubmitLogin(c, m)) /\ ~LogOut(c) /\ ~TurnedAway(c)
      BY <1>3, <2>0 DEF SubmitLogin, LogOut, TurnedAway, Forget
    <3>2. ASSUME NEW d \in Clients \ {c},
                 (\E m \in Logins : SubmitLogin(d, m)) \/ NextMember(d) \/ LogOut(d) \/ TurnedAway(d)
          PROVE  auth'[c] = auth[c]
      BY <2>0, <3>2 DEF SubmitLogin, NextMember, Answered, Keep, LogOut, TurnedAway, Forget
    <3>3. ASSUME NEW d \in Clients,
                 \/ \E k \in AllCodes : SubmitCode(d, k)
                 \/ SelectPerson(d) \/ UpdateToken(d) \/ InsertPerson(d) \/ StartTest(d)
          PROVE  auth' = auth
      BY <3>3 DEF SubmitCode, SelectPerson, UpdateToken, InsertPerson, StartTest
    <3>4. CASE (\E v \in Versions : DeleteLoginSource(v)) \/ AddLoginSource \/ DeleteResults \/ Tick \/ UNCHANGED vars
      BY <3>1, <3>4 DEF DeleteLoginSource, AddLoginSource, DeleteResults, Tick, vars
    <3>5. NextMember(c)
      BY <1>3, <3>1, <3>2, <3>3, <3>4 DEF Next, Serve
    <3> QED
      BY <3>1, <3>5 DEF NextMember
  <2> DEFINE r == req[c]
             todo == IF r.own THEN Members(r.login) ELSE r.todo
  <2>2. /\ ~(~r.own /\ {q \in persons : ~r.own /\ SameKey(q, r)} = {})
        /\ todo = {} /\ r.at = "test" /\ UNCHANGED persons
    <3>1. auth' # auth
      BY <1>3
    <3> QED
      BY <2>1, <3>1 DEF NextMember
  <2>3. Busy(c) /\ p.token = r.token
    BY <1>3, <2>0, <2>1, <2>2 DEF Answered, Keep, Busy
  <2>4. CASE r.own
    <3>1. r.login \in Monitors
      BY <1>3, <2>2, <2>3, <2>4 DEF MonitorInv, OwnToken
    <3> QED
      BY <2>0, <2>2, <2>4, <3>1, MembersCovered
  <2>5. CASE ~r.own
    <3>1. \/ Registered(l, code)
          \/ r.login = l /\ r.code = code
      BY <1>3, <2>0, <2>2, <2>3, <2>5 DEF MonitorInv, Undisturbed, Prepared
    <3>2. PICK q \in persons : SameKey(q, r)
      BY <2>2, <2>5
    <3>3. r.login = l /\ r.code = code => Registered(l, code)'
      BY <1>3, <2>1, <2>5, <3>2, DoneIsRegistered
    <3>4. UNCHANGED persons /\ tests \subseteq tests'
      BY <2>1 DEF NextMember, WithTests
    <3> QED
      BY <3>1, <3>3, <3>4 DEF Registered, Key
  <2> QED
    BY <2>4, <2>5
<1>4. Inv /\ MonitorInv /\ [Next]_vars =>
        [\A c \in Clients : \A p \in persons :
           /\ auth[c] = None /\ auth'[c] # None /\ auth'[c].token = p.token
           /\ p.login \in Monitors /\ req[c] # Idle
           /\ uploads = 0 /\ deletions = 0
           => \A l \in Logins \ (Monitors \cup AlwaysNew) : \A code \in Codes[l] :
                logins[l] # Removed =>
                  \E q \in persons' : q.login = l /\ q.code = code /\ Key(q) \in tests']_vars
  BY <1>3
<1> QED
  BY <1>1, <1>2, <1>4, InvCorrect, PTL DEF Spec, MonitorRegistersEveryMember

===============================================================================
