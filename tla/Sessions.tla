------------------------------- MODULE Sessions -------------------------------
(*************************************************************************)
(* Logins, login sessions and person sessions of one group of testees    *)
(* and its monitor: the two-step login of several devices, the sessions  *)
(* a monitor's login prepares for the members of its group, log-out, the *)
(* deletion of results, and the upload of a Testtakers file while all of *)
(* this is going on.                                                     *)
(*                                                                       *)
(* A request is served by a PHP process of its own and consists of       *)
(* several SQL statements without a transaction; every statement is one  *)
(* step here, so that requests interleave between them.                  *)
(*                                                                       *)
(* Of tokens and ids, which are random or ever increasing, only what     *)
(* tells them apart is kept: a login session is identified by its login  *)
(* and by how often the results have been deleted before, and a person   *)
(* token is one that nobody holds.                                       *)
(*************************************************************************)
EXTENDS Naturals, FiniteSets

CONSTANTS
  Clients,       \* devices (browsers)
  Logins,        \* the logins of the group
  Monitors,      \* those of them in mode monitor-group
  AlwaysNew,     \* those in a mode with ALWAYS_NEW_SESSION, e.g. run-hot-restart
  Codes,         \* login -> the codes of its booklets
  NoCode,        \* the one code of a login without codes
  First,         \* the Testtakers file in force at first
  Versions,      \* Testtakers files that may be uploaded: login -> entry or Removed
  Removed,       \* a login that is not in the table logins
  None,
  Unheld,        \* any token that was generated and given to nobody
  MaxClock,      \* bound: time
  MaxTokens,     \* bound: person tokens
  MaxNew,        \* bound: sessions of the logins in AlwaysNew
  MaxChanges     \* bound: uploads of the file and deletions of the group's results

ASSUME LoginsAssumption ==
  /\ Monitors \subseteq Logins /\ AlwaysNew \subseteq Logins
  /\ Monitors \cap AlwaysNew = {}
  /\ \A m \in Monitors : Codes[m] = {NoCode}
Entry == [validTo : 0..MaxClock, validFor : 0..MaxClock]
Files == [Logins -> Entry \cup {Removed}]

ASSUME FilesAssumption ==
  /\ First \in Files /\ Versions \subseteq Files /\ Removed \notin Entry
  /\ None \notin Files
ASSUME TokensAssumption == None # Unheld /\ {None, Unheld} \cap Nat = {}
ASSUME BoundsAssumption ==
  MaxClock \in Nat \ {0} /\ {MaxTokens, MaxNew, MaxChanges} \subseteq Nat

VARIABLES
  clock,       \* the time; 0 as a limit means none
  logins,      \* table logins: login -> its limits, or Removed
  upload,      \* the file whose logins are deleted and not yet inserted, or None
  sessions,    \* table login_sessions: login -> its id and token, or None
  persons,     \* table person_sessions
  tests,       \* table tests: the person sessions that have one
  auth,        \* client -> what it keeps in its local storage
  req,         \* client -> its login request that is being served
  uploads, deletions

vars == <<clock, logins, upload, sessions, persons, tests, auth, req, uploads, deletions>>

Tokens == 1..MaxTokens
AllCodes == UNION {Codes[l] : l \in Logins}
Idle == [at |-> "idle"]

(* Token::generate: a person token that nobody holds *)
UsedTokens ==
  {p.token : p \in persons}
    \cup {auth[c].token : c \in {d \in Clients : auth[d] # None}}
    \cup {req[c].token : c \in {d \in Clients : req[d].at # "idle"}}
FreshToken == CHOOSE t \in Tokens \ UsedTokens : TRUE
TokenIsLeft == Tokens \ UsedTokens # {}

(* what identifies a row of person_sessions: the login session, the code and, *)
(* in a mode that always opens a new session, a random suffix                  *)
Key(p) == <<p.login, p.session, p.code, p.nr>>

(***** Validity **********************************************************)

(* TimeStamp::isExpired; a limit of 0 is none *)
Expired(limit) == limit > 0 /\ limit < clock

(* TimeStamp::expirationFromNow *)
ExpirationFromNow(e) ==
  LET limits == {e.validTo, IF e.validFor = 0 THEN 0 ELSE clock + e.validFor} \ {0}
  IN  IF limits = {} THEN 0 ELSE CHOOSE x \in limits : \A y \in limits : x <= y

(* SessionDAO::getToken as RequireToken calls it: the token is that of a row,  *)
(* its login is still there, and its limit has not passed                      *)
Accepted(a) ==
  IF a.kind = "login"
    THEN /\ sessions[a.login] = a.token
         /\ logins[a.login] # Removed
         /\ ~Expired(logins[a.login].validTo)
    ELSE \E p \in persons : /\ p.token = a.token
                            /\ logins[p.login] # Removed
                            /\ ~Expired(p.until)

(* RequireToken: a client's request is let in *)
Authorized(c) == auth[c] # None /\ Accepted(auth[c])

(* SessionDAO::getLogin with the right password, and in time *)
MayLogIn(l) == logins[l] # Removed /\ ~Expired(logins[l].validTo)

(* SessionDAO::getLoginSessionByToken, getPersonSessionByToken: what they need to *)
(* find; a person session depends on its own limit and on that of its login        *)
LoginSessionByToken(a) == sessions[a.login] = a.token /\ MayLogIn(a.login)
PersonSessionByToken(a) ==
  \E p \in persons : p.token = a.token /\ ~Expired(p.until) /\ MayLogIn(p.login)

(* SessionController::getSession, by which every page that needs a session begins *)
Readable(a) == IF a.kind = "login" THEN LoginSessionByToken(a) ELSE PersonSessionByToken(a)

(***** Logging in ********************************************************)

Init ==
  /\ clock = 1
  /\ logins = First /\ upload = None
  /\ sessions = [l \in Logins |-> None]
  /\ persons = {} /\ tests = {}
  /\ auth = [c \in Clients |-> None]
  /\ req = [c \in Clients |-> Idle]
  /\ uploads = 0 /\ deletions = 0

tables == <<clock, logins, upload, uploads, deletions>>

(* A person session is wanted for a login, one of its codes, its login session *)
(* and its row of the table logins as it was read (in the read-th file).        *)
Wanted(l, code, session) ==
  [login |-> l, code |-> code, session |-> session, data |-> logins[l], read |-> uploads]

(* ... by the login itself (own), or by a monitor, who prepares it and others   *)
(* (todo); token is the one the request will be answered with                   *)
Request(own, w, todo, token) ==
  [at |-> "select", login |-> w.login, code |-> w.code, session |-> w.session, data |-> w.data, read |-> w.read,
   own |-> own, todo |-> todo, token |-> token, blank |-> FALSE]

(* SessionDAO::createLoginSession: an existing login session keeps its token *)
LoginSession(l) == IF sessions[l] = None THEN deletions ELSE sessions[l]

(* setAuthData and quit: what the browser keeps *)
Keep(c, a) == auth' = [auth EXCEPT ![c] = a]
Forget(c) == auth' = [auth EXCEPT ![c] = None]

(* SessionController::createLoginSession; without codes the person session follows *)
SubmitLogin(c, l) ==
  /\ auth[c] = None /\ req[c] = Idle
  /\ MayLogIn(l)
  /\ LET t == LoginSession(l)
     IN  /\ sessions' = [sessions EXCEPT ![l] = t]
         /\ IF Codes[l] = {NoCode}
              THEN /\ req' = [req EXCEPT ![c] = Request(TRUE, Wanted(l, NoCode, t), {}, None)]
                   /\ UNCHANGED auth
              ELSE /\ Keep(c, [kind |-> "login", login |-> l, token |-> t])
                   /\ UNCHANGED req
  /\ UNCHANGED <<tables, persons, tests>>

(* SessionController::createPersonSession *)
SubmitCode(c, code) ==
  /\ Authorized(c) /\ req[c] = Idle
  /\ auth[c].kind = "login" /\ LoginSessionByToken(auth[c])
  /\ code \in Codes[auth[c].login]
  /\ req' = [req EXCEPT ![c] = Request(TRUE, Wanted(auth[c].login, code, auth[c].token), {}, None)]
  /\ UNCHANGED <<tables, sessions, persons, tests, auth>>

(* the rows that constraint unique_person_session and the select take for the same *)
SameKey(p, r) ==
  <<p.login, p.session, p.code>> = <<r.login, r.session, r.code>> /\ r.login \notin AlwaysNew

(* the request is answered with an error, and the login page shows it *)
Refused(c) == req' = [req EXCEPT ![c] = Idle]

(* Mutant of SelectPerson: the monitor's request renews every token, as it did before 14.14.0. *)
SelectPersonAndRenew(c) ==
  /\ req[c].at = "select"
  /\ LET r == req[c]
         found == {p \in persons : SameKey(p, r)}
     IN  \/ /\ r.own /\ Expired(r.data.validTo)
            /\ Refused(c)
         \/ /\ ~(r.own /\ Expired(r.data.validTo))
            /\ found = {}
            /\ req' = [req EXCEPT ![c].at = "insert"]
         \/ \E p \in found :
              /\ ~(r.own /\ Expired(r.data.validTo))
              /\ IF r.own /\ Expired(p.until)
                   THEN Refused(c)
                   ELSE req' = [req EXCEPT ![c].at = "update",
                                           ![c].blank = (p.token = None)]
  /\ UNCHANGED <<tables, sessions, persons, tests, auth>>

(* SessionDAO::createOrUpdatePersonSession up to and including its select; the *)
(* session of a member is not renewed if it has a token, and may be expired.    *)
(* A login that always gets a new session skips the select.                     *)
SelectPerson(c) ==
  /\ req[c].at = "select"
  /\ LET r == req[c]
         found == {p \in persons : SameKey(p, r)}
     IN  \/ /\ r.own /\ Expired(r.data.validTo)
            /\ Refused(c)
         \/ /\ ~(r.own /\ Expired(r.data.validTo))
            /\ found = {}
            /\ req' = [req EXCEPT ![c].at = "insert"]
         \/ \E p \in found :
              /\ ~(r.own /\ Expired(r.data.validTo))
              /\ IF r.own /\ Expired(p.until)
                   THEN Refused(c)
                   ELSE req' = [req EXCEPT ![c].at = IF r.own \/ p.token = None THEN "update" ELSE "test",
                                           ![c].blank = (p.token = None)]
  /\ UNCHANGED <<tables, sessions, persons, tests, auth>>

(* ... its update: the new token takes the place of the old one, if the row is still there *)
UpdateToken(c) ==
  /\ req[c].at = "update" /\ TokenIsLeft
  /\ LET t == IF req[c].own THEN FreshToken ELSE Unheld
     IN  /\ persons' = {IF SameKey(p, req[c]) THEN [p EXCEPT !.token = t] ELSE p : p \in persons}
         /\ req' = [req EXCEPT ![c].at = "test", ![c].token = IF req[c].own THEN t ELSE @]
  /\ UNCHANGED <<tables, sessions, tests, auth>>

(* Mutant of InsertPerson: without the constraint unique_person_session. *)
InsertPersonTwice(c) ==
  /\ req[c].at = "insert" /\ TokenIsLeft
  /\ LET r == req[c]
         t == IF r.own THEN FreshToken ELSE Unheld
         others == Cardinality({p \in persons : p.login = r.login})
     IN  CASE sessions[r.login] # r.session -> Refused(c) /\ UNCHANGED persons
           [] OTHER ->
                /\ r.login \in AlwaysNew => others < MaxNew
                /\ persons' = persons \cup
                     {[login |-> r.login, session |-> r.session, code |-> r.code,
                       nr |-> IF r.login \in AlwaysNew THEN others + 1 ELSE 0,
                       token |-> t, until |-> ExpirationFromNow(r.data), read |-> r.read]}
                /\ req' = [req EXCEPT ![c].at = "test", ![c].token = IF r.own THEN t ELSE @]
  /\ UNCHANGED <<tables, sessions, tests, auth>>

(* ... and its insert: the login session may have been deleted meanwhile, or    *)
(* another request been faster; then the function is called anew                *)
InsertPerson(c) ==
  /\ req[c].at = "insert" /\ TokenIsLeft
  /\ LET r == req[c]
         t == IF r.own THEN FreshToken ELSE Unheld
         others == Cardinality({p \in persons : p.login = r.login})
     IN  CASE sessions[r.login] # r.session -> Refused(c) /\ UNCHANGED persons
           [] \E p \in persons : SameKey(p, r) ->
                req' = [req EXCEPT ![c].at = "select"] /\ UNCHANGED persons
           [] OTHER ->
                /\ r.login \in AlwaysNew => others < MaxNew
                /\ persons' = persons \cup
                     {[login |-> r.login, session |-> r.session, code |-> r.code,
                       nr |-> IF r.login \in AlwaysNew THEN others + 1 ELSE 0,
                       token |-> t, until |-> ExpirationFromNow(r.data), read |-> r.read]}
                /\ req' = [req EXCEPT ![c].at = "test", ![c].token = IF r.own THEN t ELSE @]
  /\ UNCHANGED <<tables, sessions, tests, auth>>

(* Mutant of Members: an inner join leaves out who never logged in. *)
MembersWithSession(l) ==
  {Wanted(x[1], x[2], sessions[x[1]]) :
     x \in {y \in Logins \X AllCodes :
              /\ l \in Monitors /\ y[1] \notin Monitors \cup AlwaysNew
              /\ y[2] \in Codes[y[1]]
              /\ logins[y[1]] # Removed /\ sessions[y[1]] # None}}

(* SessionDAO::getDependantSessions and the conditions of registerDependantSessions: *)
(* the members a monitor prepares sessions for                                       *)
Members(l) ==
  {Wanted(x[1], x[2], sessions[x[1]]) :
     x \in {y \in Logins \X AllCodes :
              /\ l \in Monitors /\ y[1] \notin Monitors \cup AlwaysNew
              /\ y[2] \in Codes[y[1]]
              /\ logins[y[1]] # Removed}}

(* TestDAO::getOrCreateTest: a test that is there is left as it is *)
WithTests(keys) == tests' = tests \cup keys

(* the login is answered, and the browser keeps the person's session *)
Answered(c, token) == Keep(c, [kind |-> "person", token |-> token])

(* After the person session: the test of a member, if it has none yet, then the *)
(* next member; with nobody left the login is answered.                         *)
NextMember(c) ==
  /\ req[c].at = "test"
  /\ LET r == req[c]
         todo == IF r.own THEN Members(r.login) ELSE r.todo
         member == {p \in persons : ~r.own /\ SameKey(p, r)}
         lost == ~r.own /\ member = {}
     IN  /\ WithTests({Key(p) : p \in member})
         /\ \/ /\ lost
               /\ Refused(c)
               /\ UNCHANGED <<sessions, auth>>
            \/ /\ ~lost /\ todo = {}
               /\ Refused(c)
               /\ Answered(c, r.token)
               /\ UNCHANGED sessions
            \/ /\ ~lost
               /\ \E x \in todo :
                    LET t == IF x.session # None THEN x.session ELSE LoginSession(x.login)
                        rest == {IF y.login = x.login THEN [y EXCEPT !.session = t] ELSE y : y \in todo \ {x}}
                    IN  /\ sessions' = IF x.session = None THEN [sessions EXCEPT ![x.login] = t] ELSE sessions
                        /\ req' = [req EXCEPT ![c] = Request(FALSE, [x EXCEPT !.session = t], rest, r.token)]
               /\ UNCHANGED auth
  /\ UNCHANGED <<tables, persons>>

(***** Using the session *************************************************)

(* TestController::put: the test of a person who starts it *)
StartTest(c) ==
  /\ Authorized(c) /\ auth[c].kind = "person"
  /\ \E p \in persons :
       /\ p.token = auth[c].token /\ p.login \notin Monitors
       /\ Key(p) \notin tests /\ WithTests({Key(p)})
  /\ UNCHANGED <<tables, sessions, persons, auth, req>>

(* SessionDAO::deletePersonToken *)
WithoutToken(t) == {IF p.token = t THEN [p EXCEPT !.token = None] ELSE p : p \in persons}

(* mds.logOut and SessionController::deleteSession: the row stays, without token; *)
(* the token of a login session is constant                                       *)
LogOut(c) ==
  /\ Authorized(c) /\ req[c] = Idle
  /\ persons' = IF auth[c].kind = "person" THEN WithoutToken(auth[c].token) ELSE persons
  /\ Forget(c)
  /\ UNCHANGED <<tables, sessions, tests, req>>

(* Any request with a token that is not accepted, or not good for the session   *)
(* any longer, is answered with 403 or 410, and closing the error's dialog       *)
(* forgets the session.                                                          *)
TurnedAway(c) ==
  /\ auth[c] # None /\ req[c] = Idle
  /\ ~(Accepted(auth[c]) /\ Readable(auth[c]))
  /\ Forget(c)
  /\ UNCHANGED <<tables, sessions, persons, tests, req>>

(***** The file and the results *******************************************)

(* WorkspaceDAO::updateLoginSource, its delete: the logins of the former file go *)
DeleteLoginSource(v) ==
  /\ upload = None /\ uploads + deletions < MaxChanges
  /\ upload' = v
  /\ logins' = [l \in Logins |-> Removed]
  /\ uploads' = uploads + 1
  /\ UNCHANGED <<clock, sessions, persons, tests, auth, req, deletions>>

(* updateValidUntilInPersonSession: the limit of every person session is its login's *)
FollowFile(file) ==
  {IF file[p.login] = Removed THEN p
     ELSE [p EXCEPT !.until = file[p.login].validTo, !.read = uploads] : p \in persons}

(* Mutant of AddLoginSource: the open sessions keep their limit. *)
AddLoginSourceOnly ==
  /\ upload # None
  /\ logins' = upload /\ upload' = None
  /\ persons' = {IF upload[p.login] = Removed THEN p
                   ELSE [p EXCEPT !.read = uploads] : p \in persons}
  /\ UNCHANGED <<clock, sessions, tests, auth, req, uploads, deletions>>

(* ... its insert, and what follows for the person sessions *)
AddLoginSource ==
  /\ upload # None
  /\ logins' = upload /\ upload' = None
  /\ persons' = FollowFile(upload)
  /\ UNCHANGED <<clock, sessions, tests, auth, req, uploads, deletions>>

(* AdminDAO::deleteResultData: the group's row, and by cascade its login        *)
(* sessions, person sessions and tests                                          *)
DeleteResults ==
  /\ uploads + deletions < MaxChanges
  /\ deletions' = deletions + 1
  /\ sessions' = [l \in Logins |-> None]
  /\ persons' = {} /\ tests' = {}
  /\ UNCHANGED <<clock, logins, upload, auth, req, uploads>>

Tick ==
  /\ clock < MaxClock
  /\ clock' = clock + 1
  /\ UNCHANGED <<logins, upload, sessions, persons, tests, auth, req, uploads, deletions>>

Serve(c) == SelectPerson(c) \/ UpdateToken(c) \/ InsertPerson(c) \/ NextMember(c)

Next ==
  \/ \E c \in Clients :
       \/ \E l \in Logins : SubmitLogin(c, l)
       \/ \E code \in AllCodes : SubmitCode(c, code)
       \/ Serve(c)
       \/ StartTest(c) \/ LogOut(c) \/ TurnedAway(c)
  \/ \E v \in Versions : DeleteLoginSource(v)
  \/ AddLoginSource \/ DeleteResults \/ Tick

Spec == Init /\ [][Next]_vars

(***** Properties ********************************************************)

Person == [login : Logins, session : Nat, code : AllCodes, nr : 0..MaxNew,
           token : Tokens \cup {None, Unheld}, until : 0..(2 * MaxClock), read : 0..MaxChanges]

TypeOK ==
  /\ clock \in 1..MaxClock /\ uploads \in 0..MaxChanges /\ deletions \in 0..MaxChanges
  /\ logins \in Versions \cup {First} \/ upload # None
  /\ \A l \in Logins : sessions[l] = None \/ sessions[l] \in 0..MaxChanges
  /\ persons \subseteq Person
  /\ tests \subseteq {Key(p) : p \in persons}
  /\ \A c \in Clients : req[c].at \in {"idle", "select", "update", "insert", "test"}

Holds(c, p) == auth[c] # None /\ auth[c].kind = "person" /\ auth[c].token = p.token

(* Two devices are never in the session of one person: whoever logs in last    *)
(* has it (createOrUpdatePersonSession renews the token, and the constraint    *)
(* unique_person_session keeps two requests from opening two sessions).         *)
OneDevice ==
  \A c, d \in Clients : \A p, q \in persons :
    c # d /\ Holds(c, p) /\ Holds(d, q) =>
      \/ <<p.login, p.code>> # <<q.login, q.code>>
      \/ p.login \in AlwaysNew /\ p # q

(* The tables are consistent, and with them the devices: one device per person. *)
OneDevicePerPerson == TypeOK /\ OneDevice

(* A device loses the session it holds only if it logs out, if the same person *)
(* logs in anew, if the results are deleted - or to a monitor who read the row *)
(* while it was without a token. A monitor's login never ends a session it has *)
(* seen (registerDependantSessions with forceUpdateToken = false).              *)
SessionsEndForAReason ==
  [][\A c \in Clients : \A p \in persons :
       Holds(c, p) /\ ~(\E q \in persons' : q.token = p.token) =>
         \/ auth'[c] = None
         \/ persons' = {}
         \/ \E d \in Clients \ {c} :
              /\ req[d].at = "update" /\ req'[d].at = "test"
              /\ SameKey(p, req[d])
              /\ req[d].own \/ req[d].blank]_vars

(* When a monitor's login is answered, every member of the group has a person  *)
(* session with a test for each code, so that the monitor can show and lock it *)
(* before the testee logs in (as far as nobody deleted anything meanwhile).     *)
MonitorRegistersEveryMember ==
  [][\A c \in Clients : \A p \in persons :
       /\ auth[c] = None /\ auth'[c] # None /\ auth'[c].token = p.token
       /\ p.login \in Monitors /\ req[c] # Idle
       /\ uploads = 0 /\ deletions = 0
       => \A l \in Logins \ (Monitors \cup AlwaysNew) : \A code \in Codes[l] :
            logins[l] # Removed =>
              \E q \in persons' : q.login = l /\ q.code = code /\ Key(q) \in tests']_vars

(* Once a file is in, every person session ends when its login does, also those *)
(* opened before the upload (updateValidUntilInPersonSession) - unless it was    *)
(* opened by a request that had read the file before.                            *)
SessionsFollowTheFile ==
  upload = None =>
    \A p \in persons : p.read = uploads /\ logins[p.login] # Removed /\ logins[p.login].validTo > 0
      => p.until \in 1..logins[p.login].validTo
===============================================================================
