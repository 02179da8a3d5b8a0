---------------------------- MODULE WorkspaceFiles ----------------------------
(*************************************************************************)
(* The files of a workspace: uploads and deletions by several admins,    *)
(* the folder and the database that both have to be kept in line, the    *)
(* lock that keeps requests apart, crashes, and the start of the         *)
(* backend, which reads the folder anew if its hash has changed.         *)
(*                                                                       *)
(* A file's content is the set of ids it needs: a Unit (level 1) needs   *)
(* Resources (0), a Booklet (2) Units, a Testtakers file (3) Booklets.   *)
(*************************************************************************)
EXTENDS Naturals, FiniteSets

CONSTANTS
  Admins,
  Documents,     \* files that may be uploaded: [level, name, id, needs]
  Uploads,       \* the sets of them that an admin uploads at once
  Deletions,     \* the sets of files that an admin selects for deletion
  First,         \* the documents in the folder at first, a valid workspace
  None,
  MaxRequests,   \* bound: requests
  MaxFaults      \* bound: crashes and fatal errors

Levels == 0..3
Key(d) == <<d.level, d.name>>
SameId(d, e) == d.level = e.level /\ d.id = e.id

ASSUME DocumentsAssumption ==
  /\ \A d \in Documents : d.level \in Levels /\ (d.level = 0 => d.needs = {})
  /\ First \subseteq Documents /\ Uploads \subseteq SUBSET Documents
  /\ \A d, e \in First : d # e => Key(d) # Key(e) /\ ~SameId(d, e)
  /\ \A S \in Uploads : \A d, e \in S : d # e => Key(d) # Key(e) /\ ~SameId(d, e)
  /\ Deletions \subseteq SUBSET {Key(d) : d \in Documents}
ASSUME BoundsAssumption == {MaxRequests, MaxFaults} \subseteq Nat /\ None \notin Nat

VARIABLES
  folder,     \* the documents in the sub-folders of the workspace
  written,    \* the modification times of its files: the request that wrote the last one
  files,      \* table files: [doc, valid, duplicate], the latter under an id of its own
  relations,  \* table file_relations: <<key of the subject, key of the object>>
  logins,     \* the sources (keys of Testtakers files) of the rows in table logins
  hash,       \* workspaces.workspace_hash
  lock,       \* the file .lock: None, or its time stamp (the number of the request)
  aged,       \* the lock is older than 12 minutes
  req,        \* admin -> the request that is being served
  up,         \* the backend is running
  refused,    \* since the folder was last read, the ids of the Resources that were not stored as
              \* there was a file of that name with another id
  clean,      \* since the folder was last read, no two requests were served at once and none failed
  requests, faults

vars == <<folder, written, files, relations, logins, hash, lock, aged, req, up, refused, clean, requests, faults>>
disk == <<folder, written>>
database == <<files, relations, logins>>

Idle == [at |-> "idle"]
AtWork == {a \in Admins : req[a].at \notin {"idle", "lock"}}
Keys(rows) == {Key(r.doc) : r \in rows}
Row(d, ok, dup) == [doc |-> d, valid |-> ok, duplicate |-> dup]

(***** What validation says *********************************************)

(* The documents of level k among S whose needs are among those below. *)
ValidAt(S, k, below) == {d \in S : d.level = k /\ d.needs \subseteq {e.id : e \in below}}

(* The documents among S that are valid when S is the whole workspace. S has    *)
(* no two documents with one id (WorkspaceCache::validate, crossValidate of the  *)
(* file classes: what a file needs is there and valid).                          *)
Valid(S) ==
  LET resources == ValidAt(S, 0, {})
      units == ValidAt(S, 1, resources)
      booklets == ValidAt(S, 2, units)
  IN  resources \cup units \cup booklets \cup ValidAt(S, 3, booklets)

(* the relations of a document to what it needs among S *)
RelationsOf(d, S) ==
  {<<Key(d), Key(e)>> : e \in {f \in S : f.level + 1 = d.level /\ f.id \in d.needs}}

(* the database for a workspace of the documents S, of which dups are duplicates *)
FilesFor(S, dups) ==
  {Row(d, d \in Valid(S \ dups), d \in dups) : d \in S}
RelationsFor(S) == UNION {RelationsOf(d, S) : d \in Valid(S)}

(* Mutant of HashOf: hidden files are left out. *)
HashOfVisible(f, w, l) == <<f, w>>

(* Workspace::getHashOfAllFiles: all files of the folder, their times, and the lock *)
HashOf(f, w, l) == <<f, w, l>>

Init ==
  /\ folder = First /\ written = 0
  /\ files = FilesFor(First, {})
  /\ relations = RelationsFor(First)
  /\ logins = {Key(d) : d \in {e \in First : e.level = 3}}
  /\ hash = HashOf(First, 0, None)
  /\ lock = None /\ aged = FALSE
  /\ req = [a \in Admins |-> Idle]
  /\ up = TRUE /\ refused = {} /\ clean = TRUE
  /\ requests = 0 /\ faults = 0

(***** The lock ***********************************************************)

(* IsWorkspaceBlocked: a request - todo is what is to be uploaded or deleted - is   *)
(* refused while there is a lock that is less than 12 minutes old ...                *)
Arrive(a, kind, todo) ==
  /\ up /\ req[a] = Idle
  /\ lock = None \/ aged
  /\ requests < MaxRequests
  /\ requests' = requests + 1
  /\ req' = [req EXCEPT ![a] = [at |-> "lock", kind |-> kind, nr |-> requests + 1,
                                todo |-> todo, batch |-> {}, doc |-> None]]
  /\ UNCHANGED <<disk, database, hash, lock, aged, up, refused, clean, faults>>

(* ... and another request may get here before the lock is written. *)
WriteLock(a) ==
  /\ req[a].at = "lock"
  /\ lock' = req[a].nr /\ aged' = FALSE
  /\ clean' = (clean /\ AtWork = {})
  /\ req' = [req EXCEPT ![a].at = IF req[a].kind = "upload" THEN "validate" ELSE "select"]
  /\ UNCHANGED <<disk, database, hash, up, refused, requests, faults>>

(* Twelve minutes pass. *)
Age ==
  /\ lock # None /\ ~aged
  /\ aged' = TRUE
  /\ UNCHANGED <<disk, database, hash, lock, req, up, refused, clean, requests, faults>>

(* The request ends with the new hash, taken while the lock is there; the shutdown *)
(* function removes the lock, whoever has written it.                               *)
Finish(a) ==
  /\ req[a].at = "finish"
  /\ hash' = HashOf(folder, written, lock)
  /\ lock' = None /\ aged' = FALSE
  /\ req' = [req EXCEPT ![a] = Idle]
  /\ UNCHANGED <<disk, database, up, refused, clean, requests, faults>>

(* A fatal error ends the request, and the shutdown function is called. *)
EndWithError(a) ==
  /\ req' = [req EXCEPT ![a] = Idle]
  /\ lock' = None /\ aged' = FALSE
  /\ clean' = FALSE

(***** Upload *************************************************************)

(* Workspace::sortAndValidateToplevelFiles, one round of its loop: the uploaded    *)
(* files of one level (Resources together with Units, if there are any) are         *)
(* validated with the rows of this level and of the next lower one.                 *)
Round(todo) ==
  LET lowest == CHOOSE k \in Levels : /\ \E d \in todo : d.level = k
                                      /\ \A d \in todo : k <= d.level
  IN  {d \in todo : d.level = lowest \/ (lowest = 0 /\ d.level = 1)}

(* a file of that id and type, and of another name *)
Namesakes(d) == {r \in files : SameId(r.doc, d) /\ ~r.duplicate /\ Key(r.doc) # Key(d)}

(* WorkspaceCache: the documents that are found by their ids, the rows and, in    *)
(* place of those of the same name, the round; a duplicate is not found. An        *)
(* invalid row is found and turned down.                                           *)
Known(round) ==
  {r.doc : r \in {s \in files : s.valid /\ \A e \in round : ~(SameId(s.doc, e) /\ Key(s.doc) = Key(e))}}
    \cup {e \in round : Namesakes(e) = {}}

(* crossValidate: a duplicate is turned down, and a file of which something needed *)
(* is not known; Resources uploaded together with Units are not looked at           *)
Accepted(d, round) ==
  /\ Namesakes(d) = {} \/ (d.level = 0 /\ \E e \in round : e.level = 1)
  /\ d.needs \subseteq {e.id : e \in {f \in Known(round) : f.level + 1 = d.level}}

Validate(a) ==
  /\ req[a].at = "validate"
  /\ LET todo == req[a].todo
     IN  IF todo = {} THEN req' = [req EXCEPT ![a].at = "finish"]
         ELSE req' = [req EXCEPT ![a].at = "sort", ![a].todo = todo \ Round(todo),
                        ![a].batch = {[doc |-> d, relations |-> RelationsOf(d, Known(Round(todo)))] :
                                      d \in {e \in Round(todo) : Accepted(e, Round(todo))}}]
  /\ UNCHANGED <<disk, database, hash, lock, aged, up, refused, clean, requests, faults>>

(* Workspace::categorizeFile: the file of that name is overwritten, unless its id   *)
(* is another one                                                                    *)
Categorize(a) ==
  /\ req[a].at = "sort"
  /\ IF req[a].batch = {}
       THEN req' = [req EXCEPT ![a].at = "validate"] /\ UNCHANGED <<disk, refused>>
       ELSE \E x \in req[a].batch :
              LET old == {d \in folder : Key(d) = Key(x.doc)}
                  rejected == \E d \in old : d.id # x.doc.id
              IN  /\ written' = IF rejected THEN written ELSE req[a].nr
                  /\ refused' = IF rejected /\ x.doc.level = 0 THEN refused \cup {x.doc.id} ELSE refused
                  /\ folder' = IF rejected THEN folder ELSE (folder \ old) \cup {x.doc}
                  /\ req' = [req EXCEPT ![a].batch = @ \ {x}, ![a].at = IF rejected THEN "sort" ELSE "store",
                                        ![a].doc = IF rejected THEN None ELSE x]
  /\ UNCHANGED <<database, hash, lock, aged, up, clean, requests, faults>>

(* WorkspaceDAO::storeFile, a transaction: the row and, by cascade, its relations   *)
(* give way to the new row; a row with that id and another name makes it fail        *)
StoreFile(a) ==
  /\ req[a].at = "store"
  /\ LET d == req[a].doc.doc
         others == {r \in files : Key(r.doc) # Key(d)}
     IN  IF \E r \in others : SameId(r.doc, d) /\ ~r.duplicate
           THEN EndWithError(a) /\ UNCHANGED database
           ELSE /\ files' = others \cup {Row(d, TRUE, FALSE)}
                /\ relations' = {x \in relations : x[1] # Key(d)}
                /\ req' = [req EXCEPT ![a].at = "meta"]
                /\ UNCHANGED <<logins, lock, aged, clean>>
  /\ UNCHANGED <<disk, hash, up, refused, requests, faults>>

(* Workspace::storeFileMeta: its relations, if the row is still there (else the     *)
(* foreign key makes it fail), and the logins of a Testtakers file                   *)
StoreMeta(a) ==
  /\ req[a].at = "meta"
  /\ LET x == req[a].doc
     IN  IF Key(x.doc) \notin Keys(files) /\ x.relations # {}
           THEN EndWithError(a) /\ UNCHANGED database
           ELSE /\ relations' = relations \cup x.relations
                /\ logins' = IF x.doc.level = 3 THEN logins \cup {Key(x.doc)} ELSE logins
                /\ req' = [req EXCEPT ![a].at = "sort", ![a].doc = None]
                /\ UNCHANGED <<files, lock, aged, clean>>
  /\ UNCHANGED <<disk, hash, up, refused, requests, faults>>

(***** Deletion ***********************************************************)

(* Mutant of Blocked: only direct users count. *)
BlockedDirectly(selected) ==
  {s \in selected : \E x \in relations : x[2] = s /\ x[1] \notin selected}

(* WorkspaceDAO::getBlockedFiles: whatever a file outside the selection needs, over *)
(* any number of relations                                                           *)
Users(S) == {x[1] : x \in {y \in relations : y[2] \in S}}
Blocked(selected) ==
  {s \in selected : LET users == Users({s}) \cup Users(Users({s}))
                    IN  ~(users \cup Users(users) \subseteq selected)}

(* Workspace::deleteFiles: a file that is not in the database is not blocked *)
Select(a) ==
  /\ req[a].at = "select"
  /\ req' = [req EXCEPT ![a].at = "delete", ![a].todo = @ \ (Blocked(req[a].todo) \cap Keys(files))]
  /\ UNCHANGED <<disk, database, hash, lock, aged, up, refused, clean, requests, faults>>

(* ... deleteFileFromDb: the logins, the row and, by cascade, its relations *)
DeleteRow(a) ==
  /\ req[a].at = "delete"
  /\ IF req[a].todo = {}
       THEN req' = [req EXCEPT ![a].at = "finish"] /\ UNCHANGED database
       ELSE \E k \in req[a].todo :
              /\ logins' = logins \ {k}
              /\ files' = {r \in files : Key(r.doc) # k}
              /\ relations' = {x \in relations : x[1] # k}
              /\ req' = [req EXCEPT ![a].at = "unlink", ![a].doc = k, ![a].todo = @ \ {k}]
  /\ UNCHANGED <<disk, hash, lock, aged, up, refused, clean, requests, faults>>

(* ... and deleteFileFromFs *)
Unlink(a) ==
  /\ req[a].at = "unlink"
  /\ folder' = {d \in folder : Key(d) # req[a].doc}
  /\ req' = [req EXCEPT ![a].at = "delete", ![a].doc = None]
  /\ UNCHANGED <<written, database, hash, lock, aged, up, refused, clean, requests, faults>>

(***** Faults and the start ***********************************************)

(* An upload reaches its time limit, or the database fails it. *)
FatalError(a) ==
  /\ faults < MaxFaults /\ faults' = faults + 1
  /\ req[a].at \in {"validate", "sort", "store", "meta"}
  /\ EndWithError(a)
  /\ UNCHANGED <<disk, database, hash, up, refused, requests>>

(* The backend is stopped: its requests are lost, the lock stays. *)
Crash ==
  /\ up /\ faults < MaxFaults /\ faults' = faults + 1
  /\ up' = FALSE
  /\ req' = [a \in Admins |-> Idle]
  /\ UNCHANGED <<disk, database, hash, lock, aged, refused, clean, requests>>

(* Somebody removes a file from the folder while the backend is down. *)
RemoveByHand(d) ==
  /\ ~up
  /\ d \in folder /\ folder' = folder \ {d}
  /\ UNCHANGED <<written, database, hash, lock, aged, req, up, refused, clean, requests, faults>>

(* Of the documents with one id all but one are duplicates. *)
Duplicates(S) == {D \in SUBSET S : /\ \A d, e \in S \ D : d # e => ~SameId(d, e)
                                   /\ \A d \in D : \E e \in S \ D : SameId(d, e)}

(* Mutant of Start: the logins of a vanished file stay. *)
StartKeepingLogins ==
  /\ ~up /\ up' = TRUE
  /\ IF hash = HashOf(folder, written, lock)
       THEN UNCHANGED <<database, hash, refused, clean>>
       ELSE /\ hash' = HashOf(folder, written, lock) /\ refused' = {}
            /\ clean' = (folder # {} \/ (files = {} /\ logins = {}))
            /\ IF folder = {}
                 THEN UNCHANGED database
                 ELSE \E dups \in Duplicates(folder) :
                        /\ files' = FilesFor(folder, dups)
                        /\ relations' = RelationsFor(folder \ dups)
                        /\ logins' = logins
                             \cup {Key(d) : d \in {e \in Valid(folder \ dups) : e.level = 3}}
  /\ UNCHANGED <<disk, lock, aged, req, requests, faults>>

(* initialize.php and Workspace::storeAllFiles, one transaction: rows without a file *)
(* go, unless the folder is empty, all files are validated and stored; the logins of *)
(* a file that is not valid any more stay                                             *)
Start ==
  /\ ~up /\ up' = TRUE
  /\ IF hash = HashOf(folder, written, lock)
       THEN UNCHANGED <<database, hash, refused, clean>>
       ELSE /\ hash' = HashOf(folder, written, lock) /\ refused' = {}
            /\ clean' = (folder # {} \/ (files = {} /\ logins = {}))
            /\ IF folder = {}
                 THEN UNCHANGED database
                 ELSE \E dups \in Duplicates(folder) :
                        /\ files' = FilesFor(folder, dups)
                        /\ relations' = RelationsFor(folder \ dups)
                        /\ logins' = {k \in logins : k \in {Key(d) : d \in folder}}
                             \cup {Key(d) : d \in {e \in Valid(folder \ dups) : e.level = 3}}
  /\ UNCHANGED <<disk, lock, aged, req, requests, faults>>

Serve(a) ==
  \/ WriteLock(a) \/ Finish(a)
  \/ Validate(a) \/ Categorize(a) \/ StoreFile(a) \/ StoreMeta(a)
  \/ Select(a) \/ DeleteRow(a) \/ Unlink(a)

Next ==
  \/ \E a \in Admins :
       \/ \E S \in Uploads : Arrive(a, "upload", S)
       \/ \E S \in Deletions : Arrive(a, "deletion", S)
       \/ Serve(a) \/ FatalError(a)
  \/ \E d \in Documents : RemoveByHand(d)
  \/ Age \/ Crash \/ Start

Spec == Init /\ [][Next]_vars

(***** Properties ********************************************************)

TypeOK ==
  /\ folder \subseteq Documents /\ written \in 0..MaxRequests
  /\ \A d, e \in folder : d # e => Key(d) # Key(e)
  /\ files \subseteq {Row(d, ok, dup) : d \in Documents, ok \in BOOLEAN, dup \in BOOLEAN}
  /\ \A r, s \in files : r # s => /\ Key(r.doc) # Key(s.doc)
                                  /\ SameId(r.doc, s.doc) => r.duplicate \/ s.duplicate
  /\ relations \subseteq Keys(files) \X {Key(d) : d \in Documents}
  /\ logins \subseteq {Key(d) : d \in {e \in Documents : e.level = 3}}
  /\ lock \in 1..MaxRequests \cup {None} /\ aged \in BOOLEAN
  /\ up \in BOOLEAN /\ clean \in BOOLEAN
  /\ refused \subseteq {d.id : d \in {e \in Documents : e.level = 0}}
  /\ requests \in 0..MaxRequests /\ faults \in 0..MaxFaults

AtRest == up /\ clean /\ AtWork = {}

(* Between two requests, and after every start, the database knows the files in   *)
(* the folder and no others - whatever crash came between the two changes, because *)
(* the lock left behind makes the hash differ (initialize.php: hasFilesChanged) -    *)
(* and no two files have one place, nor two valid ones one id.                       *)
FolderMatchesDatabase ==
  TypeOK /\ (AtRest => {r.doc : r \in files} = folder)

(* What counts as valid is complete: whatever it needs is there, valid itself, and  *)
(* related to it, so that it cannot be deleted (storeRelations, getBlockedFiles) -   *)
(* but for a Unit whose player was refused, in the same upload, because of its id.   *)
ValidFilesAreComplete ==
  AtRest => \A r \in files : r.valid =>
    \A i \in r.doc.needs \ refused : \E s \in files :
      /\ s.valid /\ s.doc.id = i /\ s.doc.level + 1 = r.doc.level
      /\ <<Key(r.doc), Key(s.doc)>> \in relations

(* Nobody can log in by a file that is gone, and everybody by a valid one           *)
(* (deleteLoginSource, updateLoginSource, removeVanishedFilesFromDB).                *)
LoginsHaveTheirFile ==
  AtRest => /\ logins \subseteq Keys(files)
            /\ \A r \in files : r.valid /\ r.doc.level = 3 => Key(r.doc) \in logins
===============================================================================
