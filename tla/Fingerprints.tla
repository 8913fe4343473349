---------------------------- MODULE Fingerprints ----------------------------
(***************************************************************************)
(* One fingerprint row (pkg/dedup) under concurrent calls.  CheckAndSave   *)
(* reads the row FOR UPDATE and creates or updates it in one transaction;  *)
(* Set is a single statement.  The database locks a row that is read FOR   *)
(* UPDATE or written until the transaction ends, and its unique index      *)
(* refuses a second row for a name, deleted softly or not.                 *)
(***************************************************************************)
EXTENDS Naturals, Sequences

CONSTANTS
  Requests,    \* calls of the service, each made once
  Contents,   \* objects of different MD5
  NoObject,   \* nil, of which no MD5 is built
  NoPrint, NoRequest

ASSUME FingerprintsAssumption ==
  /\ NoObject \notin Contents /\ NoRequest \notin Requests
  /\ NoPrint \notin [md5 : Contents, deleted : BOOLEAN]

Objects == Contents \cup {NoObject}

VARIABLES
  row,      \* the committed row: NoPrint or [md5, deleted]
  pending,  \* the row as the transaction that holds the lock has written it
  holder,   \* the transaction that holds the row, or NoRequest
  call,     \* per caller: [pc, object, ret]
  log       \* what the service answered or did, in commit order (history)

fpVars == <<row, pending, holder, call, log>>

Prints == [md5 : Contents, deleted : BOOLEAN] \cup {NoPrint}
Returns == {"none", "new", "duplicated", "saved", "removed", "error"}

FingerprintsTypeOK ==
  /\ row \in Prints /\ pending \in Prints
  /\ holder \in Requests \cup {NoRequest}
  /\ call \in [Requests -> [pc : {"idle", "read", "save", "create", "commit", "done"},
                           object : Objects, ret : Returns]]
  /\ \A i \in DOMAIN log : log[i] \in (Returns \ {"none", "error"}) \X Objects

FingerprintsInit ==
  /\ row \in {NoPrint} \cup [md5 : Contents, deleted : BOOLEAN]
  /\ pending = NoPrint
  /\ holder = NoRequest
  /\ call = [c \in Requests |-> [pc |-> "idle", object |-> NoObject, ret |-> "none"]]
  /\ log = IF row = NoPrint THEN <<>> ELSE
             <<<<"saved", row.md5>>>> \o
             (IF row.deleted THEN <<<<"removed", NoObject>>>> ELSE <<>>)

\* gorm adds "deleted_at IS NULL" to every query of the model.
Visible == row # NoPrint /\ ~row.deleted

EndCall(c, ret) == call' = [call EXCEPT ![c].pc = "done", ![c].ret = ret]
Proceed(c, pc) == call' = [call EXCEPT ![c].pc = pc]

-----------------------------------------------------------------------------
\* Slip: the error of BuildObjectMD5 is dropped, and no MD5 goes on as if it were one.
BeginCallUnchecked(c) ==
  /\ call[c].pc = "idle"
  /\ \E o \in Objects, pc \in {"read", "save"} :
       call' = [call EXCEPT ![c].pc = pc, ![c].object = o]
  /\ UNCHANGED <<row, pending, holder, log>>

\* The MD5 of the object is built before the database is asked.
BeginCall(c) ==
  /\ call[c].pc = "idle"
  /\ \/ call' = [call EXCEPT ![c].pc = "done", ![c].ret = "error"]
     \/ \E o \in Contents, pc \in {"read", "save"} :
          call' = [call EXCEPT ![c].pc = pc, ![c].object = o]
  /\ UNCHANGED <<row, pending, holder, log>>

\* Slip: the row is read without FOR UPDATE.
ReadRowUnlocked(c) ==
  /\ call[c].pc = "read"
  /\ IF ~Visible THEN Proceed(c, "create") /\ UNCHANGED pending
     ELSE /\ pending' = [row EXCEPT !.md5 = call[c].object]
          /\ call' = [call EXCEPT ![c].pc = "commit",
                        ![c].ret = IF row.md5 = call[c].object THEN "duplicated" ELSE "new"]
  /\ UNCHANGED <<row, holder, log>>

\* SELECT ... FOR UPDATE: a visible row is locked, once nobody else holds it.
\* Without one there is nothing to lock.
ReadRow(c) ==
  /\ call[c].pc = "read"
  /\ IF ~Visible THEN Proceed(c, "create") /\ UNCHANGED <<pending, holder>>
     ELSE /\ holder = NoRequest
          /\ holder' = c
          /\ pending' = [row EXCEPT !.md5 = call[c].object]
          /\ call' = [call EXCEPT ![c].pc = "commit",
                        ![c].ret = IF row.md5 = call[c].object THEN "duplicated" ELSE "new"]
  /\ UNCHANGED <<row, log>>

\* The insert waits for a transaction that is inserting the same name, and
\* fails when there is a row by then, one that is deleted softly included.
CreateRow(c) ==
  /\ call[c].pc = "create"
  /\ holder = NoRequest
  /\ IF row # NoPrint THEN EndCall(c, "error") /\ UNCHANGED <<pending, holder>>
     ELSE /\ holder' = c
          /\ pending' = [md5 |-> call[c].object, deleted |-> FALSE]
          /\ call' = [call EXCEPT ![c].pc = "commit", ![c].ret = "new"]
  /\ UNCHANGED <<row, log>>

Commit(c) ==
  /\ call[c].pc = "commit"
  /\ row' = pending
  /\ pending' = NoPrint
  /\ holder' = NoRequest
  /\ Proceed(c, "done")
  /\ log' = Append(log, <<call[c].ret, call[c].object>>)

\* A statement or the commit fails, or the process dies: all is rolled back.
Abort(c) ==
  /\ call[c].pc \in {"read", "save", "create", "commit"}
  /\ IF call[c].pc = "commit" THEN pending' = NoPrint /\ holder' = NoRequest
                              ELSE UNCHANGED <<pending, holder>>
  /\ EndCall(c, "error")
  /\ UNCHANGED <<row, log>>

\* Set: one upsert, which also revives a row that was deleted softly.
SetRow(c) ==
  /\ call[c].pc = "save"
  /\ holder = NoRequest
  /\ row' = [md5 |-> call[c].object, deleted |-> FALSE]
  /\ EndCall(c, "saved")
  /\ log' = Append(log, <<"saved", call[c].object>>)
  /\ UNCHANGED <<pending, holder>>

\* The application deletes the row through gorm, which only marks it.
SoftDelete(c) ==
  /\ call[c].pc = "idle"
  /\ Visible /\ holder = NoRequest
  /\ row' = [row EXCEPT !.deleted = TRUE]
  /\ EndCall(c, "removed")
  /\ log' = Append(log, <<"removed", NoObject>>)
  /\ UNCHANGED <<pending, holder>>

FingerprintsNext ==
  \E c \in Requests : \/ BeginCall(c) \/ ReadRow(c) \/ CreateRow(c) \/ Commit(c)
                     \/ Abort(c) \/ SetRow(c) \/ SoftDelete(c)

FingerprintsSpec == FingerprintsInit /\ [][FingerprintsNext]_fpVars

-----------------------------------------------------------------------------
\* Entry k is the last one before entry i that has stored something or removed it.
StoredLast(k, i) == /\ k \in 1 .. i - 1 /\ log[k][1] # "duplicated"
                    /\ \A j \in k + 1 .. i - 1 : log[j][1] = "duplicated"

\* Of any number of concurrent calls of CheckAndSave with one content, a single
\* one is told that it is new until the stored content changes, and a call is
\* told "duplicated" only of the content stored last.  After a soft delete no
\* call of CheckAndSave succeeds before a Set has revived the row.
CheckedOnce ==
  \A i \in DOMAIN log :
    /\ log[i][1] = "new" =>
         \A k \in DOMAIN log : StoredLast(k, i) => log[k][1] # "removed" /\ log[k][2] # log[i][2]
    /\ log[i][1] = "duplicated" =>
         \E k \in DOMAIN log : StoredLast(k, i) /\ log[k][1] # "removed" /\ log[k][2] = log[i][2]
=============================================================================
