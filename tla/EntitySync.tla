----------------------------- MODULE EntitySync -----------------------------
(***************************************************************************)
(* Rows of one database kept in step in another (pkg/messaging): callbacks *)
(* that publish a row as it is written (gormCallback.go), a bulk pass over *)
(* the rows changed in a window (gormSyncService.go PubEntitiesSince), and *)
(* the receiver that applies them (ReceiveGormObjectSaved).                *)
(*                                                                         *)
(* The stream between them is RedisStream seen from here: a message may be *)
(* handled in any order and more than once, is retried until it is         *)
(* acknowledged and may be given up as a dead letter.  A payload is the    *)
(* version of its row.                                                     *)
(***************************************************************************)
EXTENDS Naturals, Sequences, FiniteSets, SequencesExt

CONSTANTS
  Ids,            \* primary keys of the registered type
  SyncPageSize,
  MaxTime,        \* bound on the writes
  MaxSent,        \* bound on the messages
  Windows         \* the <<since, to>> of PubEntitiesSince; to = 0 is no limit

ASSUME SyncAssumption ==
  /\ IsFiniteSet(Ids) /\ Ids # {}
  /\ SyncPageSize \in Nat \ {0} /\ MaxTime \in Nat \ {0} /\ MaxSent \in Nat
  /\ Windows \subseteq (0 .. MaxTime) \X (0 .. MaxTime)

VARIABLES
  enabled,     \* GormCallbackEnabled
  now,         \* the time of the latest write
  source,      \* per row: version (0: no such row), soft-deleted, time of its last change
  replica,     \* per row: version and soft-deleted
  txn,         \* rows written in the open transaction, as they will be
  sends,       \* number of messages published
  inflight,    \* messages not acknowledged
  sync,        \* PubEntitiesSince: pass, page index, rows of the page still to publish
  healing      \* nothing came in the way of the sync in progress (history)

sourceVars == <<now, source, txn>>
streamVars == <<sends, inflight>>
syncVars == <<enabled, now, source, replica, txn, sends, inflight, sync, healing>>

Row == [ver : 0 .. MaxTime, del : BOOLEAN, at : 0 .. MaxTime]
Actions == {"save", "delete"}
\* Payloads of other publishers: not a GormPayload or not a payload of its key; of an
\* unknown key, with an unknown action, or a delete with an empty ID.
Oddities == {"unreadable", "unknown"}
Message == [id : Ids, ver : 0 .. MaxTime, act : Actions \cup Oddities]

Idle == [pass |-> "idle", index |-> 0, last |-> FALSE, todo |-> <<>>, since |-> 0, to |-> 0]

EntitySyncTypeOK ==
  /\ enabled \in BOOLEAN /\ healing \in BOOLEAN /\ now \in 0 .. MaxTime
  /\ source \in [Ids -> Row]
  /\ replica \in [Ids -> [ver : 0 .. MaxTime, del : BOOLEAN]]
  /\ sends \in 0 .. MaxSent /\ inflight \subseteq Message
  /\ sync.pass \in {"idle", "save", "delete", "done"} /\ sync.last \in BOOLEAN
  /\ sync.todo \in Seq(Ids \X (0 .. MaxTime))

NoRow == [ver |-> 0, del |-> FALSE, at |-> 0]
Closed == [i \in {} |-> NoRow]
Open == txn # Closed

\* Rows may have been written or deleted at the same time, before the replica was there.
EntitySyncInit ==
  /\ enabled \in BOOLEAN /\ now = 1
  /\ source \in [Ids -> {NoRow} \cup [ver : {1}, del : BOOLEAN, at : {0, 1}]]
  /\ replica \in {[i \in Ids |-> [ver |-> v, del |-> FALSE]] : v \in {0, 1}}
  /\ txn = [i \in {} |-> NoRow]
  /\ sends = 0 /\ inflight = {}
  /\ sync = Idle /\ healing = FALSE

-----------------------------------------------------------------------------
(* Publishing *)

\* pubGormAction: nothing unless enabled; the error of Pub is dropped, and the
\* message with it.
Published(i, ver, act) ==
  IF enabled THEN {{[id |-> i, ver |-> ver, act |-> act]}, {}} ELSE {{}}

\* A statement runs, and its callback publishes the row before the commit: a new
\* version, or a deletion of a row that is there (RowsAffected = 0 is ignored).
Write(i, act) ==
  /\ now < MaxTime /\ sends < MaxSent /\ ~Open
  /\ act = "delete" => source[i].ver # 0 /\ ~source[i].del
  /\ now' = now + 1
  /\ LET row == [ver |-> IF act = "save" THEN now + 1 ELSE source[i].ver,
                 del |-> act = "delete", at |-> now + 1] IN
     /\ txn' = [k \in {i} |-> row]
     /\ \E ms \in Published(i, row.ver, act) :
          inflight' = inflight \cup ms /\ sends' = sends + Cardinality(ms)
  /\ healing' = FALSE
  /\ UNCHANGED <<enabled, source, replica, sync>>

\* An update of several rows carries no ID and is not published; neither is a slice.
WriteUnseen(i) ==
  /\ now < MaxTime /\ ~Open
  /\ now' = now + 1
  /\ txn' = [k \in {i} |-> [ver |-> now + 1, del |-> FALSE, at |-> now + 1]]
  /\ healing' = FALSE
  /\ UNCHANGED <<enabled, source, replica, streamVars, sync>>

EndTransaction ==
  /\ Open
  /\ txn' = Closed
  /\ source' \in {source, [i \in Ids |-> IF i \in DOMAIN txn THEN txn[i] ELSE source[i]]}
  /\ healing' = FALSE
  /\ UNCHANGED <<enabled, now, replica, streamVars, sync>>

-----------------------------------------------------------------------------
(* PubEntitiesSince *)

Selected ==
  {i \in Ids : /\ source[i].ver # 0
               /\ source[i].del = (sync.pass = "delete")
               /\ sync.since # 0 => source[i].at > sync.since
               /\ sync.to # 0 => source[i].at <= sync.to}

\* order by updated_at, or deleted_at: nothing orders rows of the same time.
Orders ==
  {s \in SetToSeqs(Selected) :
     \A k \in 1 .. Len(s) - 1 : source[s[k]].at <= source[s[k + 1]].at}

\* limit SyncPageSize offset index * SyncPageSize
Page(s, index) ==
  LET end == (index + 1) * SyncPageSize
  IN  SubSeq(s, index * SyncPageSize + 1, IF Len(s) < end THEN Len(s) ELSE end)

StartSync(w) ==
  /\ sync.pass = "idle"
  /\ sync' = [Idle EXCEPT !.pass = "save", !.since = w[1], !.to = w[2]]
  /\ healing' = (enabled /\ inflight = {} /\ ~Open)
  /\ UNCHANGED <<enabled, sourceVars, replica, streamVars>>

Tied == \E i, k \in Selected : i # k /\ source[i].at = source[k].at

\* The next page of the pass; one that is not full is the last.
NextPage ==
  /\ sync.pass \in {"save", "delete"} /\ sync.todo = <<>> /\ ~sync.last
  /\ \E s \in Orders :
       LET page == Page(s, sync.index) IN
       sync' = [sync EXCEPT !.todo = [k \in DOMAIN page |-> <<page[k], source[page[k]].ver>>],
                            !.index = @ + 1, !.last = Len(page) < SyncPageSize]
  /\ healing' = (healing /\ ~Tied)
  /\ UNCHANGED <<enabled, sourceVars, replica, streamVars>>

\* A query error ends the sync.
SyncFails ==
  /\ sync.pass \in {"save", "delete"} /\ sync.todo = <<>>
  /\ sync' = Idle /\ healing' = FALSE
  /\ UNCHANGED <<enabled, sourceVars, replica, streamVars>>

PublishItem ==
  /\ sync.todo # <<>> /\ sends < MaxSent
  /\ LET item == Head(sync.todo) IN
     \E ms \in Published(item[1], item[2], sync.pass) :
       /\ inflight' = inflight \cup ms /\ sends' = sends + Cardinality(ms)
       /\ healing' = (healing /\ ms # {})
  /\ sync' = [sync EXCEPT !.todo = Tail(@)]
  /\ UNCHANGED <<enabled, sourceVars, replica>>

\* Slip: deleted rows are not looked for.
EndPassOnce ==
  /\ sync.pass \in {"save", "delete"} /\ sync.last /\ sync.todo = <<>>
  /\ sync' = [sync EXCEPT !.pass = "done", !.index = 0, !.last = FALSE]
  /\ UNCHANGED <<enabled, sourceVars, replica, streamVars, healing>>

\* First the live rows, then the deleted ones.
EndPass ==
  /\ sync.pass \in {"save", "delete"} /\ sync.last /\ sync.todo = <<>>
  /\ sync' = [sync EXCEPT !.pass = IF @ = "save" THEN "delete" ELSE "done",
                          !.index = 0, !.last = FALSE]
  /\ UNCHANGED <<enabled, sourceVars, replica, streamVars, healing>>

-----------------------------------------------------------------------------
(* Receiving.  What the handler returns nil for is acknowledged, unless    *)
(* XACK fails; the rest stays for another attempt.  What fails and what    *)
(* cannot be applied also goes to AbandonedChan, a log outside the model,  *)
(* so an attempt at a row that fails changes nothing here.                 *)

\* One at a time.
ForeignPub ==
  /\ sends < MaxSent /\ \A m \in inflight : m.act \in Actions
  /\ \E o \in Oddities :
       inflight' = inflight \cup {[id |-> CHOOSE i \in Ids : TRUE, ver |-> 0, act |-> o]}
  /\ sends' = sends + 1
  /\ UNCHANGED <<enabled, sourceVars, replica, sync, healing>>

\* tx.Save updates or inserts and brings a deleted row back; tx.Delete marks the row,
\* if it is there.
Applied(m) ==
  CASE m.act = "save" -> [replica EXCEPT ![m.id] = [ver |-> m.ver, del |-> FALSE]]
    [] m.act = "delete" -> [replica EXCEPT ![m.id].del = @ \/ replica[m.id].ver # 0]

ReceiveRow(m) ==
  /\ m \in inflight /\ m.act \in Actions
  /\ replica' = Applied(m)
  /\ inflight' \in {inflight, inflight \ {m}}
  /\ UNCHANGED <<enabled, sourceVars, sends, sync, healing>>

\* What no attempt can apply: acknowledged if the handler knows it to be so.
ReceiveOdd(m) ==
  /\ m \in inflight /\ m.act \in Oddities
  /\ inflight' = IF m.act = "unreadable" THEN inflight ELSE inflight \ {m}
  /\ UNCHANGED <<enabled, sourceVars, replica, sends, sync, healing>>

\* ProcessPendings gives a message up after DefaultDeadLetterDurtion.
DeadLetter(m) ==
  /\ m \in inflight
  /\ inflight' = inflight \ {m}
  /\ healing' = (healing /\ m.act \in Oddities)
  /\ UNCHANGED <<enabled, sourceVars, replica, sends, sync>>

-----------------------------------------------------------------------------

EntitySyncNext ==
  \/ \E i \in Ids : WriteUnseen(i) \/ \E a \in Actions : Write(i, a)
  \/ EndTransaction
  \/ \E w \in Windows : StartSync(w)
  \/ NextPage \/ SyncFails \/ PublishItem \/ EndPass \/ ForeignPub
  \/ \E m \in inflight : ReceiveRow(m) \/ ReceiveOdd(m) \/ DeadLetter(m)

EntitySyncSpec == EntitySyncInit /\ [][EntitySyncNext]_syncVars

-----------------------------------------------------------------------------
(* Properties *)

InSyncWindow(i) ==
  /\ sync.since # 0 => source[i].at > sync.since
  /\ sync.to # 0 => source[i].at <= sync.to

\* A bulk pass that starts with no message of an earlier change under way, meets no
\* write, no lost or dead message and no two rows changed at the same time repairs the
\* replica, in whatever order and however often its messages are handled: once they are
\* all acknowledged, every row of the window is there in its latest version, or is
\* deleted (PubEntitiesSince, gormSyncService.go:225-264).
SyncHeals ==
  healing /\ sync.pass = "done" /\ inflight = {} =>
    \A i \in Ids : source[i].ver # 0 /\ InSyncWindow(i) =>
      IF source[i].del THEN replica[i].ver = 0 \/ replica[i].del
      ELSE replica[i] = [ver |-> source[i].ver, del |-> FALSE]
=============================================================================
