------------------------------ MODULE GormCache ------------------------------
(***************************************************************************)
(* The cache provider over a database table (pkg/cache/gormcache/gorm.go): *)
(* the rows of CacheEntry, one per key (a unique index), which gorm        *)
(* deletes softly, because the model has a DeletedAt column, and hides     *)
(* from queries from then on.  Each call is one statement.                 *)
(***************************************************************************)
EXTENDS Naturals

CONSTANTS
  Procs,       \* processes that use the table
  CacheKeys,
  Values,
  NoValue

VARIABLES
  rows,     \* per key: [value, live, deleted]; value NoValue when there is no row
  last,     \* per key: what last happened to it (history)
  answer    \* per process: the answer to its last Get or Keys

gormCacheVars == <<rows, last, answer>>

GormCacheTypeOK ==
  /\ rows \in [CacheKeys -> [value : Values \cup {NoValue}, live : BOOLEAN, deleted : BOOLEAN]]
  /\ last \in [CacheKeys -> {"none", "set", "del", "expired"}]
  /\ answer \in [Procs -> [key : CacheKeys, value : Values \cup {NoValue}, after : BOOLEAN]]

GormCacheInit ==
  /\ rows = [k \in CacheKeys |-> [value |-> NoValue, live |-> FALSE, deleted |-> FALSE]]
  /\ last = [k \in CacheKeys |-> "none"]
  /\ answer \in [Procs -> [key : CacheKeys, value : {NoValue}, after : {FALSE}]]

\* INSERT ... ON CONFLICT (key) DO UPDATE of value, expires_at and updated_at:
\* a row that is there keeps its deleted_at.
SetEntry(k, v) ==
  /\ rows' = [rows EXCEPT ![k].value = v, ![k].live = TRUE]
  /\ last' = [last EXCEPT ![k] = "set"]
  /\ UNCHANGED answer

\* The first row of the key that is neither deleted nor expired.
GetEntry(p, k) ==
  /\ answer' = [answer EXCEPT ![p] =
       [key |-> k,
        value |-> IF rows[k].live /\ ~rows[k].deleted THEN rows[k].value ELSE NoValue,
        after |-> last[k] = "set"]]
  /\ UNCHANGED <<rows, last>>

\* Delete sets deleted_at, and only of rows where it is not set.
DelEntry(k) ==
  /\ rows' = [rows EXCEPT ![k].deleted = @ \/ rows[k].value # NoValue]
  /\ last' = [last EXCEPT ![k] = "del"]
  /\ UNCHANGED answer

\* expires_at passes; nothing removes the row.
ExpireEntry(k) ==
  /\ rows[k].live
  /\ rows' = [rows EXCEPT ![k].live = FALSE]
  /\ last' = [last EXCEPT ![k] = "expired"]
  /\ UNCHANGED answer

GormCacheNext ==
  \E k \in CacheKeys :
    \/ \E v \in Values : SetEntry(k, v)
    \/ \E p \in Procs : GetEntry(p, k)
    \/ DelEntry(k)
    \/ ExpireEntry(k)

GormCacheSpec == GormCacheInit /\ [][GormCacheNext]_gormCacheVars

-----------------------------------------------------------------------------
\* The package's documentation: Set stores a value and Get retrieves it.  A Get
\* whose key was last Set, and has not been deleted or expired since, finds it.
SetIsRead == \A p \in Procs : answer[p].after => answer[p].value # NoValue
=============================================================================
