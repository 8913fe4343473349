--------------------------- MODULE CacheMigration ---------------------------
(***************************************************************************)
(* One entry of the redis cache (pkg/cache/redis.go) as several processes  *)
(* see it.  Each process keeps a local copy in front of redis, and the     *)
(* entry has two names: the present one, and the legacy one that the       *)
(* previous release wrote.  Get looks under the present name, then under   *)
(* the legacy name, and copies what it finds there to the present name.    *)
(* Every round trip to redis is a step.                                    *)
(*                                                                         *)
(* Values are versions of the source they are computed from.  Lifetimes    *)
(* count down: a copy written for n units is last seen n - 1 ticks later.  *)
(***************************************************************************)
EXTENDS Integers, FiniteSets

CONSTANTS
  Procs,        \* processes that use the cache, one goroutine each
  TTL,          \* lifetime of a value in redis
  LocalTTL,     \* lifetime of a local copy
  MaxVersion    \* bound: the source changes MaxVersion - 1 times

ASSUME CacheAssumption ==
  /\ {TTL, LocalTTL} \subseteq Nat \ {0}
  /\ MaxVersion \in Nat \ {0}

EntryNames == {"present", "legacy"}
Versions == 1..MaxVersion
NoCopy == [value |-> 0, ttl |-> 0]
Copy(v, n) == [value |-> v, ttl |-> n]

\* Ticks for which an old value may still be seen once Del has returned: from
\* a local copy under the legacy name to redis, and from there to a local copy.
\* Set leaves the legacy name alone, so what redis has there comes on top.
DelBound == 2 * (LocalTTL - 1) + (TTL - 1)
StaleFor(how) == IF how = "Set" THEN DelBound + (TTL - 1) ELSE DelBound

Between == [step |-> "idle", key |-> "present", value |-> 0]

VARIABLES
  provider,  \* what NewCacheProvider built: "local", "noLocal" or "disabled"
  src,       \* version of the source
  redis,     \* the entry in redis, under either name
  local,     \* the local copies of each process
  op,        \* per process, the next step of its call and the value it holds
  quiet,     \* ticks since the last change, and since the cache was told of it
  how        \* ... by Del or by Set; "failed" when redis refused one of them

cacheVars == <<provider, src, redis, local, op, quiet, how>>

CacheMigrationTypeOK ==
  /\ provider \in {"local", "noLocal", "disabled"}
  /\ src \in Versions
  /\ redis \in [EntryNames -> [value : 0..MaxVersion, ttl : 0..TTL]]
  /\ local \in [Procs -> [EntryNames -> [value : 0..MaxVersion, ttl : 0..LocalTTL]]]
  /\ op \in [Procs -> [step : {"idle", "exists", "get", "compute", "set", "update", "del"},
                       key : EntryNames, value : 0..MaxVersion]]
  /\ quiet \in 0..(DelBound + TTL)
  /\ how \in {"Del", "Set", "failed"}

CacheInit ==
  /\ provider \in {"local", "noLocal", "disabled"}
  /\ src = 1
  /\ redis \in {[k \in EntryNames |-> NoCopy],
                [k \in EntryNames |-> IF k = "legacy" THEN Copy(1, TTL) ELSE NoCopy]}
  /\ local = [p \in Procs |-> [k \in EntryNames |-> NoCopy]]
  /\ op = [p \in Procs |-> Between]
  /\ quiet = 0
  /\ how = "Del"

-----------------------------------------------------------------------------
Goto(p, step, key, value) ==
  op' = [op EXCEPT ![p] = [step |-> step, key |-> key, value |-> value]]

Return(p) == op' = [op EXCEPT ![p] = Between]

\* What the cache library finds under a name: the local copy, else redis.
Found(p, k) == IF local[p][k] # NoCopy THEN local[p][k] ELSE redis[k]

\* ... and what it keeps locally of a value found in redis.
Keep(p, k) ==
  local' = IF provider = "local" /\ local[p][k] = NoCopy /\ redis[k] # NoCopy
           THEN [local EXCEPT ![p][k] = Copy(redis[k].value, LocalTTL)]
           ELSE local

\* CacheFun1 asks Get first; the disabled provider never has a value.
CacheFun(p) ==
  /\ op[p] = Between
  /\ IF provider = "disabled" THEN Goto(p, "compute", "present", 0)
                              ELSE Goto(p, "exists", "present", 0)
  /\ UNCHANGED <<provider, src, redis, local, quiet, how>>

\* Exists: the present name, then the legacy one, then nothing is found.  A
\* round trip that fails counts as absence.
Exists(p) ==
  /\ op[p].step = "exists"
  /\ LET k == op[p].key IN
     \/ /\ Found(p, k) # NoCopy
        /\ Keep(p, k)
        /\ Goto(p, "get", k, 0)
     \/ /\ local[p][k] = NoCopy
        /\ IF k = "present" THEN Goto(p, "exists", "legacy", 0)
                            ELSE Goto(p, "compute", "present", 0)
        /\ UNCHANGED local
  /\ UNCHANGED <<provider, src, redis, quiet, how>>

\* The read itself, which may no longer find what Exists saw: then Get reports
\* that nothing is there, without a look at the other name.  A value found
\* under the legacy name is written under the present one before it is returned.
GetValue(p) ==
  /\ op[p].step = "get"
  /\ LET k == op[p].key IN
     /\ Keep(p, k)
     /\ IF Found(p, k) = NoCopy THEN Goto(p, "compute", "present", 0)
        ELSE IF k = "legacy" THEN Goto(p, "set", "present", Found(p, k).value)
        ELSE Return(p)
  /\ UNCHANGED <<provider, src, redis, quiet, how>>

\* fn reads the source; when it fails nothing is stored.
Compute(p) ==
  /\ op[p].step = "compute"
  /\ \/ provider # "disabled" /\ Goto(p, "set", "present", src)
     \/ Return(p)
  /\ UNCHANGED <<provider, src, redis, local, quiet, how>>

\* setAny: the local copy first, then redis, whose failure is only logged.
SetStored(p, ok) ==
  /\ local' = IF provider = "local"
              THEN [local EXCEPT ![p]["present"] = Copy(op[p].value, LocalTTL)]
              ELSE local
  /\ redis' = IF ok THEN [redis EXCEPT !["present"] = Copy(op[p].value, TTL)] ELSE redis

SetValue(p) ==
  /\ op[p].step = "set"
  /\ \E ok \in BOOLEAN : SetStored(p, ok)
  /\ Return(p)
  /\ UNCHANGED <<provider, src, quiet, how>>

\* The application changes the source, then tells the cache: by Del, or by
\* storing the new value with Set.
ChangeSource(p) ==
  /\ op[p] = Between
  /\ src < MaxVersion
  /\ provider # "disabled"
  /\ \A q \in Procs : op[q].step \notin {"update", "del"}
  /\ src' = src + 1
  /\ \/ Goto(p, "del", "present", 0)
     \/ Goto(p, "update", "present", src + 1)
  /\ quiet' = 0
  /\ UNCHANGED <<provider, redis, local, how>>

ChangeSet(p) ==
  /\ op[p].step = "update"
  /\ \E ok \in BOOLEAN : SetStored(p, ok) /\ how' = IF ok THEN "Set" ELSE "failed"
  /\ quiet' = 0
  /\ Return(p)
  /\ UNCHANGED <<provider, src>>

\* Slip: Del knows only the present name.
DelPresentOnly(p) ==
  /\ op[p].step = "del"
  /\ local' = [local EXCEPT ![p]["present"] = NoCopy]
  /\ redis' = [redis EXCEPT !["present"] = NoCopy]
  /\ Return(p)
  /\ quiet' = 0
  /\ how' = "Del"
  /\ UNCHANGED <<provider, src>>

\* Del removes the present name and then the legacy one, each locally and in
\* redis, the second also when the first failed; an error is returned.
Del(p) ==
  /\ op[p].step = "del"
  /\ LET k == op[p].key IN
     /\ local' = [local EXCEPT ![p][k] = NoCopy]
     /\ \E ok \in BOOLEAN :
          /\ redis' = IF ok THEN [redis EXCEPT ![k] = NoCopy] ELSE redis
          /\ IF k = "present"
             THEN /\ Goto(p, "del", "legacy", IF ok THEN 0 ELSE 1)
                  /\ UNCHANGED <<quiet, how>>
             ELSE /\ Return(p)
                  /\ quiet' = 0
                  /\ how' = IF ok /\ op[p].value = 0 THEN "Del" ELSE "failed"
  /\ UNCHANGED <<provider, src>>

-----------------------------------------------------------------------------
\* A process of the previous release stores what it has computed under the
\* legacy name.
LegacySet ==
  /\ provider # "disabled"
  /\ redis' = [redis EXCEPT !["legacy"] = Copy(src, TTL)]
  /\ UNCHANGED <<provider, src, local, op, quiet, how>>

\* A local cache that is full drops a copy.
Evict(p, k) ==
  /\ local[p][k] # NoCopy
  /\ local' = [local EXCEPT ![p][k] = NoCopy]
  /\ UNCHANGED <<provider, src, redis, op, quiet, how>>

Older(c) == IF c.ttl <= 1 THEN NoCopy ELSE [c EXCEPT !.ttl = @ - 1]

\* Time passes.  A call takes less than a unit of it.
CacheTick ==
  /\ \A p \in Procs : op[p] = Between
  /\ redis' = [k \in EntryNames |-> Older(redis[k])]
  /\ local' = [p \in Procs |-> [k \in EntryNames |-> Older(local[p][k])]]
  /\ quiet' = IF quiet <= StaleFor(how) THEN quiet + 1 ELSE quiet
  /\ UNCHANGED <<provider, src, op, how>>

CacheNext ==
  \/ \E p \in Procs :
       \/ CacheFun(p) \/ Exists(p) \/ GetValue(p) \/ Compute(p) \/ SetValue(p)
       \/ ChangeSource(p) \/ ChangeSet(p) \/ Del(p)
       \/ \E k \in EntryNames : Evict(p, k)
  \/ LegacySet
  \/ CacheTick

CacheSpec == CacheInit /\ [][CacheNext]_cacheVars

-----------------------------------------------------------------------------
\* An old value does not live for ever.  Although a process may write a stale
\* value it read before a change back after it, and copies of it travel from
\* local caches to redis and into other local caches, no copy of an old value
\* is left once the cache was told of the change without an error and the
\* lifetimes on that path have passed.
StaleBounded ==
  how # "failed" /\ quiet > StaleFor(how) =>
    \A k \in EntryNames :
      /\ redis[k] = NoCopy \/ redis[k].value = src
      /\ \A p \in Procs : local[p][k] = NoCopy \/ local[p][k].value = src
=============================================================================
