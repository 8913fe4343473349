------------------------------- MODULE MCData -------------------------------
(***************************************************************************)
(* The components that keep data which several goroutines or processes     *)
(* use, for TLC: the replicas of entities, the cache with its lists and    *)
(* hashes, the fingerprints, and queries by pages.  They have no variable  *)
(* in common, so one behaviour runs the one that part names while the      *)
(* others stay at one initial state: the states of the run are the sum of  *)
(* theirs, not the product.                                                *)
(***************************************************************************)
EXTENDS EntitySync, CacheMigration, ListCache, HashCache, Fingerprints, Paging

VARIABLE part

dataVars == <<part, syncVars, cacheVars, listVars, hashVars, fpVars, pagingVars>>

Parts == {"sync", "cache", "list", "hash", "fingerprints", "paging"}

SyncWindows == {<<0, 0>>, <<0, 1>>}

PagingCell == [r \in Rows |-> [a |-> 1 + (r % 2), b |-> IF r < 3 THEN 1 ELSE 2]]
RawAsks(limits, offsets, groups, values) ==
  {[api |-> "raw", size |-> s, limit |-> l, offset |-> o, sums |-> x, group |-> g, where |-> w] :
     s \in {-1, 0, 2}, l \in limits, o \in offsets, x \in BOOLEAN, g \in groups,
     w \in [Columns -> values]}
PagingAsks ==
  RawAsks({0}, {0}, {{}}, {-1, 0, 2})
    \cup RawAsks({0}, {0}, {{"a"}, {"b"}, {"a", "b"}}, {-1, 2})
    \cup RawAsks({-1, 1}, {0}, {{}}, {-1, 2})
    \cup RawAsks({0}, {-1, 1}, {{}, {"a"}}, {-1, 2})
    \cup {[api |-> "orm", size |-> s, limit |-> 0, offset |-> 0, sums |-> FALSE, group |-> {},
           where |-> w] : s \in {0, 2}, w \in [Columns -> {-1, 2}]}

-----------------------------------------------------------------------------
\* Of the initial states of a part that does not run, one is enough.
DataInit ==
  /\ part \in Parts
  /\ IF part = "sync" THEN TRUE
     ELSE /\ enabled = FALSE /\ source = [i \in Ids |-> NoRow]
          /\ replica = [i \in Ids |-> [ver |-> 0, del |-> FALSE]]
  /\ IF part = "cache" THEN TRUE
     ELSE provider = "local" /\ redis = [k \in EntryNames |-> NoCopy]
  /\ IF part = "list" THEN TRUE ELSE impl = "redis"
  /\ IF part = "hash" THEN TRUE ELSE store = "redis" /\ kind = "struct"
  /\ IF part = "fingerprints" THEN TRUE ELSE row = NoPrint
  /\ IF part = "paging" THEN TRUE ELSE ask = (CHOOSE a \in Asks : TRUE) /\ table = {}
  /\ EntitySyncInit /\ CacheInit /\ ListCacheInit /\ HashInit /\ FingerprintsInit /\ PagingInit

Alone(p, Action) ==
  /\ part = p /\ part' = part
  /\ Action
  /\ p # "sync" => UNCHANGED syncVars
  /\ p # "cache" => UNCHANGED cacheVars
  /\ p # "list" => UNCHANGED listVars
  /\ p # "hash" => UNCHANGED hashVars
  /\ p # "fingerprints" => UNCHANGED fpVars
  /\ p # "paging" => UNCHANGED pagingVars

DataNext ==
  \/ Alone("sync", EntitySyncNext)
  \/ Alone("cache", CacheNext)
  \/ Alone("list", ListCacheNext)
  \/ Alone("hash", HashNext)
  \/ Alone("fingerprints", FingerprintsNext)
  \/ Alone("paging", PagingNext)

DataSpec == DataInit /\ [][DataNext]_dataVars

-----------------------------------------------------------------------------
PartsTypeOK ==
  CASE part = "sync" -> EntitySyncTypeOK
    [] part = "cache" -> CacheMigrationTypeOK
    [] part = "list" -> ListCacheTypeOK
    [] part = "hash" -> HashTypeOK
    [] part = "fingerprints" -> FingerprintsTypeOK
    [] part = "paging" -> PagingTypeOK
=============================================================================
