---------------------------- MODULE Data_proofs ----------------------------
(***************************************************************************)
(* Theorems about the parts that hold data: the two levels of the cache,   *)
(* fingerprints of requests, hashes and lists in the cache, the bulk sync  *)
(* of a table, and queries read page by page.  Each part has an inductive  *)
(* invariant of its own; what a loop over numbers would be shown by        *)
(* induction is shown from least elements.  In the end the parts are put   *)
(* together as the run does.                                               *)
(***************************************************************************)
EXTENDS MCData, FiniteSetTheorems, SequenceTheorems, WellFoundedInduction, TLAPS

-----------------------------------------------------------------------------
(* Least elements stand in for induction on the natural numbers.           *)

LEMMA LeastNumber ==
  ASSUME NEW T, T \subseteq Nat, T # {}
  PROVE  \E m \in T : \A k \in T : m <= k
<1> DEFINE less == {ss \in Nat \X Nat : ss[1] < ss[2]}
<1>1. IsWellFoundedOn(less, Nat)
  BY NatLessThanWellFounded DEF OpToRel
<1>2. PICK m \in T : \A k \in T : ~(<<k, m>> \in less)
  <2> HIDE DEF less
  <2> QED BY <1>1, WFMin
<1>3. \A k \in T : ~(k < m)
  BY <1>2
<1> QED BY <1>3

LEMMA GreatestNumber ==
  ASSUME NEW S, S \subseteq Nat, S # {}, NEW b \in Nat, \A x \in S : x <= b
  PROVE  \E m \in S : \A x \in S : m >= x
<1> DEFINE U == {u \in Nat : \A x \in S : x <= u}
<1>1. U \subseteq Nat /\ b \in U
  OBVIOUS
<1>2. PICK m \in U : \A u \in U : m <= u
  <2> HIDE DEF U
  <2> QED BY <1>1, LeastNumber
<1>3. m \in S
  <2> SUFFICES ASSUME m \notin S PROVE FALSE
    OBVIOUS
  <2>1. \A x \in S : x < m
    BY <1>2
  <2>2. m \in Nat /\ m > 0 /\ m - 1 \in Nat
    <3>1. m \in Nat
      BY <1>2
    <3>2. PICK x \in S : x \in Nat /\ x < m
      BY <2>1
    <3> QED BY <3>1, <3>2
  <2>3. \A x \in S : x <= m - 1
    BY <2>1, <2>2
  <2>4. m - 1 \in U
    BY <2>2, <2>3
  <2>5. m <= m - 1
    BY <1>2, <2>4
  <2> QED BY <2>2, <2>5
<1> QED BY <1>2, <1>3

-----------------------------------------------------------------------------
(* CacheMigration                                                          *)

Copies(n) == [value : 0 .. MaxVersion, ttl : 0 .. n]

CallSteps == {"idle", "exists", "get", "compute", "set", "update", "del"}

Calls == [step : CallSteps, key : EntryNames, value : 0 .. MaxVersion]

Tellings == {"Del", "Set", "failed"}

\* A copy that is there has time left.
Alive(c) == c = NoCopy \/ c.ttl > 0

Stale(c) == c # NoCopy /\ c.value # src

\* The last tick before which a stale copy may be seen after a Set or a Del: under the
\* legacy name, which a Set leaves in redis and a Del does not, then under the present
\* one, then locally.
LegacyEnd(h) == LocalTTL + (IF h = "Set" THEN TTL - 1 ELSE 0)
RedisEnd(k, h) == IF k = "legacy" THEN (IF h = "Set" THEN TTL ELSE 0) ELSE LegacyEnd(h) + TTL - 1
LocalEnd(k, h) == IF k = "legacy" THEN LegacyEnd(h) ELSE LegacyEnd(h) + TTL + LocalTTL - 2

Telling(p) == op[p].step \in {"update", "del"}
Changing == \E p \in Procs : Telling(p)

\* The cache was told of the last change, without an error.
Told == ~Changing /\ how # "failed"

\* A copy, when it is stale, will be gone in time.
Fades(c, end) == Told /\ Stale(c) => quiet + c.ttl <= end

\* What a call is about to store is stale for so long only.
CallFades(c) == Told /\ c.step = "set" /\ c.value # src => quiet < LegacyEnd(how)

CacheTyped ==
  /\ CacheMigrationTypeOK
  /\ \A k \in EntryNames : Alive(redis[k]) /\ \A p \in Procs : Alive(local[p][k])

AllFade ==
  /\ \A k \in EntryNames : Fades(redis[k], RedisEnd(k, how))
  /\ \A p \in Procs, k \in EntryNames : Fades(local[p][k], LocalEnd(k, how))
  /\ \A p \in Procs : CallFades(op[p])

CacheInv == CacheTyped /\ (Changing => quiet = 0) /\ AllFade

\* How the ends lie to each other, after a Set and after a Del.
LEMMA Ends ==
  ASSUME NEW h
  PROVE  /\ TTL \in Nat \ {0} /\ LocalTTL \in Nat \ {0} /\ MaxVersion \in Nat \ {0}
         /\ LegacyEnd(h) \in Nat \ {0}
         /\ \A k \in EntryNames :
              /\ RedisEnd(k, h) \in Nat /\ LocalEnd(k, h) \in Nat
              /\ LocalTTL <= LocalEnd(k, h)
              /\ RedisEnd(k, h) + LocalTTL - 1 <= LocalEnd(k, h)
         /\ RedisEnd("legacy", h) <= LegacyEnd(h) /\ LocalEnd("legacy", h) = LegacyEnd(h)
         /\ RedisEnd("present", h) = LegacyEnd(h) + TTL - 1
         /\ TTL <= RedisEnd("present", h)
         /\ LegacyEnd(h) + LocalTTL - 1 <= LocalEnd("present", h)
         /\ h = "Set" => RedisEnd("legacy", h) = TTL
<1>1. TTL \in Nat \ {0} /\ LocalTTL \in Nat \ {0} /\ MaxVersion \in Nat \ {0}
  BY CacheAssumption DEF CacheAssumption
<1>2. "legacy" \in EntryNames /\ "present" \in EntryNames /\ EntryNames = {"legacy", "present"}
  BY DEF EntryNames
<1>3. CASE h = "Set"
  <2>1. LegacyEnd(h) = LocalTTL + TTL - 1
    BY <1>1, <1>3 DEF LegacyEnd
  <2>2. \A k \in EntryNames :
          /\ RedisEnd(k, h) = IF k = "legacy" THEN TTL ELSE LegacyEnd(h) + TTL - 1
          /\ LocalEnd(k, h) =
               IF k = "legacy" THEN LegacyEnd(h) ELSE LegacyEnd(h) + TTL + LocalTTL - 2
    BY <1>3 DEF RedisEnd, LocalEnd
  <2> QED BY <1>1, <1>2, <2>1, <2>2
<1>4. CASE h # "Set"
  <2>1. LegacyEnd(h) = LocalTTL
    BY <1>1, <1>4 DEF LegacyEnd
  <2>2. \A k \in EntryNames :
          /\ RedisEnd(k, h) = IF k = "legacy" THEN 0 ELSE LegacyEnd(h) + TTL - 1
          /\ LocalEnd(k, h) =
               IF k = "legacy" THEN LegacyEnd(h) ELSE LegacyEnd(h) + TTL + LocalTTL - 2
    BY <1>4 DEF RedisEnd, LocalEnd
  <2> QED BY <1>1, <1>2, <1>4, <2>1, <2>2
<1> QED BY <1>3, <1>4

\* The types, taken apart.
LEMMA CacheTypes ==
  ASSUME CacheInv
  PROVE  /\ redis \in [EntryNames -> Copies(TTL)]
         /\ local \in [Procs -> [EntryNames -> Copies(LocalTTL)]]
         /\ op \in [Procs -> Calls]
         /\ \A k \in EntryNames : Alive(redis[k]) /\ \A p \in Procs : Alive(local[p][k])
         /\ quiet \in Nat /\ src \in 1 .. MaxVersion /\ how \in Tellings
         /\ quiet \in 0 .. (DelBound + TTL)
         /\ provider \in {"local", "noLocal", "disabled"}
         /\ NoCopy \in Copies(TTL) /\ NoCopy \in Copies(LocalTTL) /\ Alive(NoCopy)
         /\ ~Stale(NoCopy)
<1>1. TTL \in Nat /\ LocalTTL \in Nat /\ MaxVersion \in Nat
  BY Ends
<1>2. 0 \in 0 .. TTL /\ 0 \in 0 .. LocalTTL /\ 0 \in 0 .. MaxVersion
  BY <1>1
<1>3. NoCopy \in Copies(TTL) /\ NoCopy \in Copies(LocalTTL)
  BY <1>2 DEF NoCopy, Copies
<1>4. CacheMigrationTypeOK
  BY DEF CacheInv, CacheTyped
<1>5. DelBound + TTL \in Int
  BY <1>1 DEF DelBound
<1>6. quiet \in Nat
  BY <1>4, <1>5 DEF CacheMigrationTypeOK
<1>7. op \in [Procs -> Calls]
  BY <1>4 DEF CacheMigrationTypeOK, Calls, CallSteps
<1> QED BY <1>3, <1>4, <1>6, <1>7
     DEF CacheInv, CacheTyped, CacheMigrationTypeOK, Copies, Alive, Stale, Versions, Tellings

LEMMA CacheInits == CacheInit => CacheInv
<1> SUFFICES ASSUME CacheInit PROVE CacheInv
  OBVIOUS
<1>1. TTL \in Nat \ {0} /\ LocalTTL \in Nat \ {0} /\ MaxVersion \in Nat \ {0}
  BY CacheAssumption DEF CacheAssumption
<1>2. /\ 0 \in 0 .. TTL /\ 0 \in 0 .. LocalTTL /\ 0 \in 0 .. MaxVersion
      /\ TTL \in 0 .. TTL /\ TTL > 0 /\ 1 \in 0 .. MaxVersion /\ 1 \in 1 .. MaxVersion
      /\ 0 \in 0 .. (DelBound + TTL)
  BY <1>1 DEF DelBound
<1>3. NoCopy \in Copies(TTL) /\ NoCopy \in Copies(LocalTTL) /\ Copy(1, TTL) \in Copies(TTL)
      /\ Copy(1, TTL).ttl = TTL /\ Copy(1, TTL).value = 1
  BY <1>2 DEF NoCopy, Copy, Copies
<1>4. /\ redis \in [EntryNames -> Copies(TTL)]
      /\ \A k \in EntryNames : redis[k] \in {NoCopy, Copy(1, TTL)}
  BY <1>3 DEF CacheInit
<1>5. /\ local \in [Procs -> [EntryNames -> Copies(LocalTTL)]]
      /\ \A p \in Procs, k \in EntryNames : local[p][k] = NoCopy
  BY <1>3 DEF CacheInit
<1>6. Between \in Calls /\ Between.step = "idle"
  BY <1>2 DEF Between, Calls, CallSteps, EntryNames
<1>7. op \in [Procs -> Calls] /\ \A p \in Procs : op[p].step = "idle"
  BY <1>6 DEF CacheInit
<1>8. CacheMigrationTypeOK
  BY <1>2, <1>4, <1>5, <1>7 DEF CacheInit, CacheMigrationTypeOK, Copies, Calls, CallSteps, Versions
<1>9. \A k \in EntryNames : Alive(redis[k]) /\ \A p \in Procs : Alive(local[p][k])
  BY <1>2, <1>3, <1>4, <1>5 DEF Alive
<1>10. \A k \in EntryNames : ~Stale(redis[k])
  BY <1>3, <1>4 DEF CacheInit, Stale
<1>11. \A p \in Procs, k \in EntryNames : ~Stale(local[p][k])
  BY <1>5 DEF Stale
<1>12. ~Changing
  BY <1>7 DEF Changing, Telling
<1>13. AllFade
  BY <1>7, <1>10, <1>11 DEF AllFade, Fades, CallFades
<1> QED BY <1>8, <1>9, <1>12, <1>13 DEF CacheInv, CacheTyped

\* A copy that may be put in redis, and one that may be put in a local cache.
RedisCopy(c, k) == c \in Copies(TTL) /\ Alive(c) /\ Fades(c, RedisEnd(k, how))
LocalCopy(c, k) == c \in Copies(LocalTTL) /\ Alive(c) /\ Fades(c, LocalEnd(k, how))

\* A call that Get or a Set may go on with.
QuietCall(c) == c \in Calls /\ c.step \notin {"update", "del"} /\ CallFades(c)

LEMMA CopiesNow ==
  ASSUME CacheInv
  PROVE  /\ \A k \in EntryNames : RedisCopy(redis[k], k)
         /\ \A p \in Procs, k \in EntryNames : LocalCopy(local[p][k], k)
         /\ \A k \in EntryNames : RedisCopy(NoCopy, k) /\ LocalCopy(NoCopy, k)
<1> QED BY CacheTypes DEF CacheInv, AllFade, RedisCopy, LocalCopy, Fades

\* A step that tells the cache of no change keeps the invariant when what it writes fades.
LEMMA NothingTold ==
  ASSUME CacheInv, UNCHANGED <<provider, src, quiet, how>>,
         redis' \in [EntryNames -> Copies(TTL)],
         local' \in [Procs -> [EntryNames -> Copies(LocalTTL)]],
         op' \in [Procs -> Calls],
         \A k \in EntryNames : RedisCopy(redis'[k], k),
         \A p \in Procs, k \in EntryNames : LocalCopy(local'[p][k], k),
         \A p \in Procs : op'[p] = op[p] \/ (~Telling(p) /\ QuietCall(op'[p]))
  PROVE  CacheInv'
<1>1. CacheMigrationTypeOK'
  BY CacheTypes DEF CacheMigrationTypeOK, Copies, Calls, CallSteps, Versions, Tellings
<1>2. \A k \in EntryNames : Alive(redis[k])' /\ \A p \in Procs : Alive(local[p][k])'
  BY DEF RedisCopy, LocalCopy, Alive
<1>3. Changing' <=> Changing
  BY DEF Changing, Telling, QuietCall
<1>4. Told' <=> Told
  BY <1>3 DEF Told
<1>5. \A k \in EntryNames : Fades(redis[k], RedisEnd(k, how))'
  BY <1>4 DEF RedisCopy, Fades, Stale, RedisEnd, LegacyEnd
<1>6. \A p \in Procs, k \in EntryNames : Fades(local[p][k], LocalEnd(k, how))'
  BY <1>4 DEF LocalCopy, Fades, Stale, LocalEnd, LegacyEnd
<1>7. ASSUME NEW p \in Procs PROVE CallFades(op[p])'
  <2>1. CallFades(op'[p])
    BY DEF CacheInv, AllFade, QuietCall
  <2> QED BY <1>4, <2>1 DEF CallFades, LegacyEnd
<1> QED BY <1>1, <1>2, <1>3, <1>5, <1>6, <1>7 DEF CacheInv, CacheTyped, AllFade

\* What the step to the next call writes.
LEMMA GoesTo ==
  ASSUME CacheInv, NEW p \in Procs, ~Telling(p), NEW step \in CallSteps, NEW key \in EntryNames,
         NEW value \in 0 .. MaxVersion, step \notin {"update", "del"},
         Told /\ step = "set" /\ value # src => quiet < LegacyEnd(how),
         Goto(p, step, key, value)
  PROVE  /\ op' \in [Procs -> Calls]
         /\ \A q \in Procs : op'[q] = op[q] \/ (~Telling(q) /\ QuietCall(op'[q]))
<1> DEFINE c == [step |-> step, key |-> key, value |-> value]
<1>1. c \in Calls /\ QuietCall(c)
  BY DEF Calls, QuietCall, CallFades
<1>2. op' = [op EXCEPT ![p] = c]
  BY DEF Goto
<1> QED BY <1>1, <1>2, CacheTypes

LEMMA GoesBack ==
  ASSUME CacheInv, NEW p \in Procs, ~Telling(p), Return(p)
  PROVE  /\ op' \in [Procs -> Calls]
         /\ \A q \in Procs : op'[q] = op[q] \/ (~Telling(q) /\ QuietCall(op'[q]))
<1>1. 0 \in 0 .. MaxVersion
  BY Ends
<1>2. Between \in Calls /\ Between.step = "idle"
  BY <1>1 DEF Between, Calls, CallSteps, EntryNames
<1>3. QuietCall(Between)
  BY <1>2 DEF QuietCall, CallFades
<1>4. op' = [op EXCEPT ![p] = Between]
  BY DEF Return
<1> QED BY <1>2, <1>3, <1>4, CacheTypes

\* A local cache with one copy replaced.
LEMMA LocalWritten ==
  ASSUME CacheInv, NEW p \in Procs, NEW k \in EntryNames, NEW c, LocalCopy(c, k),
         local' = [local EXCEPT ![p][k] = c]
  PROVE  /\ local' \in [Procs -> [EntryNames -> Copies(LocalTTL)]]
         /\ \A q \in Procs, j \in EntryNames : LocalCopy(local'[q][j], j)
<1>1. c \in Copies(LocalTTL)
  BY DEF LocalCopy
<1>2. local \in [Procs -> [EntryNames -> Copies(LocalTTL)]]
  BY CacheTypes
<1>3. local' \in [Procs -> [EntryNames -> Copies(LocalTTL)]]
  BY <1>1, <1>2
<1>4. \A q \in Procs, j \in EntryNames :
        local'[q][j] = IF q = p /\ j = k THEN c ELSE local[q][j]
  BY <1>2
<1> QED BY <1>3, <1>4, CopiesNow

LEMMA RedisWritten ==
  ASSUME CacheInv, NEW k \in EntryNames, NEW c, RedisCopy(c, k),
         redis' = [redis EXCEPT ![k] = c]
  PROVE  /\ redis' \in [EntryNames -> Copies(TTL)]
         /\ \A j \in EntryNames : RedisCopy(redis'[j], j)
<1>1. c \in Copies(TTL)
  BY DEF RedisCopy
<1>2. redis \in [EntryNames -> Copies(TTL)]
  BY CacheTypes
<1> QED BY <1>1, <1>2, CopiesNow

LEMMA LocalSame ==
  ASSUME CacheInv, UNCHANGED local
  PROVE  /\ local' \in [Procs -> [EntryNames -> Copies(LocalTTL)]]
         /\ \A q \in Procs, j \in EntryNames : LocalCopy(local'[q][j], j)
<1> QED BY CacheTypes, CopiesNow

LEMMA RedisSame ==
  ASSUME CacheInv, UNCHANGED redis
  PROVE  /\ redis' \in [EntryNames -> Copies(TTL)]
         /\ \A j \in EntryNames : RedisCopy(redis'[j], j)
<1> QED BY CacheTypes, CopiesNow

\* A value found in redis may be kept locally.
LEMMA Keeps ==
  ASSUME CacheInv, NEW p \in Procs, NEW k \in EntryNames, Keep(p, k)
  PROVE  /\ local' \in [Procs -> [EntryNames -> Copies(LocalTTL)]]
         /\ \A q \in Procs, j \in EntryNames : LocalCopy(local'[q][j], j)
<1>1. CASE UNCHANGED local
  BY <1>1, LocalSame
<1>2. CASE /\ redis[k] # NoCopy
           /\ local' = [local EXCEPT ![p][k] = Copy(redis[k].value, LocalTTL)]
  <2> DEFINE c == Copy(redis[k].value, LocalTTL)
  <2>1. /\ LocalTTL \in Nat \ {0} /\ LocalTTL \in 0 .. LocalTTL
        /\ RedisEnd(k, how) \in Nat /\ LocalEnd(k, how) \in Nat
        /\ RedisEnd(k, how) + LocalTTL - 1 <= LocalEnd(k, how)
    BY Ends
  <2>2. redis[k] \in Copies(TTL) /\ TTL \in Nat /\ redis[k].ttl > 0 /\ quiet \in Nat
    BY <1>2, CacheTypes, Ends DEF Alive
  <2>3. redis[k].value \in 0 .. MaxVersion /\ redis[k].ttl \in Nat
    BY <2>2 DEF Copies
  <2>4. c \in Copies(LocalTTL) /\ c.ttl = LocalTTL /\ c.value = redis[k].value
    BY <2>1, <2>3 DEF Copy, Copies
  <2>5. Alive(c)
    BY <2>1, <2>4 DEF Alive
  <2>6. Fades(c, LocalEnd(k, how))
    <3> SUFFICES ASSUME Told, Stale(c) PROVE quiet + LocalTTL <= LocalEnd(k, how)
      BY <2>4 DEF Fades
    <3>1. Stale(redis[k])
      BY <1>2, <2>4 DEF Stale
    <3>2. quiet + redis[k].ttl <= RedisEnd(k, how)
      BY <3>1, CopiesNow DEF RedisCopy, Fades
    <3> QED BY ONLY <2>1, <2>2, <2>3, <3>2
  <2>7. LocalCopy(c, k)
    BY <2>4, <2>5, <2>6 DEF LocalCopy
  <2> HIDE DEF c
  <2> QED BY <1>2, <2>7, LocalWritten DEF c
<1> QED BY <1>1, <1>2 DEF Keep

LEMMA CacheFunKeeps == ASSUME CacheInv, NEW p \in Procs, CacheFun(p) PROVE CacheInv'
<1>1. /\ op[p].step = "idle" /\ ~Telling(p)
      /\ 0 \in 0 .. MaxVersion
      /\ "compute" \in CallSteps /\ "exists" \in CallSteps /\ "present" \in EntryNames
  BY Ends DEF CacheFun, Between, Telling, CallSteps, EntryNames
<1>2. /\ op' \in [Procs -> Calls]
      /\ \A q \in Procs : op'[q] = op[q] \/ (~Telling(q) /\ QuietCall(op'[q]))
  <2>1. CASE Goto(p, "compute", "present", 0)
    BY <1>1, <2>1, GoesTo
  <2>2. CASE Goto(p, "exists", "present", 0)
    BY <1>1, <2>2, GoesTo
  <2> QED BY <2>1, <2>2 DEF CacheFun
<1> QED BY <1>2, RedisSame, LocalSame, NothingTold DEF CacheFun

LEMMA ExistsKeeps == ASSUME CacheInv, NEW p \in Procs, Exists(p) PROVE CacheInv'
<1> DEFINE k == op[p].key
<1>1. /\ ~Telling(p) /\ 0 \in 0 .. MaxVersion
      /\ "compute" \in CallSteps /\ "exists" \in CallSteps /\ "get" \in CallSteps
      /\ "present" \in EntryNames /\ "legacy" \in EntryNames
  BY Ends DEF Exists, Telling, CallSteps, EntryNames
<1>2. k \in EntryNames
  BY CacheTypes DEF Calls
<1>3. /\ op' \in [Procs -> Calls]
      /\ \A q \in Procs : op'[q] = op[q] \/ (~Telling(q) /\ QuietCall(op'[q]))
  <2>1. CASE Goto(p, "get", k, 0)
    BY <1>1, <1>2, <2>1, GoesTo
  <2>2. CASE Goto(p, "exists", "legacy", 0)
    BY <1>1, <2>2, GoesTo
  <2>3. CASE Goto(p, "compute", "present", 0)
    BY <1>1, <2>3, GoesTo
  <2> QED BY <2>1, <2>2, <2>3 DEF Exists
<1>4. /\ local' \in [Procs -> [EntryNames -> Copies(LocalTTL)]]
      /\ \A q \in Procs, j \in EntryNames : LocalCopy(local'[q][j], j)
  <2>1. Keep(p, k) \/ UNCHANGED local
    BY DEF Exists
  <2> HIDE DEF k
  <2> QED BY <1>2, <2>1, Keeps, LocalSame
<1> QED BY <1>3, <1>4, RedisSame, NothingTold DEF Exists

\* Neither a call that comes too late nor one that finds a value tells of a change; and a
\* stale value found under the legacy name will not be stored for long.
LEMMA GetValueKeeps == ASSUME CacheInv, NEW p \in Procs, GetValue(p) PROVE CacheInv'
<1> DEFINE k == op[p].key
           v == Found(p, k).value
<1>1. /\ ~Telling(p) /\ 0 \in 0 .. MaxVersion
      /\ "compute" \in CallSteps /\ "set" \in CallSteps
      /\ "present" \in EntryNames /\ "legacy" \in EntryNames
  BY Ends DEF GetValue, Telling, CallSteps, EntryNames
<1>2. k \in EntryNames
  BY CacheTypes DEF Calls
<1>3. v \in 0 .. MaxVersion
  <2>1. Found(p, k) \in Copies(LocalTTL) \/ Found(p, k) \in Copies(TTL)
    BY <1>2, CacheTypes DEF Found
  <2> QED BY <2>1 DEF Copies
<1>4. ASSUME Told, v # src, Found(p, k) # NoCopy, k = "legacy" PROVE quiet < LegacyEnd(how)
  <2>1. /\ LegacyEnd(how) \in Nat /\ LocalEnd("legacy", how) = LegacyEnd(how)
        /\ RedisEnd("legacy", how) \in Nat /\ RedisEnd("legacy", how) <= LegacyEnd(how)
        /\ TTL \in Nat /\ LocalTTL \in Nat
    BY <1>1, Ends
  <2>2. quiet \in Nat
    BY CacheTypes
  <2>3. CASE local[p]["legacy"] # NoCopy
    <3>1. Stale(local[p]["legacy"])
      BY <1>4, <2>3 DEF Found, Stale
    <3>2. quiet + local[p]["legacy"].ttl <= LegacyEnd(how)
      BY <1>1, <1>4, <2>1, <3>1, CopiesNow DEF LocalCopy, Fades
    <3>3. local[p]["legacy"].ttl \in Nat /\ local[p]["legacy"].ttl > 0
      BY <1>1, <2>1, <2>3, CacheTypes DEF Copies, Alive
    <3> QED BY ONLY <2>1, <2>2, <3>2, <3>3
  <2>4. CASE local[p]["legacy"] = NoCopy
    <3>1. Stale(redis["legacy"]) /\ redis["legacy"] # NoCopy
      BY <1>4, <2>4 DEF Found, Stale
    <3>2. quiet + redis["legacy"].ttl <= RedisEnd("legacy", how)
      BY <1>1, <1>4, <3>1, CopiesNow DEF RedisCopy, Fades
    <3>3. redis["legacy"].ttl \in Nat /\ redis["legacy"].ttl > 0
      BY <1>1, <2>1, <3>1, CacheTypes DEF Copies, Alive
    <3> QED BY ONLY <2>1, <2>2, <3>2, <3>3
  <2> QED BY <2>3, <2>4
<1>5. \/ Goto(p, "compute", "present", 0)
      \/ Found(p, k) # NoCopy /\ k = "legacy" /\ Goto(p, "set", "present", v)
      \/ Return(p)
  BY DEF GetValue
<1>6. Keep(p, k)
  BY DEF GetValue
<1> HIDE DEF k, v
<1>7. /\ op' \in [Procs -> Calls]
      /\ \A q \in Procs : op'[q] = op[q] \/ (~Telling(q) /\ QuietCall(op'[q]))
  <2>1. CASE Goto(p, "compute", "present", 0)
    BY <1>1, <2>1, GoesTo
  <2>2. CASE Found(p, k) # NoCopy /\ k = "legacy" /\ Goto(p, "set", "present", v)
    BY <1>1, <1>3, <1>4, <2>2, GoesTo
  <2>3. CASE Return(p)
    BY <1>1, <2>3, GoesBack
  <2> QED BY <1>5, <2>1, <2>2, <2>3
<1>8. /\ local' \in [Procs -> [EntryNames -> Copies(LocalTTL)]]
      /\ \A q \in Procs, j \in EntryNames : LocalCopy(local'[q][j], j)
  BY <1>2, <1>6, Keeps
<1> QED BY <1>7, <1>8, RedisSame, NothingTold DEF GetValue

LEMMA ComputeKeeps == ASSUME CacheInv, NEW p \in Procs, Compute(p) PROVE CacheInv'
<1>1. /\ ~Telling(p) /\ src \in 0 .. MaxVersion
      /\ "set" \in CallSteps /\ "present" \in EntryNames
  BY CacheTypes DEF Compute, Telling, CallSteps, EntryNames
<1>2. /\ op' \in [Procs -> Calls]
      /\ \A q \in Procs : op'[q] = op[q] \/ (~Telling(q) /\ QuietCall(op'[q]))
  <2>1. CASE Goto(p, "set", "present", src)
    BY <1>1, <2>1, GoesTo
  <2>2. CASE Return(p)
    BY <1>1, <2>2, GoesBack
  <2> QED BY <2>1, <2>2 DEF Compute
<1> QED BY <1>2, RedisSame, LocalSame, NothingTold DEF Compute

LEMMA SetValueKeeps == ASSUME CacheInv, NEW p \in Procs, SetValue(p) PROVE CacheInv'
<1> DEFINE v == op[p].value
<1>1. /\ ~Telling(p) /\ op[p].step = "set" /\ "present" \in EntryNames
  BY DEF SetValue, Telling, EntryNames
<1>2. v \in 0 .. MaxVersion
  BY CacheTypes DEF Calls
<1>3. /\ LegacyEnd(how) \in Nat /\ TTL \in Nat \ {0} /\ LocalTTL \in Nat \ {0} /\ quiet \in Nat
      /\ RedisEnd("present", how) = LegacyEnd(how) + TTL - 1
      /\ LocalEnd("present", how) \in Nat
      /\ LegacyEnd(how) + LocalTTL - 1 <= LocalEnd("present", how)
  BY <1>1, Ends, CacheTypes
<1>4. Told /\ v # src => quiet < LegacyEnd(how)
  BY <1>1 DEF CacheInv, AllFade, CallFades
<1>5. RedisCopy(Copy(v, TTL), "present")
  <2>1. Copy(v, TTL) \in Copies(TTL) /\ Alive(Copy(v, TTL))
    BY <1>2, <1>3 DEF Copy, Copies, Alive
  <2>2. Told /\ v # src => quiet + TTL <= RedisEnd("present", how)
    BY <1>3, <1>4
  <2> QED BY <2>1, <2>2 DEF RedisCopy, Fades, Stale, Copy
<1>6. LocalCopy(Copy(v, LocalTTL), "present")
  <2>1. Copy(v, LocalTTL) \in Copies(LocalTTL) /\ Alive(Copy(v, LocalTTL))
    BY <1>2, <1>3 DEF Copy, Copies, Alive
  <2>2. Told /\ v # src => quiet + LocalTTL <= LocalEnd("present", how)
    BY <1>3, <1>4
  <2> QED BY <2>1, <2>2 DEF LocalCopy, Fades, Stale, Copy
<1>7. /\ redis' = [redis EXCEPT !["present"] = Copy(v, TTL)] \/ UNCHANGED redis
      /\ local' = [local EXCEPT ![p]["present"] = Copy(v, LocalTTL)] \/ UNCHANGED local
  BY DEF SetValue, SetStored
<1> HIDE DEF v
<1>8. /\ redis' \in [EntryNames -> Copies(TTL)]
      /\ \A j \in EntryNames : RedisCopy(redis'[j], j)
  BY <1>1, <1>5, <1>7, RedisWritten, RedisSame
<1>9. /\ local' \in [Procs -> [EntryNames -> Copies(LocalTTL)]]
      /\ \A q \in Procs, j \in EntryNames : LocalCopy(local'[q][j], j)
  BY <1>1, <1>6, <1>7, LocalWritten, LocalSame
<1>10. /\ op' \in [Procs -> Calls]
       /\ \A q \in Procs : op'[q] = op[q] \/ (~Telling(q) /\ QuietCall(op'[q]))
  BY <1>1, GoesBack DEF SetValue
<1> QED BY <1>8, <1>9, <1>10, NothingTold DEF SetValue

LEMMA LegacySetKeeps == ASSUME CacheInv, LegacySet PROVE CacheInv'
<1>1. RedisCopy(Copy(src, TTL), "legacy") /\ "legacy" \in EntryNames
  <2>1. TTL \in Nat \ {0} /\ MaxVersion \in Nat /\ src \in 1 .. MaxVersion
    BY Ends, CacheTypes
  <2> QED BY <2>1 DEF RedisCopy, Copy, Copies, Alive, Fades, Stale, EntryNames
<1>2. /\ redis' \in [EntryNames -> Copies(TTL)]
      /\ \A j \in EntryNames : RedisCopy(redis'[j], j)
  BY <1>1, RedisWritten DEF LegacySet
<1> QED BY <1>2, LocalSame, CacheTypes, NothingTold DEF LegacySet

LEMMA EvictKeeps ==
  ASSUME CacheInv, NEW p \in Procs, NEW k \in EntryNames, Evict(p, k) PROVE CacheInv'
<1>1. /\ local' \in [Procs -> [EntryNames -> Copies(LocalTTL)]]
      /\ \A q \in Procs, j \in EntryNames : LocalCopy(local'[q][j], j)
  BY CopiesNow, LocalWritten DEF Evict
<1> QED BY <1>1, RedisSame, CacheTypes, NothingTold DEF Evict

\* While a process is telling the cache of a change nothing is promised but the types.
LEMMA TellingTypes ==
  ASSUME CacheInv, quiet' = 0, how' \in Tellings, src' \in Versions, UNCHANGED provider,
         redis' \in [EntryNames -> Copies(TTL)],
         local' \in [Procs -> [EntryNames -> Copies(LocalTTL)]],
         op' \in [Procs -> Calls],
         \A k \in EntryNames : Alive(redis'[k]),
         \A p \in Procs, k \in EntryNames : Alive(local'[p][k])
  PROVE  CacheTyped'
<1>1. 0 \in 0 .. (DelBound + TTL)
  <2>1. TTL \in Nat \ {0} /\ LocalTTL \in Nat \ {0}
    BY Ends
  <2> QED BY <2>1 DEF DelBound
<1>2. CacheMigrationTypeOK'
  BY <1>1, CacheTypes DEF CacheMigrationTypeOK, Copies, Calls, CallSteps, Tellings
<1> QED BY <1>2 DEF CacheTyped, Alive

\* Once it was told, the types alone bound what a stale copy can still do, save for the
\* legacy name in redis, which only a Del clears.
LEMMA ToldNow ==
  ASSUME CacheTyped', quiet' = 0, how' \in Tellings,
         redis' \in [EntryNames -> Copies(TTL)],
         local' \in [Procs -> [EntryNames -> Copies(LocalTTL)]],
         how' = "Del" => redis'["legacy"] = NoCopy
  PROVE  AllFade'
<1> DEFINE h == how'
<1>1. /\ LegacyEnd(h) \in Nat \ {0} /\ TTL \in Nat /\ LocalTTL \in Nat
      /\ TTL <= RedisEnd("present", h) /\ (h = "Set" => RedisEnd("legacy", h) = TTL)
      /\ \A k \in EntryNames : /\ RedisEnd(k, h) \in Nat /\ LocalEnd(k, h) \in Nat
                               /\ LocalTTL <= LocalEnd(k, h)
  BY Ends
<1>2. ASSUME NEW k \in EntryNames PROVE Fades(redis[k], RedisEnd(k, how))'
  <2> SUFFICES ASSUME Told', Stale(redis[k])'
               PROVE quiet' + redis'[k].ttl <= RedisEnd(k, h)
    BY DEF Fades, RedisEnd, LegacyEnd
  <2>1. redis'[k].ttl \in Nat /\ redis'[k].ttl <= TTL
    BY <1>1 DEF Copies
  <2>2. h = "Set" \/ h = "Del"
    BY DEF Told, Tellings
  <2>3. h = "Del" => k = "present"
    BY DEF Stale, EntryNames
  <2>4. TTL <= RedisEnd(k, h)
    BY <1>1, <2>2, <2>3 DEF EntryNames
  <2>5. RedisEnd(k, h) \in Nat
    BY <1>1
  <2> QED BY <1>1, <2>1, <2>4, <2>5
<1>3. ASSUME NEW p \in Procs, NEW k \in EntryNames
      PROVE  Fades(local[p][k], LocalEnd(k, how))'
  <2>1. local'[p][k].ttl \in Nat /\ local'[p][k].ttl <= LocalTTL
    BY <1>1 DEF Copies
  <2>2. quiet' + local'[p][k].ttl <= LocalEnd(k, h)
    BY <1>1, <2>1
  <2> QED BY <2>2 DEF Fades, LocalEnd, LegacyEnd
<1>4. ASSUME NEW p \in Procs PROVE CallFades(op[p])'
  <2>1. quiet' < LegacyEnd(h)
    BY <1>1
  <2> QED BY <2>1 DEF CallFades, LegacyEnd
<1> QED BY <1>2, <1>3, <1>4 DEF AllFade

LEMMA ChangeSourceKeeps == ASSUME CacheInv, NEW p \in Procs, ChangeSource(p) PROVE CacheInv'
<1>1. /\ src + 1 \in Versions /\ src + 1 \in 0 .. MaxVersion /\ 0 \in 0 .. MaxVersion
  <2>1. MaxVersion \in Nat \ {0} /\ src \in 1 .. MaxVersion /\ src < MaxVersion
    BY Ends, CacheTypes DEF ChangeSource
  <2> QED BY <2>1 DEF Versions
<1> DEFINE told(s, v) == [step |-> s, key |-> "present", value |-> v]
<1>2. PICK c : /\ op' = [op EXCEPT ![p] = c]
               /\ c \in Calls /\ c.step \in {"update", "del"}
  <2>1. told("del", 0) \in Calls /\ told("update", src + 1) \in Calls
    BY <1>1 DEF Calls, CallSteps, EntryNames
  <2>2. \/ op' = [op EXCEPT ![p] = told("del", 0)]
        \/ op' = [op EXCEPT ![p] = told("update", src + 1)]
    BY DEF ChangeSource, Goto
  <2> QED BY <2>1, <2>2
<1>3. op' \in [Procs -> Calls] /\ op'[p] = c
  BY <1>2, CacheTypes
<1>4. CacheTyped'
  BY <1>1, <1>3, TellingTypes, CacheTypes DEF ChangeSource
<1>5. Changing'
  BY <1>2, <1>3 DEF Changing, Telling
<1>6. AllFade'
  BY <1>5 DEF AllFade, Fades, CallFades, Told
<1> QED BY <1>4, <1>5, <1>6 DEF CacheInv, ChangeSource

LEMMA ChangeSetKeeps == ASSUME CacheInv, NEW p \in Procs, ChangeSet(p) PROVE CacheInv'
<1> DEFINE v == op[p].value
<1>1. "present" \in EntryNames /\ v \in 0 .. MaxVersion
  BY CacheTypes DEF Calls, EntryNames
<1>2. TTL \in Nat \ {0} /\ LocalTTL \in Nat \ {0} /\ 0 \in 0 .. MaxVersion
  BY Ends
<1>3. /\ Copy(v, TTL) \in Copies(TTL) /\ Alive(Copy(v, TTL))
      /\ Copy(v, LocalTTL) \in Copies(LocalTTL) /\ Alive(Copy(v, LocalTTL))
  BY <1>1, <1>2 DEF Copy, Copies, Alive
<1>4. /\ redis' = [redis EXCEPT !["present"] = Copy(v, TTL)] \/ UNCHANGED redis
      /\ local' = [local EXCEPT ![p]["present"] = Copy(v, LocalTTL)] \/ UNCHANGED local
      /\ how' \in {"Set", "failed"} /\ quiet' = 0
  BY DEF ChangeSet, SetStored
<1> HIDE DEF v
<1>5. redis' \in [EntryNames -> Copies(TTL)] /\ \A k \in EntryNames : Alive(redis'[k])
  BY <1>1, <1>3, <1>4, CacheTypes
<1>6. /\ local' \in [Procs -> [EntryNames -> Copies(LocalTTL)]]
      /\ \A q \in Procs, k \in EntryNames : Alive(local'[q][k])
  <2>1. CASE UNCHANGED local
    BY <2>1, CacheTypes
  <2>2. CASE local' = [local EXCEPT ![p]["present"] = Copy(v, LocalTTL)]
    <3>1. local \in [Procs -> [EntryNames -> Copies(LocalTTL)]]
      BY CacheTypes
    <3>2. local' \in [Procs -> [EntryNames -> Copies(LocalTTL)]]
      BY <1>1, <1>3, <2>2, <3>1
    <3>3. \A q \in Procs, k \in EntryNames :
            local'[q][k] \in {Copy(v, LocalTTL), local[q][k]}
      BY <1>1, <2>2, <3>1
    <3> QED BY <1>3, <3>2, <3>3, CacheTypes
  <2> QED BY <1>4, <2>1, <2>2
<1>7. Between \in Calls
  BY <1>2 DEF Between, Calls, CallSteps, EntryNames
<1>8. op' \in [Procs -> Calls]
  BY <1>7, CacheTypes DEF ChangeSet, Return
<1>9. CacheTyped'
  BY <1>4, <1>5, <1>6, <1>8, TellingTypes, CacheTypes DEF ChangeSet, Tellings, Versions
<1>10. AllFade'
  BY <1>4, <1>5, <1>6, <1>9, ToldNow DEF Tellings
<1> QED BY <1>4, <1>9, <1>10 DEF CacheInv

\* The second step of a Del that met no error leaves no legacy copy in redis.
LEMMA DelKeeps == ASSUME CacheInv, NEW p \in Procs, Del(p) PROVE CacheInv'
<1> DEFINE k == op[p].key
<1>1. k \in EntryNames /\ "legacy" \in EntryNames /\ "present" \in EntryNames
  BY CacheTypes DEF Calls, EntryNames
<1>2. Telling(p) /\ quiet = 0
  BY DEF Del, Telling, CacheInv, Changing
<1>3. 0 \in 0 .. MaxVersion /\ 1 \in 0 .. MaxVersion
  BY Ends
<1>4. PICK ok \in BOOLEAN :
        /\ redis' = IF ok THEN [redis EXCEPT ![k] = NoCopy] ELSE redis
        /\ IF k = "present"
           THEN /\ Goto(p, "del", "legacy", IF ok THEN 0 ELSE 1)
                /\ UNCHANGED <<quiet, how>>
           ELSE /\ Return(p)
                /\ quiet' = 0
                /\ how' = IF ok /\ op[p].value = 0 THEN "Del" ELSE "failed"
  BY DEF Del
<1>5. local' = [local EXCEPT ![p][k] = NoCopy] /\ UNCHANGED <<provider, src>>
  BY DEF Del
<1> HIDE DEF k
<1>6. redis' \in [EntryNames -> Copies(TTL)] /\ \A j \in EntryNames : Alive(redis'[j])
  BY <1>1, <1>4, CacheTypes
<1>7. /\ local' \in [Procs -> [EntryNames -> Copies(LocalTTL)]]
      /\ \A q \in Procs, j \in EntryNames : Alive(local'[q][j])
  BY <1>1, <1>5, CopiesNow, LocalWritten DEF LocalCopy
<1>8. CASE k = "present"
  <2> DEFINE c == [step |-> "del", key |-> "legacy", value |-> IF ok THEN 0 ELSE 1]
  <2>1. c \in Calls /\ c.step = "del"
    BY <1>1, <1>3 DEF Calls, CallSteps
  <2>2. op' = [op EXCEPT ![p] = c]
    BY <1>4, <1>8 DEF Goto
  <2> HIDE DEF c
  <2>3. op' \in [Procs -> Calls] /\ op'[p] = c
    BY <2>1, <2>2, CacheTypes
  <2>4. quiet' = 0 /\ UNCHANGED how
    BY <1>2, <1>4, <1>8
  <2>5. CacheTyped'
    BY <1>5, <1>6, <1>7, <2>3, <2>4, TellingTypes, CacheTypes DEF Versions
  <2>6. Changing'
    BY <2>1, <2>3 DEF Changing, Telling
  <2>7. AllFade'
    BY <2>6 DEF AllFade, Fades, CallFades, Told
  <2> QED BY <2>4, <2>5, <2>7 DEF CacheInv
<1>9. CASE k = "legacy"
  <2>1. /\ Return(p) /\ quiet' = 0 /\ how' \in Tellings
        /\ how' = "Del" => ok
    BY <1>4, <1>9 DEF Tellings
  <2>2. Between \in Calls
    BY <1>1, <1>3 DEF Between, Calls, CallSteps
  <2>3. op' \in [Procs -> Calls]
    BY <2>1, <2>2, CacheTypes DEF Return
  <2>4. CacheTyped'
    BY <1>5, <1>6, <1>7, <2>1, <2>3, TellingTypes, CacheTypes DEF Versions
  <2>5. how' = "Del" => redis'["legacy"] = NoCopy
    BY <1>1, <1>4, <1>9, <2>1, CacheTypes
  <2>6. AllFade'
    BY <1>6, <1>7, <2>1, <2>4, <2>5, ToldNow
  <2> QED BY <2>1, <2>4, <2>6 DEF CacheInv
<1> QED BY <1>1, <1>8, <1>9 DEF EntryNames

\* Every end lies within the bound that StaleBounded states.
LEMMA BoundOfEnds ==
  ASSUME NEW h
  PROVE  /\ StaleFor(h) \in Nat /\ StaleFor(h) + 1 \in 0 .. (DelBound + TTL)
         /\ \A k \in EntryNames : /\ RedisEnd(k, h) <= StaleFor(h) + 1
                                  /\ LocalEnd(k, h) <= StaleFor(h) + 1
<1>1. TTL \in Nat \ {0} /\ LocalTTL \in Nat \ {0} /\ EntryNames = {"present", "legacy"}
  BY Ends DEF EntryNames
<1>2. CASE h = "Set"
  <2>1. StaleFor(h) = 2 * (LocalTTL - 1) + (TTL - 1) + (TTL - 1)
    BY <1>2 DEF StaleFor, DelBound
  <2>2. LegacyEnd(h) = LocalTTL + TTL - 1
    BY <1>1, <1>2 DEF LegacyEnd
  <2>3. \A k \in EntryNames :
          /\ RedisEnd(k, h) = IF k = "legacy" THEN TTL ELSE LegacyEnd(h) + TTL - 1
          /\ LocalEnd(k, h) =
               IF k = "legacy" THEN LegacyEnd(h) ELSE LegacyEnd(h) + TTL + LocalTTL - 2
    BY <1>2 DEF RedisEnd, LocalEnd
  <2>4. DelBound + TTL = 2 * (LocalTTL - 1) + (TTL - 1) + TTL
    BY <1>1 DEF DelBound
  <2> QED BY <1>1, <2>1, <2>2, <2>3, <2>4
<1>3. CASE h # "Set"
  <2>1. StaleFor(h) = 2 * (LocalTTL - 1) + (TTL - 1)
    BY <1>3 DEF StaleFor, DelBound
  <2>2. LegacyEnd(h) = LocalTTL
    BY <1>1, <1>3 DEF LegacyEnd
  <2>3. \A k \in EntryNames :
          /\ RedisEnd(k, h) = IF k = "legacy" THEN 0 ELSE LegacyEnd(h) + TTL - 1
          /\ LocalEnd(k, h) =
               IF k = "legacy" THEN LegacyEnd(h) ELSE LegacyEnd(h) + TTL + LocalTTL - 2
    BY <1>3 DEF RedisEnd, LocalEnd
  <2>4. DelBound + TTL = 2 * (LocalTTL - 1) + (TTL - 1) + TTL
    BY <1>1 DEF DelBound
  <2> QED BY <1>1, <2>1, <2>2, <2>3, <2>4
<1> QED BY <1>2, <1>3

\* A copy that has grown older fades as before: what it lost in time has passed.
LEMMA OlderFades ==
  ASSUME NEW n \in Nat, NEW c \in Copies(n), NEW end \in Nat, quiet \in Nat, Fades(c, end),
         Alive(c), end <= StaleFor(how) + 1, StaleFor(how) \in Nat, NoCopy \in Copies(n),
         ~Changing, ~Changing', UNCHANGED <<src, how>>,
         quiet' = IF quiet <= StaleFor(how) THEN quiet + 1 ELSE quiet,
         NEW d, d = Older(c)
  PROVE  /\ d \in Copies(n) /\ Alive(d)
         /\ Told' /\ d # NoCopy /\ d.value # src' => quiet' + d.ttl <= end
<1>1. c.ttl \in 0 .. n /\ c.value \in 0 .. MaxVersion /\ c = [value |-> c.value, ttl |-> c.ttl]
  BY DEF Copies
<1>2. CASE c.ttl <= 1
  BY <1>2 DEF Older, Alive
<1>3. CASE ~(c.ttl <= 1)
  <2>1. c.ttl - 1 \in 0 .. n /\ c.ttl - 1 > 0
    BY <1>1, <1>3
  <2>2. d = [value |-> c.value, ttl |-> c.ttl - 1]
    BY <1>1, <1>3 DEF Older
  <2>3. d \in Copies(n) /\ Alive(d)
    BY <1>1, <2>1, <2>2 DEF Copies, Alive
  <2>4. ASSUME Told', d.value # src' PROVE quiet' + d.ttl <= end
    <3>1. Told /\ Stale(c)
      <4>1. c # NoCopy
        BY <1>3 DEF NoCopy
      <4> QED BY <2>2, <2>4, <4>1 DEF Told, Stale
    <3>2. quiet + c.ttl <= end
      BY <3>1 DEF Fades
    <3>3. quiet' = quiet + 1
      BY <1>1, <1>3, <3>2
    <3> QED BY <1>1, <2>2, <3>2, <3>3
  <2> QED BY <2>3, <2>4
<1> QED BY <1>1, <1>2, <1>3

LEMMA CacheTickKeeps == ASSUME CacheInv, CacheTick PROVE CacheInv'
<1>1. ~Changing /\ ~Changing'
  BY DEF CacheTick, Changing, Telling, Between
<1>2. /\ quiet' = IF quiet <= StaleFor(how) THEN quiet + 1 ELSE quiet
      /\ UNCHANGED <<provider, src, op, how>>
  BY DEF CacheTick
<1>3. /\ quiet \in Nat /\ StaleFor(how) \in Nat /\ TTL \in Nat /\ LocalTTL \in Nat
      /\ NoCopy \in Copies(TTL) /\ NoCopy \in Copies(LocalTTL)
  BY CacheTypes, BoundOfEnds, Ends
<1>4. ASSUME NEW k \in EntryNames
      PROVE  /\ Older(redis[k]) \in Copies(TTL) /\ redis'[k] = Older(redis[k])
             /\ Alive(redis'[k]) /\ Fades(redis[k], RedisEnd(k, how))'
  <2>1. RedisEnd(k, how) \in Nat /\ RedisEnd(k, how) <= StaleFor(how) + 1
    BY Ends, BoundOfEnds
  <2>2. redis[k] \in Copies(TTL) /\ Alive(redis[k]) /\ Fades(redis[k], RedisEnd(k, how))
    BY CopiesNow DEF RedisCopy
  <2>3. redis'[k] = Older(redis[k])
    BY DEF CacheTick
  <2>4. /\ redis'[k] \in Copies(TTL) /\ Alive(redis'[k])
        /\ Told' /\ redis'[k] # NoCopy /\ redis'[k].value # src' =>
             quiet' + redis'[k].ttl <= RedisEnd(k, how)
    BY <1>1, <1>2, <1>3, <2>1, <2>2, <2>3, OlderFades
  <2> QED BY <1>2, <2>3, <2>4 DEF Fades, Stale, RedisEnd, LegacyEnd
<1>5. ASSUME NEW p \in Procs, NEW k \in EntryNames
      PROVE  /\ Older(local[p][k]) \in Copies(LocalTTL) /\ local'[p][k] = Older(local[p][k])
             /\ Alive(local'[p][k]) /\ Fades(local[p][k], LocalEnd(k, how))'
  <2>1. LocalEnd(k, how) \in Nat /\ LocalEnd(k, how) <= StaleFor(how) + 1
    BY Ends, BoundOfEnds
  <2>2. /\ local[p][k] \in Copies(LocalTTL) /\ Alive(local[p][k])
        /\ Fades(local[p][k], LocalEnd(k, how))
    BY CopiesNow DEF LocalCopy
  <2>3. local'[p][k] = Older(local[p][k])
    BY DEF CacheTick
  <2>4. /\ local'[p][k] \in Copies(LocalTTL) /\ Alive(local'[p][k])
        /\ Told' /\ local'[p][k] # NoCopy /\ local'[p][k].value # src' =>
             quiet' + local'[p][k].ttl <= LocalEnd(k, how)
    BY <1>1, <1>2, <1>3, <2>1, <2>2, <2>3, OlderFades
  <2> QED BY <1>2, <2>3, <2>4 DEF Fades, Stale, LocalEnd, LegacyEnd
<1>6. redis' \in [EntryNames -> Copies(TTL)]
  <2>1. \A k \in EntryNames : Older(redis[k]) \in Copies(TTL)
    BY <1>4
  <2> QED BY <2>1 DEF CacheTick
<1>7. local' \in [Procs -> [EntryNames -> Copies(LocalTTL)]]
  <2>1. \A p \in Procs, k \in EntryNames : Older(local[p][k]) \in Copies(LocalTTL)
    BY <1>5
  <2> QED BY <2>1 DEF CacheTick
<1>8. quiet' \in 0 .. (DelBound + TTL)
  <2>1. quiet \in 0 .. (DelBound + TTL)
    BY CacheTypes
  <2>2. StaleFor(how) + 1 \in 0 .. (DelBound + TTL)
    BY BoundOfEnds
  <2>3. DelBound + TTL \in Int
    BY <1>3 DEF DelBound
  <2> QED BY <1>2, <1>3, <2>1, <2>2, <2>3
<1>9. CacheTyped'
  <2>1. CacheMigrationTypeOK'
    BY <1>2, <1>6, <1>7, <1>8, CacheTypes
       DEF CacheMigrationTypeOK, Copies, Calls, CallSteps, Versions, Tellings
  <2> QED BY <1>4, <1>5, <2>1 DEF CacheTyped, Alive
<1>10. ASSUME NEW p \in Procs PROVE CallFades(op[p])'
  BY DEF CacheTick, Between, CallFades
<1> QED BY <1>1, <1>4, <1>5, <1>9, <1>10 DEF CacheInv, AllFade

LEMMA CacheSteps == ASSUME CacheInv, [CacheNext]_cacheVars PROVE CacheInv'
<1>1. CASE UNCHANGED cacheVars
  BY <1>1 DEF cacheVars, CacheInv, CacheTyped, CacheMigrationTypeOK, Alive, AllFade, Fades,
              CallFades, Changing, Telling, Told, Stale, RedisEnd, LocalEnd, LegacyEnd
<1>2. CASE \E p \in Procs :
             \/ CacheFun(p) \/ Exists(p) \/ GetValue(p) \/ Compute(p) \/ SetValue(p)
             \/ ChangeSource(p) \/ ChangeSet(p) \/ Del(p)
             \/ \E k \in EntryNames : Evict(p, k)
  BY <1>2, CacheFunKeeps, ExistsKeeps, GetValueKeeps, ComputeKeeps, SetValueKeeps,
     ChangeSourceKeeps, ChangeSetKeeps, DelKeeps, EvictKeeps
<1>3. CASE LegacySet
  BY <1>3, LegacySetKeeps
<1>4. CASE CacheTick
  BY <1>4, CacheTickKeeps
<1> QED BY <1>1, <1>2, <1>3, <1>4 DEF CacheNext

LEMMA FadingBounds == CacheInv => StaleBounded
<1> SUFFICES ASSUME CacheInv, how # "failed", quiet > StaleFor(how), NEW k \in EntryNames
             PROVE  /\ ~Stale(redis[k])
                    /\ \A p \in Procs : ~Stale(local[p][k])
  BY DEF StaleBounded, Stale
<1>1. StaleFor(how) \in Nat /\ quiet \in Nat /\ TTL \in Nat /\ LocalTTL \in Nat
  BY BoundOfEnds, CacheTypes, Ends
<1>2. Told
  BY <1>1 DEF Told, CacheInv
<1>3. ASSUME Stale(redis[k]) PROVE FALSE
  <2>1. RedisEnd(k, how) \in Nat /\ RedisEnd(k, how) <= StaleFor(how) + 1
    BY Ends, BoundOfEnds
  <2>2. quiet + redis[k].ttl <= RedisEnd(k, how)
    BY <1>2, <1>3, CopiesNow DEF RedisCopy, Fades
  <2>3. redis[k].ttl \in Nat /\ redis[k].ttl > 0
    BY <1>1, <1>3, CacheTypes DEF Copies, Alive, Stale
  <2> QED BY <1>1, <2>1, <2>2, <2>3
<1>4. ASSUME NEW p \in Procs, Stale(local[p][k]) PROVE FALSE
  <2>1. LocalEnd(k, how) \in Nat /\ LocalEnd(k, how) <= StaleFor(how) + 1
    BY Ends, BoundOfEnds
  <2>2. quiet + local[p][k].ttl <= LocalEnd(k, how)
    BY <1>2, <1>4, CopiesNow DEF LocalCopy, Fades
  <2>3. local[p][k].ttl \in Nat /\ local[p][k].ttl > 0
    BY <1>1, <1>4, CacheTypes DEF Copies, Alive, Stale
  <2> QED BY <1>1, <2>1, <2>2, <2>3
<1> QED BY <1>3, <1>4

\* In every behaviour of the cache, whatever the lifetimes and however many processes share
\* it, an old value is gone from redis and from every local copy once the cache was told of
\* the change and the lifetimes on the longest path of copies have passed.
THEOREM StaleIsBounded == CacheSpec => []StaleBounded
<1>1. CacheInv /\ [CacheNext]_cacheVars => CacheInv'
  BY CacheSteps
<1> QED BY <1>1, CacheInits, FadingBounds, PTL DEF CacheSpec

-----------------------------------------------------------------------------
(* Fingerprints                                                            *)

Answers == {"new", "duplicated", "saved", "removed"}
Pcs == {"idle", "read", "save", "create", "commit", "done"}
Callers == [pc : Pcs, object : Objects, ret : Returns]

FpTyped ==
  /\ row \in Prints /\ pending \in Prints
  /\ holder \in Requests \cup {NoRequest}
  /\ call \in [Requests -> Callers]
  /\ log \in Seq(Answers \X Objects)

\* The last entry that stored or removed something tells what the row is.
RowIsLast ==
  IF row = NoPrint THEN log = <<>>
  ELSE \E k \in DOMAIN log :
         /\ StoredLast(k, Len(log) + 1)
         /\ IF row.deleted THEN log[k][1] = "removed"
            ELSE log[k][1] # "removed" /\ log[k][2] = row.md5

\* A call works on an object that has an MD5.
Asked ==
  \A c \in Requests : call[c].pc \in {"read", "save", "create", "commit"} =>
    call[c].object \in Contents

\* The transaction that holds the row has answered for the row as it still is.
Answered ==
  \A c \in Requests :
    /\ call[c].pc = "commit" <=> holder = c
    /\ holder = c =>
         /\ pending = [md5 |-> call[c].object, deleted |-> FALSE]
         /\ \/ call[c].ret = "duplicated" /\ row = pending
            \/ /\ call[c].ret = "new"
               /\ row = NoPrint \/ (row.deleted = FALSE /\ row.md5 # call[c].object)

FpInv == FpTyped /\ RowIsLast /\ Asked /\ Answered /\ CheckedOnce

LEMMA FpInits == FingerprintsInit => FpInv
<1> SUFFICES ASSUME FingerprintsInit PROVE FpInv
  OBVIOUS
<1>1. NoObject \notin Contents /\ NoRequest \notin Requests
  BY FingerprintsAssumption DEF FingerprintsAssumption
<1>2. /\ row \in Prints /\ pending \in Prints /\ holder = NoRequest
      /\ call \in [Requests -> Callers] /\ \A c \in Requests : call[c].pc = "idle"
  BY DEF FingerprintsInit, Prints, Callers, Pcs, Returns, Objects
<1>3. CASE row = NoPrint
  <2>1. log = <<>>
    BY <1>3 DEF FingerprintsInit
  <2>2. log \in Seq(Answers \X Objects) /\ DOMAIN log = {}
    BY <2>1
  <2> QED BY <1>1, <1>2, <1>3, <2>1, <2>2
       DEF FpInv, FpTyped, RowIsLast, Asked, Answered, CheckedOnce
<1>4. CASE row # NoPrint /\ ~row.deleted
  <2>1. row.md5 \in Contents /\ row.deleted \in BOOLEAN
    BY <1>4 DEF FingerprintsInit
  <2>2. log = <<<<"saved", row.md5>>>>
    BY <1>4 DEF FingerprintsInit
  <2>3. /\ log \in Seq(Answers \X Objects) /\ Len(log) = 1 /\ DOMAIN log = {1}
        /\ log[1][1] = "saved" /\ log[1][2] = row.md5
    BY <2>1, <2>2 DEF Answers, Objects
  <2>4. StoredLast(1, Len(log) + 1)
    BY <2>3 DEF StoredLast
  <2>5. CheckedOnce
    BY <2>3 DEF CheckedOnce
  <2> QED BY <1>1, <1>2, <1>4, <2>1, <2>3, <2>4, <2>5
       DEF FpInv, FpTyped, RowIsLast, Asked, Answered
<1>5. CASE row # NoPrint /\ row.deleted
  <2>1. row.md5 \in Contents /\ row.deleted \in BOOLEAN
    BY <1>5 DEF FingerprintsInit
  <2>2. log = <<<<"saved", row.md5>>>> \o <<<<"removed", NoObject>>>>
    BY <1>5 DEF FingerprintsInit
  <2>3. /\ log \in Seq(Answers \X Objects) /\ Len(log) = 2 /\ DOMAIN log = 1 .. 2
        /\ log[1][1] = "saved" /\ log[2][1] = "removed"
    <3> DEFINE s == <<<<"saved", row.md5>>>>
               t == <<<<"removed", NoObject>>>>
    <3>1. s \in Seq(Answers \X Objects) /\ t \in Seq(Answers \X Objects)
      BY <2>1 DEF Answers, Objects
    <3>2. Len(s) = 1 /\ Len(t) = 1 /\ s[1][1] = "saved" /\ t[1][1] = "removed"
      OBVIOUS
    <3> HIDE DEF s, t
    <3>3. /\ s \o t \in Seq(Answers \X Objects) /\ Len(s \o t) = 2
          /\ (s \o t)[1] = s[1] /\ (s \o t)[2] = t[1]
      BY <3>1, <3>2, ConcatProperties, SMTT(30)
    <3>4. log = s \o t
      BY <2>2 DEF s, t
    <3> QED BY <3>2, <3>3, <3>4
  <2>4. StoredLast(2, Len(log) + 1)
    BY <2>3 DEF StoredLast
  <2>5. CheckedOnce
    BY <2>3 DEF CheckedOnce
  <2> QED BY <1>1, <1>2, <1>5, <2>1, <2>3, <2>4, <2>5
       DEF FpInv, FpTyped, RowIsLast, Asked, Answered
<1> QED BY <1>3, <1>4, <1>5

\* An answer is appended to the log.  What was said before stands; the entry itself has to
\* agree with the row as it was, and becomes the last one unless it says "duplicated".
LEMMA Logged ==
  ASSUME FpTyped, RowIsLast, CheckedOnce, NEW e \in Answers \X Objects, log' = Append(log, e),
         e[1] = "new" => row = NoPrint \/ (row.deleted = FALSE /\ row.md5 # e[2]),
         e[1] = "duplicated" => row # NoPrint /\ row.deleted = FALSE /\ row.md5 = e[2]
  PROVE  /\ log' \in Seq(Answers \X Objects) /\ CheckedOnce'
         /\ Len(log') = Len(log) + 1 /\ log'[Len(log')] = e
         /\ e[1] # "duplicated" => StoredLast(Len(log), Len(log) + 1)'
         /\ \A k \in DOMAIN log : /\ k \in DOMAIN log' /\ log'[k] = log[k]
                                  /\ StoredLast(k, Len(log) + 1) /\ e[1] = "duplicated" =>
                                       StoredLast(k, Len(log) + 1)'
<1>1. log \in Seq(Answers \X Objects) /\ Len(log) \in Nat /\ DOMAIN log = 1 .. Len(log)
  BY DEF FpTyped
<1>2. /\ log' \in Seq(Answers \X Objects) /\ Len(log') = Len(log) + 1
      /\ log'[Len(log) + 1] = e /\ \A k \in 1 .. Len(log) : log'[k] = log[k]
      /\ DOMAIN log' = 1 .. Len(log) + 1
  BY <1>1
<1>3. \A i \in 1 .. Len(log) + 1, k \in 1 .. Len(log) :
        StoredLast(k, i)' <=> StoredLast(k, i)
  BY <1>1, <1>2 DEF StoredLast
<1>4. ASSUME NEW i \in DOMAIN log'
      PROVE  /\ log'[i][1] = "new" =>
                  \A k \in DOMAIN log' :
                    StoredLast(k, i)' => log'[k][1] # "removed" /\ log'[k][2] # log'[i][2]
             /\ log'[i][1] = "duplicated" =>
                  \E k \in DOMAIN log' :
                    /\ StoredLast(k, i)'
                    /\ log'[k][1] # "removed" /\ log'[k][2] = log'[i][2]
  <2>1. CASE i \in 1 .. Len(log)
    <3>1. ASSUME NEW k \in DOMAIN log', StoredLast(k, i)'
          PROVE  k \in 1 .. Len(log)
      BY <1>1, <1>2, <2>1, <3>1 DEF StoredLast
    <3>2. /\ log[i][1] = "new" =>
               \A k \in DOMAIN log :
                 StoredLast(k, i) => log[k][1] # "removed" /\ log[k][2] # log[i][2]
          /\ log[i][1] = "duplicated" =>
               \E k \in DOMAIN log :
                 StoredLast(k, i) /\ log[k][1] # "removed" /\ log[k][2] = log[i][2]
      BY <1>1, <2>1 DEF CheckedOnce
    <3> QED BY <1>1, <1>2, <1>3, <2>1, <3>1, <3>2
  <2>2. CASE i = Len(log) + 1
    <3>1. CASE log = <<>>
      <4>1. \A k \in DOMAIN log' : ~StoredLast(k, i)'
        BY <1>2, <2>2, <3>1 DEF StoredLast
      <4>2. row = NoPrint
        BY <3>1 DEF RowIsLast
      <4> QED BY <1>2, <2>2, <4>1, <4>2
    <3>2. CASE log # <<>>
      <4>1. PICK k \in DOMAIN log :
              /\ StoredLast(k, Len(log) + 1)
              /\ IF row.deleted THEN log[k][1] = "removed"
                 ELSE log[k][1] # "removed" /\ log[k][2] = row.md5
        BY <3>2 DEF RowIsLast
      <4>2. row # NoPrint
        BY <3>2 DEF RowIsLast
      <4>3. ASSUME NEW j \in DOMAIN log', StoredLast(j, i)' PROVE j = k
        <5>1. j \in 1 .. Len(log) /\ StoredLast(j, Len(log) + 1)
          BY <1>1, <1>2, <1>3, <2>2, <4>3 DEF StoredLast
        <5> QED BY <1>1, <4>1, <5>1 DEF StoredLast
      <4>4. StoredLast(k, i)'
        BY <1>1, <1>3, <2>2, <4>1, SMTT(30)
      <4> QED BY <1>1, <1>2, <2>2, <4>1, <4>2, <4>3, <4>4
    <3> QED BY <3>1, <3>2
  <2> QED BY <1>1, <1>2, <2>1, <2>2
<1>5. CheckedOnce'
  BY <1>4 DEF CheckedOnce
<1>6. e[1] # "duplicated" => StoredLast(Len(log), Len(log) + 1)'
  BY <1>1, <1>2 DEF StoredLast
<1>7. ASSUME NEW k \in DOMAIN log, StoredLast(k, Len(log) + 1), e[1] = "duplicated"
      PROVE  StoredLast(k, Len(log) + 1)'
  BY <1>1, <1>2, <1>7 DEF StoredLast
<1> QED BY <1>1, <1>2, <1>5, <1>6, <1>7

\* What a call does apart from the log: at most the row that it holds changes hands.
LEMMA FpSilent ==
  ASSUME FpInv, UNCHANGED <<row, log>>, call' \in [Requests -> Callers],
         pending' \in Prints, holder' \in Requests \cup {NoRequest}, Asked', Answered'
  PROVE  FpInv'
<1>1. RowIsLast'
  BY DEF FpInv, RowIsLast, StoredLast
<1>2. CheckedOnce'
  BY DEF FpInv, CheckedOnce, StoredLast
<1> QED BY <1>1, <1>2 DEF FpInv, FpTyped

LEMMA FpTypes ==
  ASSUME FpInv
  PROVE  /\ row \in Prints /\ pending \in Prints
         /\ holder \in Requests \cup {NoRequest}
         /\ call \in [Requests -> Callers]
         /\ log \in Seq(Answers \X Objects)
         /\ NoObject \notin Contents /\ NoRequest \notin Requests
         /\ NoPrint \notin [md5 : Contents, deleted : BOOLEAN]
BY FingerprintsAssumption DEF FpInv, FpTyped, FingerprintsAssumption

\* One call replaced by another.
LEMMA FpCall ==
  ASSUME FpInv, NEW c \in Requests, NEW r \in Callers, call' = [call EXCEPT ![c] = r]
  PROVE  /\ call' \in [Requests -> Callers] /\ call'[c] = r
         /\ \A d \in Requests : d # c => call'[d] = call[d]
BY FpTypes

LEMMA BeginCallKeeps == ASSUME FpInv, NEW c \in Requests, BeginCall(c) PROVE FpInv'
<1>1. call[c].pc = "idle" /\ call[c] \in Callers
  BY FpTypes DEF BeginCall
<1>2. PICK r \in Callers :
        /\ call' = [call EXCEPT ![c] = r]
        /\ r.pc \in {"read", "save", "done"} /\ (r.pc # "done" => r.object \in Contents)
  <2>1. CASE call' = [call EXCEPT ![c].pc = "done", ![c].ret = "error"]
    <3> DEFINE r == [call[c] EXCEPT !.pc = "done", !.ret = "error"]
    <3>1. r \in Callers /\ r.pc = "done"
      BY <1>1 DEF Callers, Pcs, Returns
    <3>2. call' = [call EXCEPT ![c] = r]
      BY <2>1, FpTypes
    <3> QED BY <3>1, <3>2
  <2>2. ASSUME NEW o \in Contents, NEW pc \in {"read", "save"},
               call' = [call EXCEPT ![c].pc = pc, ![c].object = o]
        PROVE  \E r \in Callers :
                 /\ call' = [call EXCEPT ![c] = r]
                 /\ r.pc \in {"read", "save", "done"} /\ (r.pc # "done" => r.object \in Contents)
    <3> DEFINE r == [call[c] EXCEPT !.pc = pc, !.object = o]
    <3>1. r \in Callers /\ r.pc = pc /\ r.object = o
      BY <1>1 DEF Callers, Pcs, Objects
    <3>2. call' = [call EXCEPT ![c] = r]
      BY <2>2, FpTypes
    <3> QED BY <3>1, <3>2
  <2> QED BY <2>1, <2>2 DEF BeginCall
<1>3. /\ call' \in [Requests -> Callers] /\ call'[c] = r
      /\ \A d \in Requests : d # c => call'[d] = call[d]
  BY <1>2, FpCall
<1>4. UNCHANGED <<row, pending, holder, log>>
  BY DEF BeginCall
<1>5. Asked'
  BY <1>2, <1>3 DEF FpInv, Asked
<1>6. Answered'
  BY <1>1, <1>2, <1>3, <1>4 DEF FpInv, Answered
<1> QED BY <1>3, <1>4, <1>5, <1>6, FpSilent, FpTypes

\* A call that asks on for another step, or reports.
LEMMA FpMoves ==
  ASSUME FpInv, NEW c \in Requests, NEW r \in Callers, call' = [call EXCEPT ![c] = r],
         UNCHANGED <<row, log, pending, holder>>, call[c].pc # "commit", r.pc # "commit",
         r.object = call[c].object, call[c].pc \in {"read", "save", "create"} \/ r.pc = "done"
  PROVE  FpInv'
<1>1. /\ call' \in [Requests -> Callers] /\ call'[c] = r
      /\ \A d \in Requests : d # c => call'[d] = call[d]
  BY FpCall
<1>2. Asked'
  BY <1>1 DEF FpInv, Asked
<1>3. Answered'
  BY <1>1 DEF FpInv, Answered
<1> QED BY <1>1, <1>2, <1>3, FpSilent, FpTypes

\* A call that takes the row and has its answer.
LEMMA FpHolds ==
  ASSUME FpInv, NEW c \in Requests, NEW ret \in {"new", "duplicated"}, holder = NoRequest,
         call[c].pc \in {"read", "create"}, holder' = c, UNCHANGED <<row, log>>,
         call' = [call EXCEPT ![c].pc = "commit", ![c].ret = ret],
         pending' = [md5 |-> call[c].object, deleted |-> FALSE],
         ret = "duplicated" => row = pending',
         ret = "new" => row = NoPrint \/ (row.deleted = FALSE /\ row.md5 # call[c].object)
  PROVE  FpInv'
<1> DEFINE r == [call[c] EXCEPT !.pc = "commit", !.ret = ret]
<1>1. call[c] \in Callers
  BY FpTypes
<1>2. r \in Callers /\ r.pc = "commit" /\ r.ret = ret /\ r.object = call[c].object
  BY <1>1 DEF Callers, Pcs, Returns
<1>3. call' = [call EXCEPT ![c] = r]
  BY FpTypes
<1> HIDE DEF r
<1>4. /\ call' \in [Requests -> Callers] /\ call'[c] = r
      /\ \A d \in Requests : d # c => call'[d] = call[d]
  BY <1>2, <1>3, FpCall
<1>5. call[c].object \in Contents
  BY DEF FpInv, Asked
<1>6. pending' \in Prints
  BY <1>5 DEF Prints
<1>7. Asked'
  BY <1>2, <1>4, <1>5 DEF FpInv, Asked
<1>8. Answered'
  <2> SUFFICES ASSUME NEW d \in Requests
               PROVE  /\ call'[d].pc = "commit" <=> holder' = d
                      /\ holder' = d =>
                           /\ pending' = [md5 |-> call'[d].object, deleted |-> FALSE]
                           /\ \/ call'[d].ret = "duplicated" /\ row' = pending'
                              \/ /\ call'[d].ret = "new"
                                 /\ \/ row' = NoPrint
                                    \/ row'.deleted = FALSE /\ row'.md5 # call'[d].object
    BY DEF Answered
  <2>1. CASE d = c
    <3>1. UNCHANGED row
      OBVIOUS
    <3> QED BY <1>2, <1>4, <2>1, <3>1
  <2>2. CASE d # c
    <3>1. d # NoRequest
      BY FpTypes
    <3>2. call[d].pc # "commit"
      BY <3>1 DEF FpInv, Answered
    <3> QED BY <1>4, <2>2, <3>2
  <2> QED BY <2>1, <2>2
<1> QED BY <1>4, <1>6, <1>7, <1>8, FpSilent

LEMMA ReadRowKeeps == ASSUME FpInv, NEW c \in Requests, ReadRow(c) PROVE FpInv'
<1>1. call[c].pc = "read" /\ call[c] \in Callers
  BY FpTypes DEF ReadRow
<1>2. CASE ~Visible
  <2> DEFINE r == [call[c] EXCEPT !.pc = "create"]
  <2>1. r \in Callers /\ r.pc = "create" /\ r.object = call[c].object
    BY <1>1 DEF Callers, Pcs
  <2>2. call' = [call EXCEPT ![c] = r]
    BY <1>2, FpTypes DEF ReadRow, Proceed
  <2>3. UNCHANGED <<row, log, pending, holder>>
    BY <1>2 DEF ReadRow
  <2> HIDE DEF r
  <2> QED BY <1>1, <2>1, <2>2, <2>3, FpMoves
<1>3. CASE Visible
  <2> DEFINE ret == IF row.md5 = call[c].object THEN "duplicated" ELSE "new"
  <2>1. row \in [md5 : Contents, deleted : BOOLEAN] /\ row.deleted = FALSE
    BY <1>3, FpTypes DEF Visible, Prints
  <2>2. /\ holder = NoRequest /\ holder' = c /\ UNCHANGED <<row, log>>
        /\ pending' = [row EXCEPT !.md5 = call[c].object]
        /\ call' = [call EXCEPT ![c].pc = "commit", ![c].ret = ret]
    BY <1>3 DEF ReadRow
  <2>3. pending' = [md5 |-> call[c].object, deleted |-> FALSE]
    BY <2>1, <2>2
  <2>4. row = [md5 |-> row.md5, deleted |-> FALSE]
    BY <2>1
  <2>5. ret \in {"new", "duplicated"}
    OBVIOUS
  <2>6. ret = "duplicated" => row = pending'
    BY <2>3, <2>4
  <2>7. ret = "new" => row.md5 # call[c].object
    OBVIOUS
  <2> HIDE DEF ret
  <2> QED BY <1>1, <2>1, <2>2, <2>3, <2>5, <2>6, <2>7, FpHolds
<1> QED BY <1>2, <1>3

LEMMA CreateRowKeeps == ASSUME FpInv, NEW c \in Requests, CreateRow(c) PROVE FpInv'
<1>1. call[c].pc = "create" /\ call[c] \in Callers
  BY FpTypes DEF CreateRow
<1>2. CASE row # NoPrint
  <2> DEFINE r == [call[c] EXCEPT !.pc = "done", !.ret = "error"]
  <2>1. r \in Callers /\ r.pc = "done" /\ r.object = call[c].object
    BY <1>1 DEF Callers, Pcs, Returns
  <2>2. call' = [call EXCEPT ![c] = r]
    BY <1>2, FpTypes DEF CreateRow, EndCall
  <2>3. UNCHANGED <<row, log, pending, holder>>
    BY <1>2 DEF CreateRow
  <2> HIDE DEF r
  <2> QED BY <1>1, <2>1, <2>2, <2>3, FpMoves
<1>3. CASE row = NoPrint
  <2>1. /\ holder = NoRequest /\ holder' = c /\ UNCHANGED <<row, log>>
        /\ pending' = [md5 |-> call[c].object, deleted |-> FALSE]
        /\ call' = [call EXCEPT ![c].pc = "commit", ![c].ret = "new"]
    BY <1>3 DEF CreateRow
  <2> QED BY <1>1, <1>3, <2>1, FpHolds
<1> QED BY <1>2, <1>3

LEMMA AbortKeeps == ASSUME FpInv, NEW c \in Requests, Abort(c) PROVE FpInv'
<1> DEFINE r == [call[c] EXCEPT !.pc = "done", !.ret = "error"]
<1>1. call[c] \in Callers /\ call[c].pc \in {"read", "save", "create", "commit"}
  BY FpTypes DEF Abort
<1>2. r \in Callers /\ r.pc = "done" /\ r.object = call[c].object
  BY <1>1 DEF Callers, Pcs, Returns
<1>3. call' = [call EXCEPT ![c] = r]
  BY FpTypes DEF Abort, EndCall
<1> HIDE DEF r
<1>4. UNCHANGED <<row, log>>
  BY DEF Abort
<1>5. CASE call[c].pc # "commit"
  BY <1>1, <1>2, <1>3, <1>5, FpMoves DEF Abort
<1>6. CASE call[c].pc = "commit"
  <2>1. pending' = NoPrint /\ holder' = NoRequest
    BY <1>6 DEF Abort
  <2>2. /\ call' \in [Requests -> Callers] /\ call'[c] = r
        /\ \A d \in Requests : d # c => call'[d] = call[d]
    BY <1>2, <1>3, FpCall
  <2>3. Asked'
    BY <1>2, <2>2 DEF FpInv, Asked
  <2>4. Answered'
    BY <1>2, <1>6, <2>1, <2>2, FpTypes DEF FpInv, Answered
  <2>5. pending' \in Prints
    BY <2>1 DEF Prints
  <2> QED BY <1>4, <2>1, <2>2, <2>3, <2>4, <2>5, FpSilent
<1> QED BY <1>5, <1>6

\* The row is written, and the log tells of it: the transaction ends.
LEMMA FpStores ==
  ASSUME FpInv, NEW c \in Requests, NEW r \in Callers, call' = [call EXCEPT ![c] = r],
         r.pc = "done", holder' = NoRequest, pending' = NoPrint \/ UNCHANGED pending,
         holder \in {NoRequest, c},
         NEW e \in Answers \X Objects, log' = Append(log, e),
         e[1] = "new" => row = NoPrint \/ (row.deleted = FALSE /\ row.md5 # e[2]),
         e[1] = "duplicated" => row # NoPrint /\ row.deleted = FALSE /\ row.md5 = e[2],
         row' \in [md5 : Contents, deleted : BOOLEAN],
         e[1] = "duplicated" => UNCHANGED row,
         e[1] = "removed" => row'.deleted,
         e[1] \in {"new", "saved"} => row'.deleted = FALSE /\ row'.md5 = e[2]
  PROVE  FpInv'
<1>1. /\ call' \in [Requests -> Callers] /\ call'[c] = r
      /\ \A d \in Requests : d # c => call'[d] = call[d]
  BY FpCall
<1>2. /\ log' \in Seq(Answers \X Objects) /\ CheckedOnce'
      /\ Len(log') = Len(log) + 1 /\ log'[Len(log')] = e
      /\ e[1] # "duplicated" => StoredLast(Len(log), Len(log) + 1)'
      /\ \A k \in DOMAIN log : /\ k \in DOMAIN log' /\ log'[k] = log[k]
                               /\ StoredLast(k, Len(log) + 1) /\ e[1] = "duplicated" =>
                                    StoredLast(k, Len(log) + 1)'
  BY Logged DEF FpInv
<1>3. e[1] \in Answers /\ Len(log) \in Nat
  BY FpTypes
<1>4. RowIsLast'
  <2>1. CASE e[1] # "duplicated"
    <3>1. Len(log') \in DOMAIN log'
      BY <1>2, <1>3
    <3>2. IF row'.deleted THEN e[1] = "removed"
          ELSE e[1] # "removed" /\ e[2] = row'.md5
      BY <1>3, <2>1 DEF Answers
    <3>3. row' # NoPrint
      BY FpTypes
    <3>4. StoredLast(Len(log), Len(log) + 1)'
      BY <1>2, <2>1
    <3> QED BY <1>2, <3>1, <3>2, <3>3, <3>4 DEF RowIsLast
  <2>2. CASE e[1] = "duplicated"
    <3>1. row # NoPrint /\ UNCHANGED row
      BY <2>2
    <3>2. PICK k \in DOMAIN log :
            /\ StoredLast(k, Len(log) + 1)
            /\ IF row.deleted THEN log[k][1] = "removed"
               ELSE log[k][1] # "removed" /\ log[k][2] = row.md5
      BY <3>1 DEF FpInv, RowIsLast
    <3>3. k \in DOMAIN log' /\ log'[k] = log[k] /\ StoredLast(k, Len(log) + 1)'
      BY <1>2, <2>2, <3>2
    <3> QED BY <3>1, <3>2, <3>3 DEF RowIsLast
  <2> QED BY <2>1, <2>2
<1>5. Asked'
  BY <1>1 DEF FpInv, Asked
<1>6. Answered'
  BY <1>1, FpTypes DEF FpInv, Answered
<1> QED BY <1>1, <1>2, <1>4, <1>5, <1>6, FpTypes DEF FpInv, FpTyped, Prints

LEMMA CommitKeeps == ASSUME FpInv, NEW c \in Requests, Commit(c) PROVE FpInv'
<1> DEFINE r == [call[c] EXCEPT !.pc = "done"]
           e == <<call[c].ret, call[c].object>>
<1>1. call[c] \in Callers /\ call[c].pc = "commit"
  BY FpTypes DEF Commit
<1>2. r \in Callers /\ r.pc = "done"
  BY <1>1 DEF Callers, Pcs
<1>3. call' = [call EXCEPT ![c] = r]
  BY FpTypes DEF Commit, Proceed
<1>4. /\ holder = c /\ pending = [md5 |-> call[c].object, deleted |-> FALSE]
      /\ \/ call[c].ret = "duplicated" /\ row = pending
         \/ /\ call[c].ret = "new"
            /\ row = NoPrint \/ (row.deleted = FALSE /\ row.md5 # call[c].object)
  BY <1>1 DEF FpInv, Answered
<1>5. call[c].object \in Contents
  BY <1>1 DEF FpInv, Asked
<1>6. /\ row' = pending /\ pending' = NoPrint /\ holder' = NoRequest
      /\ log' = Append(log, e)
  BY DEF Commit
<1>7. e \in Answers \X Objects /\ e[1] = call[c].ret /\ e[2] = call[c].object
  BY <1>4, <1>5 DEF Answers, Objects
<1>8. pending \in [md5 : Contents, deleted : BOOLEAN]
  BY <1>4, <1>5
<1>9. pending # NoPrint /\ pending.md5 = call[c].object /\ pending.deleted = FALSE
  BY <1>4, <1>8, FpTypes
<1> HIDE DEF r, e
<1>10. e[1] = "new" => row = NoPrint \/ (row.deleted = FALSE /\ row.md5 # e[2])
  BY <1>4, <1>7
<1>11. e[1] = "duplicated" =>
         row # NoPrint /\ row.deleted = FALSE /\ row.md5 = e[2] /\ UNCHANGED row
  BY <1>4, <1>6, <1>7, <1>9
<1>12. e[1] \in {"new", "duplicated"} /\ row'.deleted = FALSE /\ row'.md5 = e[2]
  BY <1>4, <1>6, <1>7, <1>9
<1>13. holder \in {NoRequest, c} /\ row' \in [md5 : Contents, deleted : BOOLEAN]
  BY <1>4, <1>6, <1>8
<1> QED BY <1>2, <1>3, <1>6, <1>7, <1>10, <1>11, <1>12, <1>13, FpStores

LEMMA SetRowKeeps == ASSUME FpInv, NEW c \in Requests, SetRow(c) PROVE FpInv'
<1> DEFINE r == [call[c] EXCEPT !.pc = "done", !.ret = "saved"]
           e == <<"saved", call[c].object>>
<1>1. call[c] \in Callers /\ call[c].pc = "save" /\ holder = NoRequest
  BY FpTypes DEF SetRow
<1>2. r \in Callers /\ r.pc = "done"
  BY <1>1 DEF Callers, Pcs, Returns
<1>3. call' = [call EXCEPT ![c] = r]
  BY FpTypes DEF SetRow, EndCall
<1>4. call[c].object \in Contents
  BY <1>1 DEF FpInv, Asked
<1>5. /\ row' = [md5 |-> call[c].object, deleted |-> FALSE] /\ UNCHANGED <<pending, holder>>
      /\ log' = Append(log, e)
  BY DEF SetRow
<1>6. e \in Answers \X Objects /\ e[1] = "saved" /\ e[2] = call[c].object
  BY <1>4 DEF Answers, Objects
<1>7. row' \in [md5 : Contents, deleted : BOOLEAN]
  BY <1>4, <1>5
<1> HIDE DEF r, e
<1> QED BY <1>1, <1>2, <1>3, <1>5, <1>6, <1>7, FpStores

LEMMA SoftDeleteKeeps == ASSUME FpInv, NEW c \in Requests, SoftDelete(c) PROVE FpInv'
<1> DEFINE r == [call[c] EXCEPT !.pc = "done", !.ret = "removed"]
           e == <<"removed", NoObject>>
<1>1. call[c] \in Callers /\ holder = NoRequest
  BY FpTypes DEF SoftDelete
<1>2. r \in Callers /\ r.pc = "done"
  BY <1>1 DEF Callers, Pcs, Returns
<1>3. call' = [call EXCEPT ![c] = r]
  BY FpTypes DEF SoftDelete, EndCall
<1>4. row \in [md5 : Contents, deleted : BOOLEAN]
  BY FpTypes DEF SoftDelete, Visible, Prints
<1>5. /\ row' = [row EXCEPT !.deleted = TRUE] /\ UNCHANGED <<pending, holder>>
      /\ log' = Append(log, e)
  BY DEF SoftDelete
<1>6. e \in Answers \X Objects /\ e[1] = "removed"
  BY DEF Answers, Objects
<1>7. row' \in [md5 : Contents, deleted : BOOLEAN] /\ row'.deleted
  BY <1>4, <1>5
<1> HIDE DEF r, e
<1> QED BY <1>1, <1>2, <1>3, <1>5, <1>6, <1>7, FpStores

LEMMA FpSteps == ASSUME FpInv, [FingerprintsNext]_fpVars PROVE FpInv'
<1>1. CASE UNCHANGED fpVars
  BY <1>1 DEF fpVars, FpInv, FpTyped, RowIsLast, StoredLast, Asked, Answered, CheckedOnce
<1>2. CASE FingerprintsNext
  BY <1>2, BeginCallKeeps, ReadRowKeeps, CreateRowKeeps, CommitKeeps, AbortKeeps, SetRowKeeps,
     SoftDeleteKeeps DEF FingerprintsNext
<1> QED BY <1>1, <1>2

\* In every behaviour of the fingerprint service, however many calls run at once, a content
\* is new to a single one of them until another is stored, and "duplicated" is said only of
\* the content stored last: CheckAndSave decides under the lock of the row or by the insert
\* that the unique index lets through.
THEOREM CheckedOnlyOnce == FingerprintsSpec => []CheckedOnce
<1>1. FpInv /\ [FingerprintsNext]_fpVars => FpInv'
  BY FpSteps
<1>2. FpInv => CheckedOnce
  BY DEF FpInv
<1> QED BY <1>1, <1>2, FpInits, PTL DEF FingerprintsSpec

-----------------------------------------------------------------------------
(* HashCache                                                               *)

\* An entry is the only one of its field, holds what was set last and ends when SetTTL said;
\* in redis an entry that HSET adds would end with the others.
OneEach ==
  /\ \A e, d \in entries : e.field = d.field => e = d
  /\ \A e \in entries : e.set = lastSet[e.field]
  /\ \A f \in Fields : lastSet[f] # Missing => Present(f)
  /\ \A e \in entries : e.left = ends[e.field]
  /\ \A f \in Fields : ~Present(f) /\ (store # "redis" \/ entries = {}) => ends[f] = NoLimit
  /\ store = "redis" => \A f, g \in Fields : ends[f] = ends[g]

HashInv ==
  /\ HashTypeOK
  /\ store # "appends" => OneEach
  /\ store = "redis" => \A e \in entries : e.left > 0

LEMMA HashInits == HashInit => HashInv
<1> SUFFICES ASSUME HashInit PROVE HashInv
  OBVIOUS
<1>1. 0 \in 0 .. MaxSets /\ Missing = 0
  BY HashAssumption DEF HashAssumption, Missing
<1>2. NoLimit \in 0 .. NoLimit /\ NoLimit > 0
  BY HashAssumption DEF HashAssumption, NoLimit
<1> QED BY <1>1, <1>2 DEF HashInit, HashInv, HashTypeOK, OneEach

LEMMA HashTypes ==
  ASSUME HashInv
  PROVE  /\ HashLife \in Nat \ {0} /\ MaxSets \in Nat /\ NoLimit = HashLife + 1 /\ Missing = 0
         /\ entries \subseteq HashEntries /\ sets \in 0 .. MaxSets
         /\ lastSet \in [Fields -> 0 .. MaxSets] /\ ends \in [Fields -> 0 .. NoLimit]
         /\ literal \subseteq 1 .. MaxSets
         /\ \A e \in entries :
              /\ e.field \in Fields /\ e.set \in 1 .. MaxSets /\ e.left \in 0 .. NoLimit
              /\ e = [field |-> e.field, set |-> e.set, left |-> e.left]
BY HashAssumption DEF HashAssumption, HashInv, HashTypeOK, HashEntries, NoLimit, Missing

\* Every way to store values writes, of each field, an entry that the call has made or one
\* that was there, and no second one.
LEMMA SetValuesKeeps ==
  ASSUME HashInv, NEW fs \in SUBSET Fields, SetValues(fs) PROVE HashInv'
<1>1. /\ sets < MaxSets /\ sets' = sets + 1 /\ UNCHANGED <<store, kind, ends>>
      /\ store \in {"redis", "unique", "appends"}
      /\ lastSet' = [f \in Fields |-> IF f \in fs THEN sets + 1 ELSE lastSet[f]]
      /\ literal' \subseteq literal \cup {sets + 1}
  BY DEF SetValues, HashInv, HashTypeOK
<1>2. /\ sets + 1 \in 1 .. MaxSets /\ sets' \in 0 .. MaxSets /\ NoLimit \in 0 .. NoLimit
      /\ NoLimit > 0
  BY <1>1, HashTypes
<1>3. lastSet' \in [Fields -> 0 .. MaxSets] /\ literal' \subseteq 1 .. MaxSets
  BY <1>1, <1>2, HashTypes
<1> DEFINE left == IF entries = {} THEN NoLimit ELSE (CHOOSE e \in entries : TRUE).left
           New(f, n) == [field |-> f, set |-> sets + 1, left |-> n]
<1>4. left \in 0 .. NoLimit
  BY <1>2, HashTypes
<1>5. \A f \in Fields, n \in 0 .. NoLimit : New(f, n) \in HashEntries
  BY <1>2 DEF HashEntries
<1>6. CASE store = "redis"
  <2>1. entries' = {e \in entries : e.field \notin fs} \cup {New(f, left) : f \in fs}
    BY <1>6 DEF SetValues, HSet
  <2>2. entries' \subseteq HashEntries
    BY <1>4, <1>5, <2>1, HashTypes
  <2>3. left > 0 /\ \A f \in Fields : left = ends[f]
    <3>1. CASE entries = {}
      <4>1. \A f \in Fields : ~Present(f)
        BY <3>1 DEF Present
      <4>2. left = NoLimit
        BY <3>1
      <4> HIDE DEF left
      <4> QED BY <1>2, <1>6, <3>1, <4>1, <4>2 DEF HashInv, OneEach
    <3>2. CASE entries # {}
      <4>1. PICK e \in entries : left = e.left
        BY <3>2
      <4> QED BY <1>6, <4>1, HashTypes DEF HashInv, OneEach
    <3> QED BY <3>1, <3>2
  <2> HIDE DEF left
  <2>4. \A e \in entries' : \/ e \in entries /\ e.field \notin fs
                            \/ e = New(e.field, left) /\ e.field \in fs
    BY <2>1
  <2>5. \A e \in entries' : e.left > 0
    BY <1>6, <2>3, <2>4 DEF HashInv
  <2>6. OneEach'
    <3>1. \A e, d \in entries' : e.field = d.field => e = d
      BY <1>6, <2>4 DEF HashInv, OneEach
    <3>2. ASSUME NEW e \in entries' PROVE e.set = lastSet'[e.field]
      <4>1. CASE e \in entries /\ e.field \notin fs
        BY <1>1, <1>6, <4>1, HashTypes DEF HashInv, OneEach
      <4>2. CASE e = New(e.field, left) /\ e.field \in fs
        BY <1>1, <4>2
      <4> QED BY <2>4, <4>1, <4>2
    <3>3. ASSUME NEW f \in Fields, lastSet'[f] # Missing PROVE Present(f)'
      <4>1. CASE f \in fs
        <5>1. New(f, left) \in entries' /\ New(f, left).field = f
          BY <2>1, <4>1
        <5> HIDE DEF New
        <5> QED BY <5>1 DEF Present
      <4>2. CASE f \notin fs
        <5>1. PICK e \in entries : e.field = f
          BY <1>1, <1>6, <3>3, <4>2 DEF HashInv, OneEach, Present
        <5> QED BY <2>1, <4>2, <5>1 DEF Present
      <4> QED BY <4>1, <4>2
    <3>4. ASSUME NEW e \in entries' PROVE e.left = ends'[e.field]
      BY <1>1, <1>6, <2>3, <2>4 DEF HashInv, OneEach
    <3>5. \A f, g \in Fields : ends'[f] = ends'[g]
      BY <1>1, <2>3
    <3>6. entries' = {} => \A f \in Fields : ends'[f] = NoLimit
      <4> SUFFICES ASSUME entries' = {} PROVE \A f \in Fields : ends'[f] = NoLimit
        OBVIOUS
      <4>1. \A f \in fs : New(f, left) \in entries'
        BY <2>1
      <4>2. \A e \in entries : e.field \in fs
        BY <2>1
      <4>3. entries = {}
        BY <4>1, <4>2
      <4>4. \A f \in Fields : ~Present(f)
        BY <4>3 DEF Present
      <4>5. \A f \in Fields : ends[f] = NoLimit
        <5>1. OneEach
          BY <1>6 DEF HashInv
        <5> QED BY <4>3, <4>4, <5>1 DEF OneEach
      <4> QED BY <1>1, <4>5
    <3> QED BY <1>1, <1>6, <3>1, <3>2, <3>3, <3>4, <3>5, <3>6 DEF OneEach
  <2> QED BY <1>1, <1>2, <1>3, <2>2, <2>5, <2>6 DEF HashInv, HashTypeOK
<1>7. CASE store = "unique"
  <2> DEFINE Over(e) == IF e.field \in fs THEN [e EXCEPT !.set = sets + 1] ELSE e
  <2>1. entries' = {Over(e) : e \in entries}
                     \cup {New(f, NoLimit) : f \in {g \in fs : ~Present(g)}}
    BY <1>7 DEF SetValues, Upsert
  <2>2. ASSUME NEW e \in entries
        PROVE  /\ Over(e) \in HashEntries /\ Over(e).field = e.field /\ Over(e).left = e.left
               /\ Over(e).set = IF e.field \in fs THEN sets + 1 ELSE e.set
    BY <1>2, HashTypes DEF HashEntries
  <2> HIDE DEF Over
  <2>3. \A e \in entries' :
          \/ \E d \in entries : e = Over(d)
          \/ e = New(e.field, NoLimit) /\ e.field \in fs /\ ~Present(e.field)
    BY <2>1
  <2>4. entries' \subseteq HashEntries
    BY <1>2, <1>5, <2>1, <2>2
  <2>5. OneEach
    BY <1>7 DEF HashInv
  <2>6. \A e, d \in entries' : e.field = d.field => e = d
    <3> SUFFICES ASSUME NEW e \in entries', NEW d \in entries', e.field = d.field PROVE e = d
      OBVIOUS
    <3>1. CASE (\E x \in entries : e = Over(x)) /\ (\E y \in entries : d = Over(y))
      BY <2>2, <2>5, <3>1 DEF OneEach
    <3>2. CASE ~(\E x \in entries : e = Over(x)) \/ ~(\E y \in entries : d = Over(y))
      BY <2>2, <2>3, <3>2 DEF Present
    <3> QED BY <3>1, <3>2
  <2>7. ASSUME NEW e \in entries' PROVE e.set = lastSet'[e.field]
    <3>1. CASE \E d \in entries : e = Over(d)
      BY <1>1, <2>2, <2>5, <3>1, HashTypes DEF OneEach
    <3>2. CASE e = New(e.field, NoLimit) /\ e.field \in fs
      BY <1>1, <3>2
    <3> QED BY <2>3, <3>1, <3>2
  <2>8. ASSUME NEW f \in Fields, lastSet'[f] # Missing PROVE Present(f)'
    <3>1. CASE Present(f)
      BY <2>1, <2>2, <3>1 DEF Present
    <3>2. CASE ~Present(f)
      <4>1. f \in fs
        BY <1>1, <2>5, <2>8, <3>2 DEF OneEach
      <4>2. New(f, NoLimit) \in entries' /\ New(f, NoLimit).field = f
        BY <2>1, <3>2, <4>1
      <4> HIDE DEF New
      <4> QED BY <4>2 DEF Present
    <3> QED BY <3>1, <3>2
  <2>9. ASSUME NEW e \in entries' PROVE e.left = ends'[e.field]
    <3>1. CASE \E d \in entries : e = Over(d)
      BY <1>1, <2>2, <2>5, <3>1 DEF OneEach
    <3>2. CASE e = New(e.field, NoLimit) /\ e.field \in fs /\ ~Present(e.field)
      BY <1>1, <1>7, <2>5, <3>2 DEF OneEach
    <3> QED BY <2>3, <3>1, <3>2
  <2>a. ASSUME NEW f \in Fields, ~Present(f)' PROVE ends'[f] = NoLimit
    <3>1. ~Present(f)
      BY <2>1, <2>2, <2>a DEF Present
    <3> QED BY <1>1, <1>7, <2>5, <3>1 DEF OneEach
  <2>10. OneEach'
    BY <1>1, <1>7, <2>6, <2>7, <2>8, <2>9, <2>a DEF OneEach
  <2> QED BY <1>1, <1>2, <1>3, <1>7, <2>4, <2>10 DEF HashInv, HashTypeOK
<1>8. CASE store = "appends"
  <2>1. entries' = entries \cup {New(f, NoLimit) : f \in fs}
    BY <1>8 DEF SetValues, InsertRows
  <2>2. entries' \subseteq HashEntries
    BY <1>2, <1>5, <2>1, HashTypes
  <2> QED BY <1>1, <1>2, <1>3, <1>8, <2>2 DEF HashInv, HashTypeOK
<1> QED BY <1>1, <1>6, <1>7, <1>8

\* A step that changes the lifetimes of entries only, or ends them all.
LEMMA LeftChanges ==
  ASSUME HashInv, UNCHANGED <<store, kind, sets, literal, lastSet>>, NEW life,
         \A e \in entries : life[e] \in 0 .. NoLimit,
         store = "redis" => \A e \in entries : life[e] > 0,
         entries' = {[e EXCEPT !.left = life[e]] : e \in entries},
         ends' \in [Fields -> 0 .. NoLimit],
         store # "appends" =>
           /\ \A e \in entries : life[e] = ends'[e.field]
           /\ \A f \in Fields :
                ~Present(f) /\ (store # "redis" \/ entries = {}) => ends'[f] = NoLimit
           /\ store = "redis" => \A f, g \in Fields : ends'[f] = ends'[g]
  PROVE  HashInv'
<1>1. ASSUME NEW e \in entries
      PROVE  LET d == [e EXCEPT !.left = life[e]]
             IN  d \in HashEntries /\ d.field = e.field /\ d.set = e.set /\ d.left = life[e]
  BY HashTypes DEF HashEntries
<1>2. entries' \subseteq HashEntries
  BY <1>1
<1>3. ASSUME NEW d \in entries'
      PROVE  \E e \in entries : /\ d = [e EXCEPT !.left = life[e]]
                                /\ d.field = e.field /\ d.set = e.set /\ d.left = life[e]
  <2>1. PICK e \in entries : d = [e EXCEPT !.left = life[e]]
    OBVIOUS
  <2>2. d.field = e.field /\ d.set = e.set /\ d.left = life[e]
    BY <1>1, <2>1
  <2> QED BY <2>1, <2>2
<1>4. store # "appends" => OneEach'
  <2> SUFFICES ASSUME OneEach, store # "appends" PROVE OneEach'
    BY DEF HashInv
  <2>1. \A e, d \in entries' : e.field = d.field => e = d
    BY <1>3 DEF OneEach
  <2>2. \A e \in entries' : e.set = lastSet'[e.field]
    BY <1>3 DEF OneEach
  <2>3. ASSUME NEW f \in Fields, lastSet'[f] # Missing PROVE Present(f)'
    <3>1. PICK e \in entries : e.field = f
      BY <2>3 DEF OneEach, Present
    <3> DEFINE d == [e EXCEPT !.left = life[e]]
    <3>2. d \in entries' /\ d.field = f
      BY <1>1, <3>1
    <3> HIDE DEF d
    <3> QED BY <3>2 DEF Present
  <2>4. \A e \in entries' : e.left = ends'[e.field]
    BY <1>3
  <2>5. ASSUME NEW f \in Fields, Present(f) PROVE Present(f)'
    <3>1. PICK e \in entries : e.field = f
      BY <2>5 DEF Present
    <3> DEFINE d == [e EXCEPT !.left = life[e]]
    <3>2. d \in entries' /\ d.field = f
      BY <1>1, <3>1
    <3> HIDE DEF d
    <3> QED BY <3>2 DEF Present
  <2>6. entries' = {} => entries = {}
    OBVIOUS
  <2> QED BY <2>1, <2>2, <2>3, <2>4, <2>5, <2>6 DEF OneEach
<1>5. store = "redis" => \A e \in entries' : e.left > 0
  BY <1>3
<1> QED BY <1>2, <1>4, <1>5 DEF HashInv, HashTypeOK

LEMMA SetTTLKeeps == ASSUME HashInv, NEW n \in 1 .. HashLife, SetTTL(n) PROVE HashInv'
<1> DEFINE life == [e \in entries |-> n]
<1>1. n \in 0 .. NoLimit /\ n > 0
  BY HashTypes
<1>2. entries' = {[e EXCEPT !.left = life[e]] : e \in entries}
  BY DEF SetTTL
<1>3. ends' = [f \in Fields |-> IF Present(f) \/ (store = "redis" /\ entries # {})
                               THEN n ELSE ends[f]]
  BY DEF SetTTL
<1>4. \A e \in entries : life[e] = n /\ ends'[e.field] = n
  BY <1>3, HashTypes DEF Present
<1>5. ends' \in [Fields -> 0 .. NoLimit]
  BY <1>1, <1>3, HashTypes
<1> HIDE DEF life
<1>6. ASSUME store # "appends", NEW f \in Fields, ~Present(f), store # "redis" \/ entries = {}
      PROVE  ends'[f] = NoLimit
  BY <1>3, <1>6 DEF HashInv, OneEach
<1>7. ASSUME store = "redis" PROVE \A f, g \in Fields : ends'[f] = ends'[g]
  <2>1. CASE entries = {}
    BY <1>3, <1>7, <2>1 DEF HashInv, OneEach, Present
  <2>2. CASE entries # {}
    BY <1>3, <1>7, <2>2
  <2> QED BY <2>1, <2>2
<1>8. UNCHANGED <<store, kind, sets, literal, lastSet>>
  BY DEF SetTTL
<1>9. /\ \A e \in entries : life[e] \in 0 .. NoLimit /\ life[e] > 0
      /\ \A e \in entries : life[e] = ends'[e.field]
  BY <1>1, <1>4
<1> HIDE DEF SetTTL
<1> QED BY <1>2, <1>5, <1>6, <1>7, <1>8, <1>9, LeftChanges

LEMMA HashTickKeeps == ASSUME HashInv, HashTick PROVE HashInv'
<1> DEFINE life == [e \in entries |-> Shorter(e.left)]
           aged == {[e EXCEPT !.left = life[e]] : e \in entries}
           over == store = "redis" /\ \E e \in aged : e.left = 0
<1>1. /\ entries' = IF over THEN {} ELSE aged
      /\ lastSet' = IF over THEN [f \in Fields |-> Missing] ELSE lastSet
      /\ ends' = [f \in Fields |-> IF over THEN NoLimit ELSE Shorter(ends[f])]
      /\ UNCHANGED <<store, kind, sets, literal>>
  BY DEF HashTick
<1>0. \A n \in 0 .. NoLimit : Shorter(n) \in 0 .. NoLimit
  BY HashTypes DEF Shorter
<1>2. \A e \in entries : life[e] \in 0 .. NoLimit /\ life[e] = Shorter(e.left)
  BY <1>0, HashTypes
<1>b. NoLimit \in 0 .. NoLimit
  BY HashTypes
<1>c. ends' \in [Fields -> 0 .. NoLimit]
  <2> HIDE DEF over
  <2> QED BY <1>0, <1>1, <1>b, HashTypes
<1>3. CASE over
  <2>1. 0 \in 0 .. MaxSets
    BY HashTypes
  <2>2. /\ entries' = {} /\ lastSet' = [f \in Fields |-> Missing]
        /\ \A f \in Fields : ends'[f] = NoLimit
    BY <1>1, <1>3
  <2> HIDE DEF over, aged, life
  <2>3. HashTypeOK'
    BY <1>1, <1>c, <2>1, <2>2, HashTypes DEF HashInv, HashTypeOK
  <2>4. OneEach'
    BY <2>2 DEF OneEach
  <2> QED BY <2>2, <2>3, <2>4 DEF HashInv
<1>4. CASE ~over /\ store # "appends"
  <2>1. ASSUME store = "redis", NEW e \in entries PROVE life[e] > 0
    <3>1. [e EXCEPT !.left = life[e]] \in aged /\ [e EXCEPT !.left = life[e]].left = life[e]
      BY HashTypes
    <3>2. life[e] # 0
      BY <1>4, <2>1, <3>1
    <3> QED BY <1>2, <3>2, HashTypes
  <2>2. entries' = {[e EXCEPT !.left = life[e]] : e \in entries}
    BY <1>1, <1>4
  <2>3. UNCHANGED lastSet /\ \A f \in Fields : ends'[f] = Shorter(ends[f])
    BY <1>1, <1>4
  <2>4. \A e \in entries : life[e] = ends'[e.field]
    BY <1>2, <1>4, <2>3, HashTypes DEF HashInv, OneEach
  <2> HIDE DEF over, aged, life
  <2>5. ASSUME NEW f \in Fields, ~Present(f), store # "redis" \/ entries = {}
        PROVE  ends'[f] = NoLimit
    BY <1>4, <2>3, <2>5 DEF HashInv, OneEach, Shorter
  <2>6. store = "redis" => \A f, g \in Fields : ends'[f] = ends'[g]
    BY <1>4, <2>3 DEF HashInv, OneEach
  <2> QED BY <1>1, <1>2, <1>c, <2>1, <2>2, <2>3, <2>4, <2>5, <2>6, LeftChanges
<1>5. CASE ~over /\ store = "appends"
  <2>1. ASSUME NEW e \in entries PROVE [e EXCEPT !.left = life[e]] \in HashEntries
    <3>1. life[e] \in 0 .. NoLimit
      BY <1>2
    <3> HIDE DEF life
    <3> QED BY <3>1, HashTypes DEF HashEntries
  <2>2. entries' \subseteq HashEntries
    BY <1>1, <1>5, <2>1
  <2> QED BY <1>1, <1>5, <1>c, <2>2 DEF HashInv, HashTypeOK
<1> QED BY <1>3, <1>4, <1>5

LEMMA HashSteps == ASSUME HashInv, [HashNext]_hashVars PROVE HashInv'
<1>1. CASE UNCHANGED hashVars
  BY <1>1 DEF hashVars, HashInv, HashTypeOK, OneEach, Present
<1>2. CASE HashNext
  BY <1>2, SetValuesKeeps, SetTTLKeeps, HashTickKeeps DEF HashNext
<1> QED BY <1>1, <1>2

\* What a reading call picks of a field: of one entry at most there is no choice.
LEMMA PicksOne ==
  ASSUME HashInv, OneEach, NEW fs \in SUBSET Fields, NEW a \in Picks(fs), NEW f \in fs
  PROVE  /\ (\E e \in entries : e.field = f /\ e.left > 0) => a[f] = lastSet[f] /\ a[f] # Missing
         /\ ~(\E e \in entries : e.field = f /\ e.left > 0) => a[f] = Missing
         /\ a[f] = IF ends[f] = 0 THEN Missing ELSE lastSet[f]
<1> DEFINE own == {e.set : e \in {d \in Unexpired : d.field = f}}
<1>1. IF own = {} THEN a[f] = Missing ELSE a[f] \in own
  BY DEF Picks
<1>2. \A x \in own : \E e \in entries : e.field = f /\ e.left > 0 /\ x = e.set
  BY DEF Unexpired
<1>3. \A e \in entries : e.field = f /\ e.left > 0 => e.set \in own
  BY DEF Unexpired
<1> HIDE DEF own
<1>4. \A x \in own : x = lastSet[f] /\ x # Missing
  BY <1>2, HashTypes DEF OneEach
<1>5. own = {} => lastSet[f] = Missing \/ ends[f] = 0
  <2> SUFFICES ASSUME own = {}, lastSet[f] # Missing PROVE ends[f] = 0
    OBVIOUS
  <2>1. PICK e \in entries : e.field = f
    BY DEF OneEach, Present
  <2>2. ~(e.left > 0) /\ e.left = ends[f]
    BY <1>3, <2>1 DEF OneEach
  <2> QED BY <2>1, <2>2, HashTypes
<1>6. own # {} => ends[f] # 0
  <2> SUFFICES ASSUME own # {} PROVE ends[f] # 0
    OBVIOUS
  <2>1. PICK e \in entries : e.field = f /\ e.left > 0
    BY <1>2
  <2> QED BY <2>1, HashTypes DEF OneEach
<1> QED BY <1>1, <1>2, <1>3, <1>4, <1>5, <1>6

\* What GetAll makes of a value is missing only if the value is.
LEMMA DecodedIs ==
  ASSUME HashInv, NEW n \in 0 .. MaxSets
  PROVE  /\ n \notin literal => Decoded(n) = n
         /\ Decoded(n) = Missing <=> n = Missing
<1>1. MaxSets \in Nat /\ Missing = 0 /\ literal \subseteq 1 .. MaxSets
  BY HashTypes
<1> QED BY <1>1 DEF Decoded, Denoted

LEMMA AllIs ==
  ASSUME HashInv, OneEach, Readable, NEW all \in GetAll, NEW f \in Fields
  PROVE  LET n == IF ends[f] = 0 THEN Missing ELSE lastSet[f]
         IN  /\ all[f] = Decoded(n) /\ n \in 0 .. MaxSets
             /\ (\E e \in entries : e.field = f /\ e.left > 0) => n # Missing
             /\ ~(\E e \in entries : e.field = f /\ e.left > 0) => n = Missing
<1>1. PICK a \in Picks(Fields) : all = [g \in Fields |-> Decoded(a[g])]
  BY DEF GetAll
<1> DEFINE n == IF ends[f] = 0 THEN Missing ELSE lastSet[f]
<1>2. /\ a[f] = n
      /\ (\E e \in entries : e.field = f /\ e.left > 0) => a[f] # Missing
      /\ ~(\E e \in entries : e.field = f /\ e.left > 0) => a[f] = Missing
  BY PicksOne
<1>3. n \in 0 .. MaxSets
  BY HashTypes
<1> HIDE DEF n
<1> QED BY <1>1, <1>2, <1>3 DEF n

LEMMA HashReadsNow == HashInv => HashReads
<1> SUFFICES ASSUME HashInv, store # "appends"
             PROVE  /\ \A fs \in SUBSET Fields \ {{}} : \A a \in GetValues(fs) :
                         a # Failed => \A f \in fs :
                           /\ a[f] = IF ends[f] = 0 THEN Missing ELSE lastSet[f]
                           /\ \A all \in GetAll : /\ all[f] = Missing <=> a[f] = Missing
                                                 /\ a[f] \notin literal => all[f] = a[f]
                    /\ Readable => \A all \in GetAll :
                                        Existed <=> \E f \in Fields : all[f] # Missing
                    /\ store = "redis" /\ Readable => \A all \in GetAll, f \in Fields :
                                        lastSet[f] \notin literal => all[f] = lastSet[f]
  BY DEF HashReads
<1>1. OneEach
  BY DEF HashInv
<1>2. ASSUME NEW fs \in SUBSET Fields, NEW a \in GetValues(fs), a # Failed, NEW f \in fs
      PROVE  /\ a[f] = IF ends[f] = 0 THEN Missing ELSE lastSet[f]
             /\ \A all \in GetAll : /\ all[f] = Missing <=> a[f] = Missing
                                   /\ a[f] \notin literal => all[f] = a[f]
  <2>1. a \in Picks(fs) /\ (Readable \/ \A e \in Unexpired : e.field \notin fs)
    BY <1>2 DEF GetValues
  <2>2. /\ ~(\E e \in entries : e.field = f /\ e.left > 0) => a[f] = Missing
        /\ a[f] = IF ends[f] = 0 THEN Missing ELSE lastSet[f]
    BY <1>1, <2>1, PicksOne
  <2>3. ASSUME NEW all \in GetAll
        PROVE  /\ all[f] = Missing <=> a[f] = Missing
               /\ a[f] \notin literal => all[f] = a[f]
    <3>1. CASE Readable
      <4>1. all[f] = Decoded(a[f]) /\ a[f] \in 0 .. MaxSets
        BY <1>1, <2>2, <3>1, AllIs
      <4> QED BY <4>1, DecodedIs
    <3>2. CASE ~Readable
      <4>1. ~(\E e \in entries : e.field = f /\ e.left > 0)
        BY <2>1, <3>2 DEF Unexpired
      <4>2. all[f] = Missing
        BY <3>2 DEF GetAll
      <4> QED BY <2>2, <4>1, <4>2
    <3> QED BY <3>1, <3>2
  <2> QED BY <2>2, <2>3
<1>3. ASSUME Readable, NEW all \in GetAll
      PROVE  Existed <=> \E f \in Fields : all[f] # Missing
  <2>1. ASSUME NEW f \in Fields
        PROVE  all[f] # Missing <=> \E e \in entries : e.field = f /\ e.left > 0
    <3> DEFINE n == IF ends[f] = 0 THEN Missing ELSE lastSet[f]
    <3>1. /\ all[f] = Decoded(n) /\ n \in 0 .. MaxSets
          /\ (\E e \in entries : e.field = f /\ e.left > 0) => n # Missing
          /\ ~(\E e \in entries : e.field = f /\ e.left > 0) => n = Missing
      BY <1>1, <1>3, AllIs
    <3> HIDE DEF n
    <3>2. Decoded(n) = Missing <=> n = Missing
      BY <3>1, DecodedIs
    <3> QED BY <3>1, <3>2
  <2>2. Existed <=> \E e \in entries : e.left > 0
    BY DEF Existed, Unexpired
  <2>3. \A e \in entries : e.field \in Fields
    BY HashTypes
  <2> QED BY <2>1, <2>2, <2>3
<1>4. ASSUME store = "redis", Readable, NEW all \in GetAll, NEW f \in Fields,
             lastSet[f] \notin literal
      PROVE  all[f] = lastSet[f]
  <2>1. all[f] = Decoded(IF ends[f] = 0 THEN Missing ELSE lastSet[f])
    BY <1>1, <1>4, AllIs
  <2>2. ends[f] = 0 => lastSet[f] = Missing
    <3> SUFFICES ASSUME ends[f] = 0, lastSet[f] # Missing PROVE FALSE
      OBVIOUS
    <3>1. PICK e \in entries : e.field = f
      BY <1>1 DEF OneEach, Present
    <3>2. e.left = 0
      BY <1>1, <3>1 DEF OneEach
    <3> QED BY <1>4, <3>2 DEF HashInv
  <2>3. lastSet[f] \in 0 .. MaxSets
    BY HashTypes
  <2>4. Decoded(lastSet[f]) = lastSet[f]
    BY <1>4, <2>3, DecodedIs
  <2> QED BY <2>1, <2>2, <2>4
<1> QED BY <1>2, <1>3, <1>4

\* In every behaviour of a hash, in redis or in a table with its unique index and for every
\* number of fields and calls: unless GetValues fails, a field is read with the value set
\* last until its lifetime or that of the redis hash is over and not at all from then on;
\* GetAll and Existed agree with that, except that GetAll returns a string that is itself
\* JSON of a string, or null, as what it stands for.
THEOREM HashesAreRead == HashSpec => []HashReads
<1>1. HashInv /\ [HashNext]_hashVars => HashInv'
  BY HashSteps
<1> QED BY <1>1, HashInits, HashReadsNow, PTL DEF HashSpec

-----------------------------------------------------------------------------
(* ListCache                                                               *)

ListPcs == {"idle", "read", "write", "expire", "done", "lost", "deleted"}

ListCalls == [pc : ListPcs, size : 1 .. 2, key : ItemKeys \cup {NoItemKey},
              after : SUBSET Appends, max : Int, copy : SUBSET Entries, life : 0 .. Lifetime]

Bounded(s) == \E b \in Nat : \A e \in s : e.order <= b

\* Only calls that had ended come before another, and without a race one is under way.
ListTyped ==
  /\ impl \in Impls /\ raced \in BOOLEAN
  /\ items \subseteq Entries /\ Bounded(items)
  /\ append \in [Appends -> ListCalls]
  /\ \A c \in Appends : append[c].max >= -1 /\ Bounded(append[c].copy)
  /\ \A c \in Appends : \A d \in append[c].after : append[d].pc \in {"done", "deleted"}
  /\ \A c \in Appends : append[c].pc = "expire" => impl = "redis"
  /\ ~raced => \A c, d \in InFlight : c = d

\* The items of a call are all there for another left ticks.
KeptFor(c, left) ==
  \A n \in 1 .. append[c].size :
    \E e \in items : e.by = c /\ e.n = n /\ e.key = append[c].key /\ e.left >= left

ListGood ==
  /\ \A e \in items : append[e.by].pc \in {"expire", "done", "lost"}
  /\ \A e, d \in items : e.by \in append[d.by].after => e.order < d.order
  /\ impl = "redis" => \A e, d \in items : e.left = d.left
  /\ \A c \in Appends : append[c].pc = "write" /\ impl = "gorm" =>
       \A e \in items : e.by \in append[c].after => e.order <= append[c].max
  /\ \A c \in Appends : append[c].pc = "write" /\ impl = "ram" => append[c].copy = items
  /\ \A c \in Appends : append[c].pc = "expire" /\ (\E e \in items : e.by = c) => KeptFor(c, 1)
  /\ \A c \in Finished : append[c].life > 0 => KeptFor(c, append[c].life)

Promised == impl # "ram" \/ ~raced

ListInv == ListTyped /\ (Promised => ListGood)

LEMMA TopIs ==
  ASSUME NEW s \in SUBSET Entries, Bounded(s)
  PROVE  /\ TopOrder(s) \in Int /\ TopOrder(s) >= -1
         /\ \A e \in s : e.order <= TopOrder(s)
<1>1. CASE s = {}
  BY <1>1 DEF TopOrder
<1>2. CASE s # {}
  <2> DEFINE S == {e.order : e \in s}
  <2>1. PICK b \in Nat : \A e \in s : e.order <= b
    BY DEF Bounded
  <2>2. S \subseteq Nat /\ S # {} /\ \A x \in S : x <= b
    BY <1>2, <2>1 DEF Entries
  <2>3. TopOrder(s) = Max(S)
    BY <1>2 DEF TopOrder
  <2>4. \A e \in s : e.order \in S
    OBVIOUS
  <2> HIDE DEF S
  <2>5. Max(S) \in S /\ \A x \in S : Max(S) >= x
    BY <2>2, GreatestNumber DEF Max
  <2>6. TopOrder(s) \in Nat
    BY <2>2, <2>3, <2>5
  <2>7. \A e \in s : e.order <= TopOrder(s)
    BY <2>3, <2>4, <2>5
  <2>8. TopOrder(s) \in Int /\ TopOrder(s) >= -1
    BY <2>6
  <2> QED BY <2>7, <2>8
<1> QED BY <1>1, <1>2

LEMMA ListTypes ==
  ASSUME ListInv
  PROVE  /\ Lifetime \in Nat \ {0} /\ Forever = Lifetime + 1 /\ NoItemKey \notin ItemKeys
         /\ impl \in Impls /\ raced \in BOOLEAN
         /\ items \subseteq Entries /\ Bounded(items)
         /\ append \in [Appends -> ListCalls]
         /\ \A c \in Appends : /\ append[c] \in ListCalls
                               /\ append[c].max >= -1 /\ Bounded(append[c].copy)
                               /\ append[c].copy \subseteq Entries
         /\ \A e \in items : e.by \in Appends /\ e.order \in Nat /\ e.left \in 1 .. Forever
         /\ \A c \in Appends : append[c].pc = "expire" => impl = "redis"
BY ListCacheAssumption DEF ListCacheAssumption, ListInv, ListTyped, ListCalls, Entries, Forever

LEMMA ListInits == ListCacheInit => ListInv
<1> SUFFICES ASSUME ListCacheInit PROVE ListInv
  OBVIOUS
<1>1. Lifetime \in Nat \ {0}
  BY ListCacheAssumption DEF ListCacheAssumption
<1>2. 0 \in 0 .. Lifetime /\ 1 \in 1 .. 2 /\ -1 \in Int /\ -1 >= -1
  BY <1>1
<1> DEFINE r == [pc |-> "idle", size |-> 1, key |-> NoItemKey, after |-> {},
                 max |-> -1, copy |-> {}, life |-> 0]
<1>3. r \in ListCalls
  BY <1>2 DEF ListCalls, ListPcs
<1>4. append \in [Appends -> ListCalls] /\ \A c \in Appends : append[c] = r
  BY <1>3 DEF ListCacheInit
<1>5. Bounded({})
  BY DEF Bounded
<1>6. ListTyped
  BY <1>2, <1>4, <1>5 DEF ListCacheInit, ListTyped, InFlight
<1>7. ListGood
  BY <1>4 DEF ListCacheInit, ListGood, Finished
<1> QED BY <1>6, <1>7 DEF ListInv

\* A step that leaves the items alone: a call begins, reads, or fails.
LEMMA CallOnly ==
  ASSUME ListInv, UNCHANGED <<impl, items>>, NEW c \in Appends, NEW r \in ListCalls,
         append' = [append EXCEPT ![c] = r],
         append[c].pc \in {"idle", "read", "write", "expire"},
         r.pc \in {"read", "write", "lost"},
         r.pc # "lost" => append[c].pc \in {"idle", "read"},
         r.pc = "lost" => append[c].pc # "idle" /\ r.after = append[c].after,
         r.max >= -1, Bounded(r.copy),
         \A d \in r.after : append[d].pc \in {"done", "deleted"},
         raced' \in BOOLEAN, raced => raced',
         append[c].pc = "idle" => raced' \/ InFlight = {},
         r.pc = "write" /\ impl = "gorm" => \A e \in items : e.by \in r.after => e.order <= r.max,
         r.pc = "write" /\ impl = "ram" => r.copy = items
  PROVE  ListInv'
<1>1. /\ append' \in [Appends -> ListCalls] /\ append'[c] = r
      /\ \A d \in Appends : d # c => append'[d] = append[d]
  BY ListTypes
<1>2. \A d \in Appends : c \notin append[d].after
  BY DEF ListInv, ListTyped
<1>3. \A d \in Appends : d # c => (d \in InFlight' <=> d \in InFlight)
  BY <1>1 DEF InFlight
<1>4. append[c].pc # "idle" => c \in InFlight
  BY DEF InFlight
<1>5. ~raced' => \A d, f \in InFlight' : d = f
  <2> SUFFICES ASSUME ~raced', NEW d \in InFlight', NEW f \in InFlight' PROVE d = f
    OBVIOUS
  <2>1. d \in Appends /\ f \in Appends /\ \A x, y \in InFlight : x = y
    BY DEF InFlight, ListInv, ListTyped
  <2> QED BY <1>3, <1>4, <2>1
<1>6. \A x, y \in Appends : y \in append'[x].after => append'[y].pc \in {"done", "deleted"}
  <2> SUFFICES ASSUME NEW x \in Appends, NEW y \in Appends, y \in append'[x].after
               PROVE  append'[y].pc \in {"done", "deleted"}
    OBVIOUS
  <2>1. y # c /\ append[y].pc \in {"done", "deleted"}
    BY <1>1, <1>2 DEF ListInv, ListTyped
  <2> QED BY <1>1, <2>1
<1>7. ListTyped'
  <2>1. \A x \in Appends : append'[x].max >= -1 /\ Bounded(append'[x].copy)
    BY <1>1, ListTypes
  <2>2. \A x \in Appends : append'[x].after \subseteq Appends
    BY <1>1 DEF ListCalls
  <2>3. \A x \in Appends : append'[x].pc = "expire" => impl' = "redis"
    BY <1>1, ListTypes
  <2> QED BY <1>1, <1>5, <1>6, <2>1, <2>2, <2>3, ListTypes DEF ListTyped, Bounded
<1>8. ASSUME Promised' PROVE ListGood'
  <2>1. ListGood
    BY <1>8 DEF Promised, ListInv
  <2>2. \A e \in items : r.pc # "lost" => e.by # c
    BY <2>1 DEF ListGood
  <2>3. \A e \in items : append'[e.by].pc \in {"expire", "done", "lost"}
    BY <1>1, <2>1, <2>2, ListTypes DEF ListGood
  <2>4. \A e \in items : append'[e.by].after = append[e.by].after
    BY <1>1, <2>2, ListTypes
  <2>5. \A d \in Appends : d # c => (KeptFor(d, 1)' <=> KeptFor(d, 1))
    BY <1>1 DEF KeptFor
  <2>6. \A d \in Appends : d # c =>
          (KeptFor(d, append[d].life)' <=> KeptFor(d, append[d].life))
    BY <1>1 DEF KeptFor
  <2>7. \A d \in Finished' : d # c /\ d \in Finished
    BY <1>1 DEF Finished
  <2>8. \A d \in Finished' : append'[d].life > 0 => KeptFor(d, append[d].life)'
    BY <1>1, <2>1, <2>6, <2>7 DEF ListGood, Finished
  <2>9. \A d \in Appends : append'[d].pc = "expire" => d # c /\ append[d].pc = "expire"
    BY <1>1
  <2>10. \A d \in Appends : append'[d].pc = "write" /\ impl = "gorm" =>
           \A e \in items : e.by \in append'[d].after => e.order <= append'[d].max
    BY <1>1, <2>1 DEF ListGood
  <2>11. \A d \in Appends : append'[d].pc = "write" /\ impl = "ram" => append'[d].copy = items
    BY <1>1, <2>1 DEF ListGood
  <2>12. \A d \in Appends : append'[d].pc = "expire" /\ (\E e \in items : e.by = d) =>
           KeptFor(d, 1)'
    BY <2>1, <2>5, <2>9 DEF ListGood
  <2>13. \A e, d \in items : e.by \in append'[d.by].after => e.order < d.order
    BY <2>1, <2>4 DEF ListGood
  <2>14. impl' = "redis" => \A e, d \in items' : e.left = d.left
    BY <2>1 DEF ListGood
  <2> QED BY <2>3, <2>8, <2>10, <2>11, <2>12, <2>13, <2>14 DEF ListGood, Finished
<1> QED BY <1>7, <1>8 DEF ListInv

LEMMA StartAppendKeeps ==
  ASSUME ListInv, NEW c \in Appends, StartAppend(c) PROVE ListInv'
<1>1. PICK size \in 1 .. 2, key \in ItemKeys \cup {NoItemKey} :
        append' = [append EXCEPT ![c] = [@ EXCEPT !.pc = "read", !.size = size, !.key = key,
                                          !.after = Finished]]
  BY DEF StartAppend
<1> DEFINE r == [append[c] EXCEPT !.pc = "read", !.size = size, !.key = key,
                                  !.after = Finished]
<1>2. append[c] \in ListCalls /\ Finished \subseteq Appends
  BY ListTypes DEF Finished
<1>3. /\ r \in ListCalls /\ r.pc = "read" /\ r.after = Finished
      /\ r.max = append[c].max /\ r.copy = append[c].copy
  BY <1>2 DEF ListCalls, ListPcs
<1>4. append' = [append EXCEPT ![c] = r]
  BY <1>1, ListTypes
<1> HIDE DEF r
<1>5. /\ append[c].pc = "idle" /\ UNCHANGED <<impl, items>> /\ raced' \in BOOLEAN
      /\ raced' <=> (raced \/ InFlight # {})
  BY DEF StartAppend
<1>6. raced => raced'
  BY <1>5
<1>7. raced' \/ InFlight = {}
  BY <1>5
<1>8. \A d \in r.after : append[d].pc \in {"done", "deleted"}
  BY <1>3 DEF Finished
<1>9. r.max >= -1 /\ Bounded(r.copy)
  BY <1>3, ListTypes
<1> QED BY <1>3, <1>4, <1>5, <1>6, <1>7, <1>8, <1>9, CallOnly

LEMMA AppendFailsKeeps ==
  ASSUME ListInv, NEW c \in Appends, AppendFails(c) PROVE ListInv'
<1> DEFINE r == [append[c] EXCEPT !.pc = "lost", !.copy = {}]
<1>1. append[c] \in ListCalls /\ append[c].pc \in {"read", "write", "expire"}
  BY ListTypes DEF AppendFails, InFlight
<1>2. /\ r \in ListCalls /\ r.pc = "lost" /\ r.after = append[c].after
      /\ r.max = append[c].max /\ r.copy = {}
  BY <1>1 DEF ListCalls, ListPcs
<1>3. append' = [append EXCEPT ![c] = r]
  BY ListTypes DEF AppendFails
<1> HIDE DEF r
<1>4. UNCHANGED <<impl, items, raced>>
  BY DEF AppendFails
<1>5. r.max >= -1 /\ Bounded(r.copy)
  BY <1>2, ListTypes DEF Bounded
<1>6. \A d \in r.after : append[d].pc \in {"done", "deleted"}
  BY <1>2 DEF ListInv, ListTyped
<1> QED BY <1>1, <1>2, <1>3, <1>4, <1>5, <1>6, CallOnly, ListTypes

\* MAX(sort_order) is at least the order of every item that is there, so of those of the
\* calls that had ended; when it cannot be read the call promises nothing of its place.
LEMMA ReadMaxKeeps ==
  ASSUME ListInv, NEW c \in Appends, ReadMax(c) PROVE ListInv'
<1>1. PICK max \in {TopOrder(items), -1} :
        append' = [append EXCEPT ![c].pc = "write", ![c].max = max,
                                 ![c].after = IF max = TopOrder(items) THEN @ ELSE {}]
  BY DEF ReadMax
<1> DEFINE r == [append[c] EXCEPT !.pc = "write", !.max = max,
                                  !.after = IF max = TopOrder(items) THEN @ ELSE {}]
<1>2. append[c] \in ListCalls /\ append[c].pc = "read" /\ impl = "gorm"
  BY ListTypes DEF ReadMax
<1>3. /\ TopOrder(items) \in Int /\ TopOrder(items) >= -1
      /\ \A e \in items : e.order <= TopOrder(items)
  BY TopIs, ListTypes
<1>4. max \in Int /\ max >= -1
  BY <1>3
<1>5. /\ r \in ListCalls /\ r.pc = "write" /\ r.max = max /\ r.copy = append[c].copy
      /\ r.after = IF max = TopOrder(items) THEN append[c].after ELSE {}
  BY <1>2, <1>4 DEF ListCalls, ListPcs
<1>6. append' = [append EXCEPT ![c] = r]
  BY <1>1, ListTypes
<1> HIDE DEF r
<1>7. UNCHANGED <<impl, items, raced>>
  BY DEF ReadMax
<1>8. r.max >= -1 /\ Bounded(r.copy)
  BY <1>4, <1>5, ListTypes
<1>9. \A d \in r.after : append[d].pc \in {"done", "deleted"}
  BY <1>5 DEF ListInv, ListTyped
<1>10. \A e \in items : e.by \in r.after => e.order <= r.max
  BY <1>3, <1>5
<1> QED BY <1>2, <1>5, <1>6, <1>7, <1>8, <1>9, <1>10, CallOnly, ListTypes

LEMMA ReadListKeeps ==
  ASSUME ListInv, NEW c \in Appends, ReadList(c) PROVE ListInv'
<1> DEFINE r == [append[c] EXCEPT !.pc = "write", !.copy = items]
<1>1. append[c] \in ListCalls /\ append[c].pc = "read" /\ impl = "ram"
  BY ListTypes DEF ReadList
<1>2. /\ r \in ListCalls /\ r.pc = "write" /\ r.after = append[c].after
      /\ r.max = append[c].max /\ r.copy = items
  BY <1>1, ListTypes DEF ListCalls, ListPcs
<1>3. append' = [append EXCEPT ![c] = r]
  BY ListTypes DEF ReadList
<1> HIDE DEF r
<1>4. UNCHANGED <<impl, items, raced>>
  BY DEF ReadList
<1>5. r.max >= -1 /\ Bounded(r.copy)
  BY <1>2, ListTypes
<1>6. \A d \in r.after : append[d].pc \in {"done", "deleted"}
  BY <1>2 DEF ListInv, ListTyped
<1> QED BY <1>1, <1>2, <1>3, <1>4, <1>5, <1>6, CallOnly, ListTypes

\* What a call adds.
LEMMA Batches ==
  ASSUME ListInv, NEW c \in Appends, NEW max \in Int, max >= -1, NEW left \in 1 .. Forever
  PROVE  /\ Batch(c, max, left) \subseteq Entries /\ Bounded(Batch(c, max, left))
         /\ \A e \in Batch(c, max, left) : e.by = c /\ e.order > max /\ e.left = left
         /\ \A n \in 1 .. append[c].size : \E e \in Batch(c, max, left) :
              e.by = c /\ e.n = n /\ e.key = append[c].key /\ e.left = left
<1> DEFINE New(n) == [by |-> c, n |-> n, key |-> append[c].key, order |-> max + n, left |-> left]
<1>1. Batch(c, max, left) = {New(n) : n \in 1 .. append[c].size}
  BY DEF Batch
<1>2. append[c].size \in 1 .. 2 /\ append[c].key \in ItemKeys \cup {NoItemKey}
  BY ListTypes DEF ListCalls
<1>3. ASSUME NEW n \in 1 .. append[c].size
      PROVE  /\ New(n) \in Entries /\ New(n).order > max /\ New(n).order <= max + 2
             /\ New(n).by = c /\ New(n).n = n /\ New(n).key = append[c].key /\ New(n).left = left
  <2>1. n \in 1 .. 2 /\ max + n \in Nat /\ max + n > max /\ max + n <= max + 2
    BY <1>2
  <2> QED BY <1>2, <2>1 DEF Entries
<1>4. max + 2 \in Nat
  OBVIOUS
<1> HIDE DEF New
<1>5. Bounded(Batch(c, max, left))
  BY <1>1, <1>3, <1>4 DEF Bounded
<1> QED BY <1>1, <1>3, <1>5

Twin(e, d) == e.by = d.by /\ e.n = d.n /\ e.key = d.key /\ e.order = d.order

\* old holds the items, each with the time it had left or all of a lifetime.
SameItems(old) ==
  /\ \A d \in old : \E e \in items : Twin(d, e)
  /\ \A e \in items : \E d \in old : Twin(d, e) /\ (d.left >= e.left \/ d.left >= Lifetime)

\* Items that a call was to keep are kept among the same items.
LEMMA KeptOn ==
  ASSUME ListInv, NEW old, old \subseteq Entries, SameItems(old), old \subseteq items',
         NEW c \in Appends, append'[c].size = append[c].size, append'[c].key = append[c].key,
         NEW left \in Nat, left <= Lifetime, KeptFor(c, left)
  PROVE  \A n \in 1 .. append'[c].size : \E e \in items' :
           e.by = c /\ e.n = n /\ e.key = append'[c].key /\ e.left >= left
<1> SUFFICES ASSUME NEW n \in 1 .. append[c].size
             PROVE  \E e \in items' : e.by = c /\ e.n = n /\ e.key = append[c].key /\ e.left >= left
  OBVIOUS
<1>1. PICK e \in items : e.by = c /\ e.n = n /\ e.key = append[c].key /\ e.left >= left
  BY DEF KeptFor
<1>2. PICK d \in old : Twin(d, e) /\ (d.left >= e.left \/ d.left >= Lifetime)
  BY DEF SameItems
<1>3. e.left \in Nat /\ d.left \in Nat /\ Lifetime \in Nat
  BY ListTypes DEF Entries
<1> QED BY <1>1, <1>2, <1>3 DEF Twin

\* A step that adds the items of one call behind those that were there.
LEMMA Adds ==
  ASSUME ListInv, UNCHANGED <<impl, raced>>, NEW c \in Appends, NEW r \in ListCalls,
         append' = [append EXCEPT ![c] = r],
         append[c].pc \in {"read", "write"}, r.pc \in {"expire", "done"},
         r.size = append[c].size, r.key = append[c].key, r.after = append[c].after,
         r.max >= -1, Bounded(r.copy),
         NEW old, old \subseteq Entries, Bounded(old),
         NEW max \in Int, max >= -1, NEW left \in 1 .. Forever, r.pc = "done" => left = Lifetime,
         items' = old \cup Batch(c, max, left), r.pc = "expire" => impl = "redis",
         Promised => /\ SameItems(old)
                     /\ \A e \in old : e.by \in append[c].after => e.order <= max
                     /\ impl = "redis" => \A e \in old : e.left = left
  PROVE  ListInv'
<1>1. /\ append' \in [Appends -> ListCalls] /\ append'[c] = r
      /\ \A d \in Appends : d # c => append'[d] = append[d]
  BY ListTypes
<1>2. \A d \in Appends : c \notin append[d].after
  BY DEF ListInv, ListTyped
<1> DEFINE B == Batch(c, max, left)
<1>3. /\ B \subseteq Entries /\ Bounded(B)
      /\ \A e \in B : e.by = c /\ e.order > max /\ e.left = left
      /\ \A n \in 1 .. append[c].size : \E e \in B :
           e.by = c /\ e.n = n /\ e.key = append[c].key /\ e.left = left
  BY Batches
<1> HIDE DEF B
<1>4. items' = old \cup B
  BY DEF B
<1>5. ListTyped'
  <2>1. Bounded(items')
    <3>1. PICK a \in Nat : \A e \in old : e.order <= a
      BY DEF Bounded
    <3>2. PICK b \in Nat : \A e \in B : e.order <= b
      BY <1>3 DEF Bounded
    <3>3. \A e \in items' : e.order \in Nat
      BY <1>3, <1>4 DEF Entries
    <3>4. CASE a <= b
      <4>1. \A e \in items' : e.order <= b
        BY <1>4, <3>1, <3>2, <3>3, <3>4
      <4> QED BY <4>1 DEF Bounded
    <3>5. CASE ~(a <= b)
      <4>1. \A e \in items' : e.order <= a
        BY <1>4, <3>1, <3>2, <3>3, <3>5
      <4> QED BY <4>1 DEF Bounded
    <3> QED BY <3>4, <3>5
  <2>2. \A x \in Appends : append'[x].max >= -1 /\ Bounded(append'[x].copy)
    BY <1>1, ListTypes
  <2>3. \A x, y \in Appends : y \in append'[x].after => append'[y].pc \in {"done", "deleted"}
    <3> SUFFICES ASSUME NEW x \in Appends, NEW y \in Appends, y \in append'[x].after
                 PROVE  append'[y].pc \in {"done", "deleted"}
      OBVIOUS
    <3>1. y # c /\ append[y].pc \in {"done", "deleted"}
      BY <1>1, <1>2 DEF ListInv, ListTyped
    <3> QED BY <1>1, <3>1
  <2>4. \A x \in Appends : append'[x].after \subseteq Appends
    BY <1>1 DEF ListCalls
  <2>5. \A d \in InFlight' : d \in InFlight
    BY <1>1 DEF InFlight
  <2>6. ~raced' => \A d, f \in InFlight' : d = f
    BY <2>5 DEF ListInv, ListTyped
  <2>7. Bounded(items)'
    BY <2>1 DEF Bounded
  <2>8. \A x \in Appends : append'[x].max >= -1 /\ Bounded(append[x].copy)'
    BY <2>2 DEF Bounded
  <2>9. \A x \in Appends : append'[x].pc = "expire" => impl' = "redis"
    BY <1>1, ListTypes
  <2> QED BY <1>1, <1>3, <1>4, <2>3, <2>4, <2>6, <2>7, <2>8, <2>9, ListTypes DEF ListTyped
<1>6. ASSUME Promised' PROVE ListGood'
  <2>1. /\ ListGood /\ SameItems(old)
        /\ \A e \in old : e.by \in append[c].after => e.order <= max
        /\ impl = "redis" => \A e \in old : e.left = left
    BY <1>6 DEF Promised, ListInv
  <2>2. \A e \in items : e.by # c
    BY <2>1 DEF ListGood
  <2>3. \A e \in old : e.by # c /\ e.by \in Appends /\ e.order \in Nat
    BY <2>1, <2>2 DEF SameItems, Twin, Entries
  <2>4. ASSUME NEW e \in old PROVE append[e.by].pc \in {"expire", "done", "lost"}
    <3>1. PICK f \in items : Twin(e, f)
      BY <2>1 DEF SameItems
    <3> QED BY <2>1, <3>1 DEF ListGood, Twin
  <2>5. \A e \in items' : append'[e.by].pc \in {"expire", "done", "lost"}
    BY <1>1, <1>3, <1>4, <2>3, <2>4
  <2>6. ASSUME NEW e \in items', NEW d \in items', e.by \in append'[d.by].after
        PROVE  e.order < d.order
    <3>1. e \in old
      <4>1. d.by \in Appends
        BY <1>3, <1>4, <2>3
      <4>2. append'[d.by].after = append[d.by].after
        BY <1>1, <4>1
      <4>3. e.by # c
        BY <1>2, <2>6, <4>1, <4>2
      <4> QED BY <1>3, <1>4, <4>3
    <3>2. CASE d \in old
      <4>1. e.by \in append[d.by].after
        BY <1>1, <2>3, <2>6, <3>2
      <4>2. PICK x \in items, y \in items : Twin(e, x) /\ Twin(d, y)
        BY <2>1, <3>1, <3>2 DEF SameItems
      <4> QED BY <2>1, <4>1, <4>2 DEF ListGood, Twin
    <3>3. CASE d \in B
      <4>1. d.by = c /\ d.order > max /\ d.order \in Nat
        BY <1>3, <3>3 DEF Entries
      <4>2. e.order <= max /\ e.order \in Nat
        BY <1>1, <2>1, <2>3, <2>6, <3>1, <4>1
      <4> QED BY <4>1, <4>2
    <3> QED BY <1>4, <3>2, <3>3
  <2>7. ASSUME NEW d \in Appends, append'[d].pc = "write", impl = "gorm",
               NEW e \in items', e.by \in append'[d].after
        PROVE  e.order <= append'[d].max
    <3>1. d # c
      BY <1>1, <2>7
    <3>2. append'[d] = append[d]
      BY <1>1, <3>1
    <3>3. e \in old
      BY <1>2, <1>3, <1>4, <2>7, <3>2
    <3>4. PICK x \in items : Twin(e, x)
      BY <2>1, <3>3 DEF SameItems
    <3> QED BY <2>1, <2>7, <3>2, <3>4 DEF ListGood, Twin
  <2>8. ASSUME NEW d \in Appends, append'[d].pc = "write", impl = "ram" PROVE FALSE
    <3>1. d # c
      BY <1>1, <2>8
    <3>2. append[d].pc = "write"
      BY <1>1, <2>8, <3>1
    <3>3. c \in InFlight /\ d \in InFlight
      BY <3>2 DEF InFlight
    <3>4. ~raced
      BY <1>6, <2>8 DEF Promised
    <3> QED BY <3>1, <3>3, <3>4 DEF ListInv, ListTyped
  <2>9. ASSUME NEW d \in Appends, NEW n \in Nat, n <= Lifetime, KeptFor(d, n), d # c
        PROVE  \A k \in 1 .. append'[d].size : \E e \in items' :
                 e.by = d /\ e.n = k /\ e.key = append'[d].key /\ e.left >= n
    <3>1. append'[d].size = append[d].size /\ append'[d].key = append[d].key
      BY <1>1, <2>9
    <3>2. old \subseteq items'
      BY <1>4
    <3> QED BY <2>1, <2>9, <3>1, <3>2, KeptOn
  <2>10. \A k \in 1 .. append'[c].size : \E e \in items' :
           e.by = c /\ e.n = k /\ e.key = append'[c].key /\ e.left = left
    BY <1>1, <1>3, <1>4
  <2>11. Lifetime \in Nat /\ left \in Nat /\ left >= 1 /\ 1 <= Lifetime
    BY ListTypes
  <2>12. ASSUME NEW d \in Appends, append'[d].pc = "expire", \E e \in items' : e.by = d
         PROVE  KeptFor(d, 1)'
    <3>1. CASE d = c
      BY <2>10, <2>11, <3>1 DEF KeptFor
    <3>2. CASE d # c
      <4>1. \E e \in items : e.by = d
        BY <1>3, <1>4, <2>1, <2>12, <3>2 DEF SameItems, Twin
      <4>2. KeptFor(d, 1)
        BY <1>1, <2>1, <2>12, <3>2, <4>1 DEF ListGood
      <4>3. \A k \in 1 .. append'[d].size : \E e \in items' :
              e.by = d /\ e.n = k /\ e.key = append'[d].key /\ e.left >= 1
        BY <2>9, <2>11, <3>2, <4>2
      <4> QED BY <4>3 DEF KeptFor
    <3> QED BY <3>1, <3>2
  <2>13. ASSUME NEW d \in Appends, append'[d].pc = "done", append'[d].life > 0
         PROVE  KeptFor(d, append[d].life)'
    <3>1. append'[d].life \in 0 .. Lifetime
      BY <1>1, ListTypes DEF ListCalls
    <3>2. CASE d = c
      <4>1. left = Lifetime
        BY <1>1, <2>13, <3>2
      <4>2. left >= append'[d].life
        BY <2>11, <3>1, <4>1
      <4> QED BY <2>10, <3>2, <4>2 DEF KeptFor
    <3>3. CASE d # c
      <4>1. append'[d] = append[d]
        BY <1>1, <3>3
      <4>2. KeptFor(d, append[d].life)
        BY <2>1, <2>13, <4>1 DEF ListGood, Finished
      <4>3. append[d].life \in Nat /\ append[d].life <= Lifetime
        BY <2>11, <3>1, <4>1
      <4>4. \A k \in 1 .. append'[d].size : \E e \in items' :
              e.by = d /\ e.n = k /\ e.key = append'[d].key /\ e.left >= append[d].life
        BY <2>9, <3>3, <4>2, <4>3
      <4> QED BY <4>1, <4>4 DEF KeptFor
    <3> QED BY <3>2, <3>3
  <2>14. impl' = "redis" => \A e, d \in items' : e.left = d.left
    BY <1>3, <1>4, <2>1
  <2> QED BY <2>5, <2>6, <2>7, <2>8, <2>12, <2>13, <2>14 DEF ListGood, Finished
<1> QED BY <1>5, <1>6 DEF ListInv

LEMMA SameNow == ASSUME ListInv PROVE SameItems(items)
<1>1. \A e \in items : Twin(e, e) /\ e.left >= e.left
  BY ListTypes DEF Twin
<1> QED BY <1>1 DEF SameItems

\* Items that all have a new lifetime.
LEMMA Renewed ==
  ASSUME ListInv, NEW s \in SUBSET Entries, Bounded(s)
  PROVE  LET new == {[e EXCEPT !.left = Lifetime] : e \in s}
         IN  /\ new \subseteq Entries /\ Bounded(new)
             /\ \A e \in new : e.left = Lifetime
             /\ \A d \in new : \E e \in s : Twin(d, e)
             /\ \A e \in s : \E d \in new : Twin(d, e)
<1> DEFINE New(e) == [e EXCEPT !.left = Lifetime]
           new == {New(e) : e \in s}
<1>1. Lifetime \in 1 .. Forever
  BY ListTypes
<1>2. ASSUME NEW e \in s PROVE New(e) \in Entries /\ Twin(New(e), e) /\ New(e).left = Lifetime
  BY <1>1 DEF Entries, Twin
<1> HIDE DEF New
<1>3. new \subseteq Entries /\ \A e \in new : e.left = Lifetime
  BY <1>2
<1>4. \A d \in new : \E e \in s : Twin(d, e)
  BY <1>2
<1>5. \A e \in s : \E d \in new : Twin(d, e)
  BY <1>2
<1>6. Bounded(new)
  <2>1. PICK b \in Nat : \A e \in s : e.order <= b
    BY DEF Bounded
  <2>2. \A d \in new : d.order <= b
    BY <1>4, <2>1 DEF Twin
  <2> QED BY <2>2 DEF Bounded
<1> QED BY <1>3, <1>4, <1>5, <1>6 DEF New

\* The one lifetime of a list in redis.
LEMMA ListLives ==
  ASSUME ListInv
  PROVE  /\ ListLife \in 1 .. Forever
         /\ impl = "redis" /\ ListGood => \A e \in items : e.left = ListLife
<1>1. CASE items = {}
  BY <1>1, ListTypes DEF ListLife
<1>2. CASE items # {}
  <2>1. PICK x \in items : ListLife = x.left
    BY <1>2 DEF ListLife
  <2> QED BY <2>1, ListTypes DEF ListGood
<1> QED BY <1>1, <1>2

LEMMA PushItemsKeeps ==
  ASSUME ListInv, NEW c \in Appends, PushItems(c) PROVE ListInv'
<1> DEFINE left == ListLife
           r == [append[c] EXCEPT !.pc = "expire"]
<1>1. /\ append[c] \in ListCalls /\ append[c].pc = "read" /\ impl = "redis"
      /\ UNCHANGED <<impl, raced>>
  BY ListTypes DEF PushItems
<1>2. items' = items \cup Batch(c, TopOrder(items), left)
  BY DEF PushItems
<1>3. left \in 1 .. Forever
  BY ListLives
<1>4. /\ TopOrder(items) \in Int /\ TopOrder(items) >= -1
      /\ \A e \in items : e.order <= TopOrder(items)
  BY TopIs, ListTypes
<1>5. /\ r \in ListCalls /\ r.pc = "expire" /\ r.size = append[c].size /\ r.key = append[c].key
      /\ r.after = append[c].after /\ r.max = append[c].max /\ r.copy = append[c].copy
  BY <1>1 DEF ListCalls, ListPcs
<1>6. append' = [append EXCEPT ![c] = r]
  BY ListTypes DEF PushItems
<1>a. Promised => \A e \in items : e.left = left
  BY <1>1, ListLives DEF ListInv
<1> HIDE DEF left, r
<1>7. r.max >= -1 /\ Bounded(r.copy) /\ items \subseteq Entries /\ Bounded(items)
  BY <1>5, ListTypes
<1>8. SameItems(items) /\ \A e \in items : e.by \in append[c].after => e.order <= TopOrder(items)
  BY <1>4, SameNow
<1> DEFINE top == TopOrder(items)
<1>9. top \in Int /\ top >= -1 /\ items' = items \cup Batch(c, top, left)
  BY <1>2, <1>4
<1> HIDE DEF top
<1>10. \A e \in items : e.by \in append[c].after => e.order <= top
  BY <1>8 DEF top
<1> QED BY <1>1, <1>3, <1>5, <1>6, <1>7, <1>8, <1>9, <1>10, <1>a, Adds

LEMMA CreateRowsKeeps ==
  ASSUME ListInv, NEW c \in Appends, CreateRows(c) PROVE ListInv'
<1> DEFINE r == [append[c] EXCEPT !.pc = "done", !.life = Lifetime]
           max == append[c].max
<1>0. Lifetime \in 0 .. Lifetime
  BY ListTypes
<1>1. /\ append[c] \in ListCalls /\ append[c].pc = "write" /\ impl = "gorm"
      /\ UNCHANGED <<impl, raced>>
  BY ListTypes DEF CreateRows
<1>2. items' = items \cup Batch(c, max, Lifetime)
  BY DEF CreateRows
<1>3. max \in Int /\ max >= -1 /\ Lifetime \in 1 .. Forever
  BY <1>1, ListTypes DEF ListCalls
<1>4. /\ r \in ListCalls /\ r.pc = "done" /\ r.size = append[c].size /\ r.key = append[c].key
      /\ r.after = append[c].after /\ r.max = append[c].max /\ r.copy = append[c].copy
  BY <1>0, <1>1 DEF ListCalls, ListPcs
<1>5. append' = [append EXCEPT ![c] = r]
  BY ListTypes DEF CreateRows
<1>6. r.max >= -1 /\ Bounded(r.copy) /\ items \subseteq Entries /\ Bounded(items)
  BY <1>4, ListTypes
<1>7. Promised => SameItems(items) /\ \A e \in items : e.by \in append[c].after => e.order <= max
  BY <1>1, SameNow DEF ListInv, ListGood
<1> HIDE DEF r, max
<1> QED BY <1>1, <1>2, <1>3, <1>4, <1>5, <1>6, <1>7, Adds

LEMMA StoreListKeeps ==
  ASSUME ListInv, NEW c \in Appends, StoreList(c) PROVE ListInv'
<1> DEFINE r == [append[c] EXCEPT !.pc = "done", !.copy = {}, !.life = Lifetime]
           s == append[c].copy
           old == {[e EXCEPT !.left = Lifetime] : e \in s}
           top == TopOrder(s)
<1>0. Lifetime \in 0 .. Lifetime
  BY ListTypes
<1>1. /\ append[c] \in ListCalls /\ append[c].pc = "write" /\ impl = "ram"
      /\ UNCHANGED <<impl, raced>>
  BY ListTypes DEF StoreList
<1>2. items' = old \cup Batch(c, top, Lifetime)
  BY DEF StoreList
<1>3. s \in SUBSET Entries /\ Bounded(s)
  BY ListTypes
<1>4. /\ r \in ListCalls /\ r.pc = "done" /\ r.size = append[c].size /\ r.key = append[c].key
      /\ r.after = append[c].after /\ r.max = append[c].max /\ r.copy = {}
  BY <1>0, <1>1 DEF ListCalls, ListPcs
<1>5. append' = [append EXCEPT ![c] = r]
  BY ListTypes DEF StoreList
<1> HIDE DEF r
<1>6. r.max >= -1 /\ Bounded(r.copy)
  BY <1>4, ListTypes DEF Bounded
<1>7. Promised => s = items
  BY <1>1 DEF ListInv, ListGood
<1>8. top \in Int /\ top >= -1 /\ \A e \in s : e.order <= top
  <2> HIDE DEF s
  <2> QED BY <1>3, TopIs
<1> HIDE DEF s
<1>9. /\ old \subseteq Entries /\ Bounded(old) /\ \A e \in old : e.left = Lifetime
      /\ \A d \in old : \E e \in s : Twin(d, e)
      /\ \A e \in s : \E d \in old : Twin(d, e)
  BY <1>3, Renewed
<1> HIDE DEF old, top
<1>10. Lifetime \in Nat /\ Lifetime \in 1 .. Forever
  BY ListTypes
<1>11. ASSUME Promised
       PROVE  SameItems(old) /\ \A e \in old : e.by \in append[c].after => e.order <= top
  <2>1. \A e \in old : e.left >= Lifetime
    BY <1>9, <1>10
  <2>2. SameItems(old)
    BY <1>7, <1>9, <1>11, <2>1 DEF SameItems
  <2>3. \A e \in old : e.order <= top
    BY <1>8, <1>9 DEF Twin
  <2> QED BY <2>2, <2>3
<1> QED BY <1>1, <1>2, <1>4, <1>5, <1>6, <1>8, <1>9, <1>10, <1>11, Adds

\* Expire counts for the call that made it only if the items of the call are still there;
\* what it leaves of the others lives as long as before, or longer.
LEMMA Expires ==
  ASSUME ListInv, NEW c \in Appends, append[c].pc = "expire", UNCHANGED <<impl, raced>>,
         NEW r \in ListCalls, append' = [append EXCEPT ![c] = r],
         r.pc \in {"done", "deleted"}, r.pc = "done" <=> \E e \in items : e.by = c,
         r.size = append[c].size, r.key = append[c].key, r.after = append[c].after,
         r.max = append[c].max, r.copy = append[c].copy,
         items' \subseteq Entries, Bounded(items'), SameItems(items'),
         Promised => /\ \A e, d \in items' : e.left = d.left
                     /\ \A e \in items' : e.left >= r.life
  PROVE  ListInv'
<1>6. /\ append' \in [Appends -> ListCalls] /\ append'[c] = r
      /\ \A d \in Appends : d # c => append'[d] = append[d]
  BY ListTypes
<1>7. /\ \A d \in items' : \E e \in items : Twin(d, e)
      /\ \A e \in items : \E d \in items' : Twin(d, e)
  BY DEF SameItems
<1>8. Lifetime \in Nat \ {0} /\ Lifetime \in 1 .. Forever
  BY ListTypes
<1>10. \A x \in Appends : /\ append'[x].size = append[x].size /\ append'[x].key = append[x].key
                          /\ append'[x].after = append[x].after /\ append'[x].max = append[x].max
                          /\ append'[x].copy = append[x].copy
  BY <1>6
<1>11. ListTyped'
  <2>1. \A x, y \in Appends : y \in append'[x].after => append'[y].pc \in {"done", "deleted"}
    BY <1>6, <1>10 DEF ListInv, ListTyped
  <2>2. \A x \in Appends : append'[x].after \subseteq Appends
    BY <1>6 DEF ListCalls
  <2>3. \A d \in InFlight' : d \in InFlight
    BY <1>6 DEF InFlight
  <2>4. ~raced' => \A d, f \in InFlight' : d = f
    BY <2>3 DEF ListInv, ListTyped
  <2>5. Bounded(items)'
    BY DEF Bounded
  <2>6. \A x \in Appends : append'[x].max >= -1 /\ Bounded(append[x].copy)'
    BY <1>10, ListTypes DEF Bounded
  <2>7. \A x \in Appends : append'[x].pc = "expire" => impl' = "redis"
    BY <1>6, ListTypes
  <2> QED BY <1>6, <2>1, <2>2, <2>4, <2>5, <2>6, <2>7, ListTypes DEF ListTyped
<1>12. ASSUME Promised' PROVE ListGood'
  <2>1. ListGood
    BY <1>12 DEF Promised, ListInv
  <2>2. ASSUME NEW e \in items' PROVE append'[e.by].pc \in {"expire", "done", "lost"}
    <3>1. PICK f \in items : Twin(e, f)
      BY <1>7
    <3>2. append[e.by].pc \in {"expire", "done", "lost"} /\ e.by \in Appends
      BY <2>1, <3>1, ListTypes DEF ListGood, Twin
    <3>3. e.by = c => r.pc = "done"
      BY <3>1 DEF Twin
    <3> QED BY <1>6, <3>2, <3>3
  <2>3. ASSUME NEW e \in items', NEW d \in items', e.by \in append'[d.by].after
        PROVE  e.order < d.order
    <3>1. PICK x \in items, y \in items : Twin(e, x) /\ Twin(d, y)
      BY <1>7
    <3>2. d.by \in Appends
      BY <3>1, ListTypes DEF Twin
    <3> QED BY <1>10, <2>1, <2>3, <3>1, <3>2 DEF ListGood, Twin
  <2>4. ASSUME NEW d \in Appends, append'[d].pc = "write", impl = "gorm",
               NEW e \in items', e.by \in append'[d].after
        PROVE  e.order <= append'[d].max
    <3>1. append[d].pc = "write"
      BY <1>6, <2>4
    <3>2. PICK x \in items : Twin(e, x)
      BY <1>7
    <3> QED BY <1>10, <2>1, <2>4, <3>1, <3>2 DEF ListGood, Twin
  <2>5. ASSUME NEW d \in Appends, append'[d].pc = "write", impl = "ram" PROVE FALSE
    <3>1. append[d].pc = "write" /\ d # c
      BY <1>6, <2>5
    <3>2. c \in InFlight /\ d \in InFlight /\ ~raced
      BY <1>12, <2>5, <3>1 DEF InFlight, Promised
    <3> QED BY <3>1, <3>2 DEF ListInv, ListTyped
  <2>6. ASSUME NEW d \in Appends, NEW n \in Nat, n <= Lifetime, KeptFor(d, n)
        PROVE  \A k \in 1 .. append'[d].size : \E e \in items' :
                 e.by = d /\ e.n = k /\ e.key = append'[d].key /\ e.left >= n
    BY <1>10, <2>6, KeptOn
  <2>7. ASSUME NEW d \in Appends, append'[d].pc = "expire", \E e \in items' : e.by = d
        PROVE  KeptFor(d, 1)'
    <3>1. d # c /\ append[d].pc = "expire"
      BY <1>6, <2>7
    <3>2. KeptFor(d, 1)
      BY <1>7, <2>1, <2>7, <3>1 DEF ListGood, Twin
    <3>3. \A k \in 1 .. append'[d].size : \E e \in items' :
            e.by = d /\ e.n = k /\ e.key = append'[d].key /\ e.left >= 1
      BY <1>8, <2>6, <3>2
    <3> QED BY <3>3 DEF KeptFor
  <2>8. ASSUME NEW d \in Appends, append'[d].pc = "done", append'[d].life > 0
        PROVE  KeptFor(d, append[d].life)'
    <3>1. append'[d].life \in 0 .. Lifetime
      BY <1>6, ListTypes DEF ListCalls
    <3>2. CASE d = c
      <4>1. KeptFor(c, 1)
        BY <1>6, <2>1, <2>8, <3>2, ListTypes DEF ListGood
      <4>2. \A k \in 1 .. append'[c].size : \E e \in items' :
              e.by = c /\ e.n = k /\ e.key = append'[c].key /\ e.left >= 1
        BY <1>8, <2>6, <4>1
      <4>3. \A e \in items' : e.left >= append'[c].life
        BY <1>6, <1>12 DEF Promised
      <4> QED BY <3>2, <4>2, <4>3 DEF KeptFor
    <3>3. CASE d # c
      <4>1. append[d].pc = "done" /\ append'[d] = append[d]
        BY <1>6, <2>8, <3>3
      <4>2. KeptFor(d, append[d].life)
        BY <2>1, <2>8, <4>1 DEF ListGood, Finished
      <4>3. append[d].life \in Nat /\ append[d].life <= Lifetime
        BY <1>8, <2>8, <3>1, <4>1
      <4>4. \A k \in 1 .. append'[d].size : \E e \in items' :
              e.by = d /\ e.n = k /\ e.key = append'[d].key /\ e.left >= append[d].life
        BY <2>6, <4>2, <4>3
      <4> QED BY <4>1, <4>4 DEF KeptFor
    <3> QED BY <3>2, <3>3
  <2>9. \A e, d \in items' : e.left = d.left
    BY <1>12 DEF Promised
  <2> QED BY <2>2, <2>3, <2>4, <2>5, <2>7, <2>8, <2>9 DEF ListGood, Finished
<1> QED BY <1>11, <1>12 DEF ListInv

LEMMA ExpireKeeps ==
  ASSUME ListInv, NEW c \in Appends, Expire(c) PROVE ListInv'
<1> DEFINE r == [append[c] EXCEPT !.pc = Outcome(c), !.life = Lifetime]
<1>0. Lifetime \in 0 .. Lifetime
  BY ListTypes
<1>1. /\ append[c] \in ListCalls /\ append[c].pc = "expire" /\ UNCHANGED <<impl, raced>>
      /\ items' = {[e EXCEPT !.left = Lifetime] : e \in items}
  BY ListTypes DEF Expire
<1>2. append' = [append EXCEPT ![c] = r]
  BY ListTypes DEF Expire
<1>3. Outcome(c) \in {"done", "deleted"} /\ (Outcome(c) = "done" <=> \E e \in items : e.by = c)
  BY DEF Outcome
<1>4. /\ r \in ListCalls /\ r.pc = Outcome(c) /\ r.size = append[c].size
      /\ r.key = append[c].key /\ r.after = append[c].after /\ r.max = append[c].max
      /\ r.copy = append[c].copy /\ r.life = Lifetime
  BY <1>0, <1>1, <1>3 DEF ListCalls, ListPcs
<1> HIDE DEF r
<1>5. Lifetime \in Nat /\ items \in SUBSET Entries /\ Bounded(items)
  BY ListTypes
<1>6. /\ items' \subseteq Entries /\ Bounded(items') /\ \A e \in items' : e.left = Lifetime
      /\ \A d \in items' : \E e \in items : Twin(d, e)
      /\ \A e \in items : \E d \in items' : Twin(d, e)
  BY <1>1, <1>5, Renewed
<1>7. \A e \in items' : e.left >= Lifetime
  BY <1>5, <1>6
<1>8. SameItems(items')
  BY <1>6, <1>7 DEF SameItems
<1>9. \A e, d \in items' : e.left = d.left
  BY <1>6
<1> QED BY <1>1, <1>2, <1>3, <1>4, <1>6, <1>7, <1>8, <1>9, Expires

LEMMA ExpireFailsKeeps ==
  ASSUME ListInv, NEW c \in Appends, ExpireFails(c) PROVE ListInv'
<1> DEFINE life == IF ListLife > Lifetime THEN Lifetime ELSE ListLife
           r == [append[c] EXCEPT !.pc = Outcome(c), !.life = life]
<1>1. /\ append[c] \in ListCalls /\ append[c].pc = "expire" /\ UNCHANGED <<impl, items, raced>>
  BY ListTypes DEF ExpireFails
<1>2. append' = [append EXCEPT ![c] = r]
  BY ListTypes DEF ExpireFails
<1>3. Outcome(c) \in {"done", "deleted"} /\ (Outcome(c) = "done" <=> \E e \in items : e.by = c)
  BY DEF Outcome
<1>4. Lifetime \in Nat /\ ListLife \in Nat /\ impl = "redis"
  BY <1>1, ListLives, ListTypes
<1>5. life \in 0 .. Lifetime /\ life <= ListLife
  BY <1>4
<1> HIDE DEF life
<1>6. /\ r \in ListCalls /\ r.pc = Outcome(c) /\ r.size = append[c].size
      /\ r.key = append[c].key /\ r.after = append[c].after /\ r.max = append[c].max
      /\ r.copy = append[c].copy /\ r.life = life
  BY <1>1, <1>3, <1>5 DEF ListCalls, ListPcs
<1> HIDE DEF r
<1>7. items' \subseteq Entries /\ Bounded(items') /\ SameItems(items')
  BY <1>1, SameNow, ListTypes
<1>8. ASSUME Promised
      PROVE  (\A e, d \in items' : e.left = d.left) /\ \A e \in items' : e.left >= r.life
  <2>1. \A e \in items : e.left = ListLife
    BY <1>4, <1>8, ListLives DEF ListInv
  <2> QED BY <1>1, <1>5, <1>6, <2>1
<1> QED BY <1>1, <1>2, <1>3, <1>6, <1>7, <1>8, Expires

LEMMA DelListKeeps == ASSUME ListInv, DelList PROVE ListInv'
<1>1. /\ items' = {} /\ (raced' <=> InFlight # {}) /\ raced' \in BOOLEAN /\ UNCHANGED impl
  BY DEF DelList
<1>2. ASSUME NEW c \in Appends
      PROVE  append'[c] = IF append[c].pc \in {"done", "lost"}
                          THEN [append[c] EXCEPT !.pc = "deleted"] ELSE append[c]
  BY DEF DelList
<1>3. ASSUME NEW c \in Appends
      PROVE  /\ append'[c] \in ListCalls /\ append'[c].after = append[c].after
             /\ append'[c].max = append[c].max /\ append'[c].copy = append[c].copy
             /\ append'[c].pc = IF append[c].pc \in {"done", "lost"} THEN "deleted"
                                ELSE append[c].pc
  <2>1. append[c] \in ListCalls
    BY ListTypes
  <2>2. CASE append[c].pc \in {"done", "lost"}
    <3>1. append'[c] = [append[c] EXCEPT !.pc = "deleted"]
      BY <1>2, <2>2
    <3> QED BY <2>1, <2>2, <3>1 DEF ListCalls, ListPcs
  <2>3. CASE append[c].pc \notin {"done", "lost"}
    <3>1. append'[c] = append[c]
      BY <1>2, <2>3
    <3> QED BY <2>1, <2>3, <3>1
  <2> QED BY <2>2, <2>3
<1>4. append' \in [Appends -> ListCalls]
  <2>1. append' = [c \in Appends |-> append'[c]]
    BY DEF DelList
  <2> QED BY <1>3, <2>1
<1>5. ListTyped'
  <2>1. Bounded(items)'
    BY <1>1 DEF Bounded
  <2>2. \A c \in Appends : append'[c].max >= -1 /\ Bounded(append[c].copy)'
    BY <1>3, ListTypes DEF Bounded
  <2>3. \A c \in Appends : \A d \in append'[c].after : append'[d].pc \in {"done", "deleted"}
    <3> SUFFICES ASSUME NEW c \in Appends, NEW d \in append'[c].after
                 PROVE  append'[d].pc \in {"done", "deleted"}
      OBVIOUS
    <3>1. d \in Appends /\ append[d].pc \in {"done", "deleted"}
      BY <1>3 DEF ListCalls, ListInv, ListTyped
    <3> QED BY <1>3, <3>1
  <2>4. ~raced' => InFlight' = {}
    BY <1>1, <1>3 DEF InFlight
  <2>5. \A c \in Appends : append'[c].pc = "expire" => impl' = "redis"
    BY <1>1, <1>3, ListTypes
  <2> QED BY <1>1, <1>4, <2>1, <2>2, <2>3, <2>4, <2>5, ListTypes DEF ListTyped
<1>6. ASSUME Promised' PROVE ListGood'
  <2>1. \A c \in Appends : append'[c].pc # "done"
    BY <1>3
  <2>2. ASSUME NEW c \in Appends, append'[c].pc = "write", impl = "ram"
        PROVE  FALSE
    <3>1. ~raced'
      BY <1>1, <1>6, <2>2 DEF Promised
    <3>2. c \in InFlight
      BY <1>3, <2>2 DEF InFlight
    <3> QED BY <1>1, <3>1, <3>2
  <2> QED BY <1>1, <2>1, <2>2 DEF ListGood, Finished
<1> QED BY <1>5, <1>6 DEF ListInv

LEMMA ListTickKeeps == ASSUME ListInv, ListTick PROVE ListInv'
<1> DEFINE Aged(e) == IF e.left = Forever THEN e ELSE [e EXCEPT !.left = e.left - 1]
<1>1. /\ InFlight = {} /\ UNCHANGED <<impl, raced>>
      /\ items' = {Aged(e) : e \in {x \in items : x.left > 1}}
  BY DEF ListTick
<1>2. ASSUME NEW e \in items, e.left > 1
      PROVE  /\ Aged(e) \in Entries /\ Twin(Aged(e), e) /\ Aged(e).left >= e.left - 1
             /\ Aged(e).left = IF e.left = Forever THEN e.left ELSE e.left - 1
  <2>1. e \in Entries /\ e.left \in 1 .. Forever /\ Lifetime \in Nat /\ Forever = Lifetime + 1
    BY ListTypes
  <2>2. CASE e.left = Forever
    BY <2>1, <2>2 DEF Twin
  <2>3. CASE e.left # Forever
    <3>1. e.left - 1 \in 1 .. Forever
      BY <1>2, <2>1, <2>3
    <3>2. Aged(e) = [e EXCEPT !.left = e.left - 1]
      BY <2>3
    <3>3. Aged(e) \in Entries /\ Twin(Aged(e), e) /\ Aged(e).left = e.left - 1
      BY <2>1, <3>1, <3>2 DEF Entries, Twin
    <3> QED BY <2>1, <3>3
  <2> QED BY <2>2, <2>3
<1> HIDE DEF Aged
<1>3. \A d \in items' : d \in Entries /\ \E e \in items :
        Twin(d, e) /\ d.left = IF e.left = Forever THEN e.left ELSE e.left - 1
  BY <1>1, <1>2
<1>4. \A e \in items : e.left > 1 => \E d \in items' : Twin(d, e) /\ d.left >= e.left - 1
  BY <1>1, <1>2
<1>5. ASSUME NEW c \in Appends
      PROVE  /\ append'[c] \in ListCalls
             /\ append'[c].pc = append[c].pc /\ append'[c].size = append[c].size
             /\ append'[c].key = append[c].key /\ append'[c].after = append[c].after
             /\ append'[c].max = append[c].max /\ append'[c].copy = append[c].copy
             /\ append'[c].life = IF append[c].life > 0 THEN append[c].life - 1 ELSE 0
  <2>1. append'[c] = IF append[c].life > 0 THEN [append[c] EXCEPT !.life = append[c].life - 1]
                     ELSE append[c]
    BY DEF ListTick
  <2>2. append[c] \in ListCalls /\ append[c].life \in 0 .. Lifetime /\ Lifetime \in Nat
    BY ListTypes DEF ListCalls
  <2>3. CASE append[c].life > 0
    <3>1. append[c].life - 1 \in 0 .. Lifetime
      BY <2>2, <2>3
    <3> QED BY <2>1, <2>2, <2>3, <3>1 DEF ListCalls
  <2>4. CASE ~(append[c].life > 0)
    BY <2>1, <2>2, <2>4
  <2> QED BY <2>3, <2>4
<1>6. append' \in [Appends -> ListCalls]
  <2>1. append' = [c \in Appends |-> append'[c]]
    BY DEF ListTick
  <2> QED BY <1>5, <2>1
<1>7. ListTyped'
  <2>1. Bounded(items)'
    <3>1. PICK b \in Nat : \A e \in items : e.order <= b
      BY ListTypes DEF Bounded
    <3>2. \A d \in items' : d.order <= b
      BY <1>3, <3>1 DEF Twin
    <3> QED BY <3>2 DEF Bounded
  <2>2. \A c \in Appends : append'[c].max >= -1 /\ Bounded(append[c].copy)'
    BY <1>5, ListTypes DEF Bounded
  <2>3. \A c \in Appends : \A d \in append'[c].after : append'[d].pc \in {"done", "deleted"}
    <3> SUFFICES ASSUME NEW c \in Appends, NEW d \in append'[c].after
                 PROVE  append'[d].pc \in {"done", "deleted"}
      OBVIOUS
    <3>1. d \in Appends /\ append[d].pc \in {"done", "deleted"}
      BY <1>5 DEF ListCalls, ListInv, ListTyped
    <3> QED BY <1>5, <3>1
  <2>4. InFlight' = {}
    BY <1>1, <1>5 DEF InFlight
  <2>5. \A c \in Appends : append'[c].pc = "expire" => impl' = "redis"
    BY <1>1, <1>5, ListTypes
  <2> QED BY <1>1, <1>3, <1>6, <2>1, <2>2, <2>3, <2>4, <2>5, ListTypes DEF ListTyped
<1>8. ASSUME Promised' PROVE ListGood'
  <2>1. ListGood
    BY <1>1, <1>8 DEF Promised, ListInv
  <2>2. \A c \in Appends : append'[c].pc \notin {"write", "expire"}
    BY <1>1, <1>5 DEF InFlight
  <2>3. ASSUME NEW e \in items' PROVE append'[e.by].pc \in {"expire", "done", "lost"}
    <3>1. PICK x \in items : Twin(e, x)
      BY <1>3
    <3> QED BY <1>5, <2>1, <3>1, ListTypes DEF ListGood, Twin
  <2>4. ASSUME NEW e \in items', NEW d \in items', e.by \in append'[d.by].after
        PROVE  e.order < d.order
    <3>1. PICK x \in items, y \in items : Twin(e, x) /\ Twin(d, y)
      BY <1>3
    <3>2. d.by \in Appends
      BY <3>1, ListTypes DEF Twin
    <3> QED BY <1>5, <2>1, <2>4, <3>1, <3>2 DEF ListGood, Twin
  <2>5. ASSUME NEW c \in Appends, append'[c].pc = "done", append'[c].life > 0
        PROVE  KeptFor(c, append[c].life)'
    <3>1. append[c].life \in Nat /\ append'[c].life \in Nat
      BY <1>6, ListTypes DEF ListCalls
    <3>2. append[c].life > 1 /\ append'[c].life = append[c].life - 1
      BY <1>5, <2>5, <3>1
    <3>3. KeptFor(c, append[c].life)
      BY <1>5, <2>1, <2>5, <3>2 DEF ListGood, Finished
    <3>4. ASSUME NEW n \in 1 .. append[c].size
          PROVE  \E d \in items' : /\ d.by = c /\ d.n = n /\ d.key = append[c].key
                                   /\ d.left >= append'[c].life
      <4>1. PICK e \in items : /\ e.by = c /\ e.n = n /\ e.key = append[c].key
                               /\ e.left >= append[c].life
        BY <3>3 DEF KeptFor
      <4>2. e.left \in Nat /\ e.left > 1
        <5>1. e.left \in Nat
          BY ListTypes DEF Entries
        <5> QED BY <3>1, <3>2, <4>1, <5>1
      <4>3. PICK d \in items' : Twin(d, e) /\ d.left >= e.left - 1
        BY <1>4, <4>2
      <4>4. d.left \in Nat
        BY <1>3 DEF Entries
      <4>5. d.left >= append'[c].life
        BY <3>1, <3>2, <4>1, <4>2, <4>3, <4>4
      <4> QED BY <4>1, <4>3, <4>5 DEF Twin
    <3> QED BY <1>5, <3>4 DEF KeptFor
  <2>6. impl' = "redis" => \A e, d \in items' : e.left = d.left
    BY <1>1, <1>3, <2>1 DEF ListGood
  <2> QED BY <2>2, <2>3, <2>4, <2>5, <2>6 DEF ListGood, Finished
<1> QED BY <1>7, <1>8 DEF ListInv

LEMMA ListSteps == ASSUME ListInv, [ListCacheNext]_listVars PROVE ListInv'
<1>1. CASE UNCHANGED listVars
  BY <1>1 DEF listVars, ListInv, ListTyped, Bounded, InFlight, Promised, ListGood, KeptFor, Finished
<1>2. CASE ListCacheNext
  BY <1>2, StartAppendKeeps, PushItemsKeeps, ExpireKeeps, ExpireFailsKeeps, ReadMaxKeeps,
     CreateRowsKeeps, ReadListKeeps, StoreListKeeps, AppendFailsKeeps, DelListKeeps, ListTickKeeps
     DEF ListCacheNext
<1> QED BY <1>1, <1>2

\* Of the items with one key, there is one that GetAll reads before the others: the orders
\* are natural numbers, and bounded.
LEMMA FirstRead ==
  ASSUME ListInv, NEW x \in items, impl # "ram"
  PROVE  \E e \in Listed : e.key = x.key
<1> DEFINE S == {e.order : e \in {d \in items : d.key = x.key}}
<1>1. S \subseteq Nat /\ S # {}
  BY ListTypes
<1>2. PICK b \in Nat : \A y \in S : y <= b
  BY ListTypes DEF Bounded
<1>3. \A e \in items : e.key = x.key => e.order \in S
  OBVIOUS
<1>4. \A y \in S : \E e \in items : e.key = x.key /\ y = e.order
  OBVIOUS
<1> HIDE DEF S
<1>5. CASE impl = "redis"
  <2>1. PICK m \in S : \A y \in S : m >= y
    BY <1>1, <1>2, GreatestNumber
  <2>2. PICK e \in items : e.key = x.key /\ m = e.order
    BY <1>4, <2>1
  <2>3. \A d \in items : d.key = e.key => ~ReadBefore(d, e)
    BY <1>1, <1>3, <1>5, <2>1, <2>2 DEF ReadBefore
  <2> QED BY <2>2, <2>3 DEF Listed
<1>6. CASE impl # "redis"
  <2>1. PICK m \in S : \A y \in S : m <= y
    BY <1>1, LeastNumber
  <2>2. PICK e \in items : e.key = x.key /\ m = e.order
    BY <1>4, <2>1
  <2>3. \A d \in items : d.key = e.key => ~ReadBefore(d, e)
    BY <1>1, <1>3, <1>6, <2>1, <2>2 DEF ReadBefore
  <2> QED BY <2>2, <2>3 DEF Listed
<1> QED BY <1>5, <1>6

LEMMA ListHoldsNow == ListInv => ListHolds
<1> SUFFICES ASSUME ListInv, Promised
             PROVE  /\ \A c \in Finished : append[c].life > 0 =>
                         \A n \in 1 .. append[c].size :
                           \E e \in Listed : IF append[c].key = NoItemKey \/ impl = "ram"
                                             THEN e.by = c /\ e.n = n
                                             ELSE e.key = append[c].key
                    /\ \A e \in items : append[e.by].pc # "deleted"
                    /\ \A e, d \in Listed : e.by \in append[d.by].after =>
                         IF impl = "redis" THEN ReadBefore(d, e) ELSE ReadBefore(e, d)
  BY DEF ListHolds, Promised
<1>1. ListGood
  BY DEF ListInv
<1>2. ASSUME NEW c \in Finished, append[c].life > 0, NEW n \in 1 .. append[c].size
      PROVE  \E e \in Listed : IF append[c].key = NoItemKey \/ impl = "ram"
                               THEN e.by = c /\ e.n = n
                               ELSE e.key = append[c].key
  <2>1. PICK e \in items : e.by = c /\ e.n = n /\ e.key = append[c].key
    BY <1>1, <1>2 DEF ListGood, KeptFor
  <2>2. CASE append[c].key = NoItemKey \/ impl = "ram"
    BY <2>1, <2>2 DEF Listed
  <2>3. CASE ~(append[c].key = NoItemKey \/ impl = "ram")
    BY <2>1, <2>3, FirstRead
  <2> QED BY <2>2, <2>3
<1>3. \A e \in items : append[e.by].pc # "deleted"
  BY <1>1 DEF ListGood
<1>4. ASSUME NEW e \in Listed, NEW d \in Listed, e.by \in append[d.by].after
      PROVE  IF impl = "redis" THEN ReadBefore(d, e) ELSE ReadBefore(e, d)
  <2>1. e.order < d.order /\ e.order \in Nat /\ d.order \in Nat
    BY <1>1, <1>4, ListTypes DEF ListGood, Listed
  <2> QED BY <2>1 DEF ReadBefore
<1> QED BY <1>2, <1>3, <1>4

\* In every behaviour of a cached list, for every number of calls of Append that overlap in
\* redis and in the table, what a call that returned nil has added is read, behind what
\* earlier calls added, until the list is deleted or its time is over: Timeout, or what the
\* list had left when the call's Expire failed unnoticed.  In memory the same holds as long
\* as no two calls overlap.
THEOREM ListsHold == ListCacheSpec => []ListHolds
<1>1. ListInv /\ [ListCacheNext]_listVars => ListInv'
  BY ListSteps
<1> QED BY <1>1, ListInits, ListHoldsNow, PTL DEF ListCacheSpec

-----------------------------------------------------------------------------
(* EntitySync: a table in pages                                            *)

\* A sequence that is in order from each element to the next is in order throughout.
LEMMA Ascending ==
  ASSUME NEW n \in Nat, NEW w \in [1 .. n -> Nat], \A k \in 1 .. n - 1 : w[k] <= w[k + 1],
         NEW k \in 1 .. n, NEW l \in 1 .. n, k <= l
  PROVE  w[k] <= w[l]
<1> DEFINE T == {m \in k .. n : ~(w[k] <= w[m])}
<1>a. l \in k .. n
  OBVIOUS
<1>0. (T = {}) => w[k] <= w[l]
  <2> SUFFICES ASSUME ~(w[k] <= w[l]) PROVE l \in T
    OBVIOUS
  <2> QED BY ONLY <1>a, ~(w[k] <= w[l])
<1> SUFFICES ASSUME T # {} PROVE FALSE
  BY <1>0
<1>1. T \subseteq Nat
  OBVIOUS
<1>2. PICK m \in T : \A j \in T : m <= j
  <2> HIDE DEF T
  <2> QED BY <1>1, LeastNumber
<1>3. m # k /\ m - 1 \in k .. n
  BY <1>2
<1>4. m - 1 \notin T
  <2> SUFFICES ASSUME m - 1 \in T PROVE FALSE
    OBVIOUS
  <2>1. m <= m - 1 /\ m \in Int
    BY <1>2
  <2> QED BY <2>1
<1>5. w[k] <= w[m - 1]
  BY <1>3, <1>4
<1>6. m - 1 \in 1 .. n - 1 /\ m = (m - 1) + 1
  BY <1>2, <1>3
<1>7. w[m - 1] <= w[m]
  BY <1>6
<1>8. w[k] \in Nat /\ w[m - 1] \in Nat /\ w[m] \in Nat
  BY <1>2, <1>6
<1>9. w[k] <= w[m]
  BY <1>5, <1>7, <1>8
<1> QED BY <1>2, <1>9

\* A sequence of all elements of a finite set.
LEMMA AllOnce ==
  ASSUME NEW S, IsFiniteSet(S), NEW s \in SetToSeqs(S)
  PROVE  /\ s \in Seq(S) /\ Len(s) = Cardinality(S) /\ Len(s) \in Nat
         /\ s \in [1 .. Len(s) -> S]
         /\ \A i, j \in 1 .. Len(s) : s[i] = s[j] => i = j
         /\ \A x \in S : \E i \in 1 .. Len(s) : s[i] = x
<1> DEFINE n == Cardinality(S)
<1>1. n \in Nat
  BY FS_CardinalityType
<1>2. s \in [1 .. n -> S] /\ \A i, j \in 1 .. n : i # j => s[i] # s[j]
  BY DEF SetToSeqs
<1> HIDE DEF n
<1>3. s \in Seq(S) /\ Len(s) = n
  BY <1>1, <1>2
<1>4. s \in Injection(1 .. n, S)
  BY <1>2 DEF Injection, IsInjective
<1>5. IsFiniteSet(1 .. n) /\ Cardinality(1 .. n) = n
  BY <1>1, FS_Interval
<1>6. s \in Surjection(1 .. n, S)
  BY <1>4, <1>5, FS_Injection DEF n
<1>7. \A x \in S : \E i \in 1 .. n : s[i] = x
  BY <1>6 DEF Surjection
<1> QED BY <1>1, <1>2, <1>3, <1>7 DEF n

-----------------------------------------------------------------------------
(* EntitySync: types                                                       *)

SourceRows == [ver : Nat, del : BOOLEAN, at : Nat]
ReplicaRows == [ver : Nat, del : BOOLEAN]
Passes == {"save", "delete"}
Syncs == [pass : Passes \cup {"idle", "done"}, index : Nat, last : BOOLEAN,
          todo : Seq(Ids \X Nat), since : Nat, to : Nat]

SyncTyped ==
  /\ enabled \in BOOLEAN /\ healing \in BOOLEAN /\ now \in Nat
  /\ source \in [Ids -> SourceRows] /\ replica \in [Ids -> ReplicaRows]
  /\ \A k \in DOMAIN txn : txn[k] \in SourceRows
  /\ \A m \in inflight : m.act \in Actions => m.id \in Ids /\ m.ver \in Nat
  /\ sync \in Syncs
  /\ sync.pass \notin Passes => sync.todo = <<>>

LEMMA SyncTypedInit == EntitySyncInit => SyncTyped
<1> SUFFICES ASSUME EntitySyncInit PROVE SyncTyped
  OBVIOUS
<1> USE DEF EntitySyncInit
<1>1. enabled \in BOOLEAN /\ healing \in BOOLEAN /\ now \in Nat
  OBVIOUS
<1>2. source \in [Ids -> SourceRows]
  <2>1. {NoRow} \cup [ver : {1}, del : BOOLEAN, at : {0, 1}] \subseteq SourceRows
    <3>1. NoRow \in SourceRows
      BY DEF NoRow, SourceRows
    <3>2. [ver : {1}, del : BOOLEAN, at : {0, 1}] \subseteq SourceRows
      BY DEF SourceRows
    <3> QED BY <3>1, <3>2
  <2> QED BY <2>1
<1>3. replica \in [Ids -> ReplicaRows]
  <2>1. PICK v \in {0, 1} : replica = [i \in Ids |-> [ver |-> v, del |-> FALSE]]
    OBVIOUS
  <2>2. [ver |-> v, del |-> FALSE] \in ReplicaRows
    BY DEF ReplicaRows
  <2> QED BY <2>1, <2>2
<1>4. (\A k \in DOMAIN txn : txn[k] \in SourceRows) /\ inflight = {}
  OBVIOUS
<1>5. sync \in Syncs /\ sync.todo = <<>>
  <2>1. <<>> \in Seq(Ids \X Nat)
    OBVIOUS
  <2> QED BY <2>1 DEF Idle, Syncs
<1> QED BY <1>1, <1>2, <1>3, <1>4, <1>5 DEF SyncTyped

\* What is published of a row of the table is well formed.
LEMMA PublishedTyped ==
  ASSUME SyncTyped, NEW i \in Ids, NEW ver \in Nat, NEW act, NEW ms \in Published(i, ver, act)
  PROVE  /\ \A m \in inflight \cup ms : m.act \in Actions => m.id \in Ids /\ m.ver \in Nat
         /\ ms # {} => ms = {[id |-> i, ver |-> ver, act |-> act]}
  BY DEF Published, SyncTyped

LEMMA WriteTyped ==
  ASSUME SyncTyped, NEW i \in Ids, NEW act \in Actions, Write(i, act)
  PROVE  SyncTyped'
<1> DEFINE new == [ver |-> IF act = "save" THEN now + 1 ELSE source[i].ver,
                   del |-> act = "delete", at |-> now + 1]
<1>1. new \in SourceRows /\ new.ver \in Nat
  BY DEF SyncTyped, SourceRows
<1>2. txn' = [k \in {i} |-> new]
  BY DEF Write
<1>3. \E ms \in Published(i, new.ver, act) : inflight' = inflight \cup ms
  BY DEF Write
<1>4. /\ UNCHANGED <<enabled, source, replica, sync>>
      /\ now' \in Nat /\ healing' = FALSE
  BY DEF Write, SyncTyped
<1> HIDE DEF new
<1>5. \A m \in inflight' : m.act \in Actions => m.id \in Ids /\ m.ver \in Nat
  BY <1>1, <1>3, PublishedTyped
<1>6. \A k \in DOMAIN txn' : txn'[k] \in SourceRows
  BY <1>1, <1>2
<1> QED BY <1>4, <1>5, <1>6 DEF SyncTyped

LEMMA WriteUnseenTyped ==
  ASSUME SyncTyped, NEW i \in Ids, WriteUnseen(i)
  PROVE  SyncTyped'
<1>1. \A k \in DOMAIN txn' : txn'[k] \in SourceRows
  BY DEF WriteUnseen, SyncTyped, SourceRows
<1>2. /\ UNCHANGED <<enabled, source, replica, inflight, sync>>
      /\ now' \in Nat /\ healing' = FALSE
  BY DEF WriteUnseen, streamVars, SyncTyped
<1> QED BY <1>1, <1>2 DEF SyncTyped

LEMMA EndTransactionTyped ==
  ASSUME SyncTyped, EndTransaction
  PROVE  SyncTyped'
<1>1. source' \in [Ids -> SourceRows]
  BY DEF EndTransaction, SyncTyped
<1>2. /\ UNCHANGED <<enabled, now, replica, inflight, sync>>
      /\ healing' = FALSE /\ DOMAIN txn' = {}
  BY DEF EndTransaction, streamVars, Closed
<1> QED BY <1>1, <1>2 DEF SyncTyped

LEMMA StartSyncTyped ==
  ASSUME SyncTyped, NEW w \in Windows, StartSync(w)
  PROVE  SyncTyped'
<1>1. w[1] \in Nat /\ w[2] \in Nat
  BY SyncAssumption DEF SyncAssumption
<1>2. <<>> \in Seq(Ids \X Nat)
  OBVIOUS
<1>3. sync' = [pass |-> "save", index |-> 0, last |-> FALSE, todo |-> <<>>,
               since |-> w[1], to |-> w[2]]
  BY DEF StartSync, Idle
<1>4. sync' \in Syncs /\ sync'.pass = "save"
  BY <1>1, <1>2, <1>3 DEF Syncs, Passes
<1>5. UNCHANGED <<enabled, now, source, txn, replica, inflight>> /\ healing' \in BOOLEAN
  BY DEF StartSync, sourceVars, streamVars, SyncTyped
<1> QED BY <1>4, <1>5 DEF SyncTyped, Passes

\* A page is a run of the ordered rows.
LEMMA PageIs ==
  ASSUME NEW S, NEW s \in Seq(S), NEW x \in Nat
  PROVE  LET m == x * SyncPageSize
             n == m + SyncPageSize
             e == IF Len(s) < n THEN Len(s) ELSE n
         IN  /\ m \in Nat /\ n \in Nat /\ e \in Nat
             /\ Page(s, x) \in Seq(S)
             /\ Len(Page(s, x)) = (IF m + 1 <= e THEN e - m ELSE 0)
             /\ \A i \in 1 .. e - m : Page(s, x)[i] = s[m + i]
<1> DEFINE m == x * SyncPageSize
           n == m + SyncPageSize
           e == IF Len(s) < n THEN Len(s) ELSE n
<1>1. SyncPageSize \in Nat /\ m \in Nat /\ n \in Nat /\ (x + 1) * SyncPageSize = n
  BY SyncAssumption DEF SyncAssumption
<1>2. Page(s, x) = SubSeq(s, m + 1, e)
  BY <1>1 DEF Page
<1> HIDE DEF m
<1>3. Len(s) \in Nat /\ e \in Nat /\ e <= Len(s)
  BY <1>1
<1> HIDE DEF n, e
<1>4. m + 1 \in Int /\ e \in Int
  BY <1>1, <1>3
<1>5. \A i \in (m + 1) .. e : s[i] \in S
  BY <1>1, <1>3
<1>6. /\ SubSeq(s, m + 1, e) \in Seq(S)
      /\ Len(SubSeq(s, m + 1, e)) = IF m + 1 <= e THEN e - (m + 1) + 1 ELSE 0
      /\ \A i \in 1 .. e - (m + 1) + 1 : SubSeq(s, m + 1, e)[i] = s[(m + 1) + i - 1]
  BY <1>4, <1>5, SubSeqProperties
<1>7. e - (m + 1) + 1 = e - m /\ \A i \in 1 .. e - m : (m + 1) + i - 1 = m + i
  BY <1>1, <1>3
<1>8. /\ Page(s, x) \in Seq(S)
      /\ Len(Page(s, x)) = (IF m + 1 <= e THEN e - m ELSE 0)
      /\ \A i \in 1 .. e - m : Page(s, x)[i] = s[m + i]
  BY <1>2, <1>6, <1>7
<1> QED BY <1>1, <1>3, <1>8 DEF m, n, e

LEMMA SyncRecord ==
  ASSUME NEW p \in Passes \cup {"idle", "done"}, NEW x \in Nat, NEW l \in BOOLEAN,
         NEW t \in Seq(Ids \X Nat), NEW a \in Nat, NEW b \in Nat,
         sync' = [pass |-> p, index |-> x, last |-> l, todo |-> t, since |-> a, to |-> b]
  PROVE  sync' \in Syncs /\ sync'.pass = p /\ sync'.todo = t
  BY DEF Syncs

LEMMA SyncFields ==
  SyncTyped => /\ sync.pass \in Passes \cup {"idle", "done"} /\ sync.index \in Nat
               /\ sync.last \in BOOLEAN /\ sync.todo \in Seq(Ids \X Nat)
               /\ sync.since \in Nat /\ sync.to \in Nat /\ sync.index + 1 \in Nat
  BY DEF SyncTyped, Syncs

\* The page NextPage takes of an ordering of the selected rows.
LEMMA TakesPage ==
  ASSUME SyncTyped, NextPage
  PROVE  \E s \in Orders :
           LET took == Page(s, sync.index)
               todo == [k \in 1 .. Len(took) |-> <<took[k], source[took[k]].ver>>]
           IN  /\ s \in Seq(Selected) /\ took \in Seq(Selected)
               /\ todo \in Seq(Ids \X Nat) /\ Len(todo) = Len(took)
               /\ sync' = [pass |-> sync.pass, index |-> sync.index + 1,
                           last |-> Len(took) < SyncPageSize, todo |-> todo,
                           since |-> sync.since, to |-> sync.to]
<1>1. PICK s \in Orders :
        LET took == Page(s, sync.index) IN
        sync' = [sync EXCEPT !.todo = [k \in DOMAIN took |-> <<took[k], source[took[k]].ver>>],
                             !.index = @ + 1, !.last = Len(took) < SyncPageSize]
  BY DEF NextPage
<1> DEFINE took == Page(s, sync.index)
           todo == [k \in 1 .. Len(took) |-> <<took[k], source[took[k]].ver>>]
<1>2. sync.index \in Nat /\ sync \in Syncs
  BY DEF SyncTyped, Syncs
<1>3. IsFiniteSet(Selected)
  BY SyncAssumption, FS_Subset DEF SyncAssumption, Selected
<1>4. s \in Seq(Selected)
  BY <1>3, AllOnce DEF Orders
<1>5. took \in Seq(Selected)
  BY <1>2, <1>4, PageIs
<1>6. DOMAIN took = 1 .. Len(took) /\ Len(took) \in Nat
  BY <1>5
<1>7. \A k \in 1 .. Len(took) : took[k] \in Selected
  BY <1>5, <1>6
<1>8. sync' = [sync EXCEPT !.todo = todo, !.index = @ + 1, !.last = Len(took) < SyncPageSize]
  BY <1>1, <1>6
<1> HIDE DEF took
<1>9. todo \in Seq(Ids \X Nat) /\ Len(todo) = Len(took)
  <2>1. \A k \in 1 .. Len(took) : <<took[k], source[took[k]].ver>> \in Ids \X Nat
    BY <1>7 DEF Selected, SyncTyped, SourceRows
  <2>2. todo \in [1 .. Len(took) -> Ids \X Nat]
    BY <2>1
  <2> QED BY <1>6, <2>2
<1> HIDE DEF todo
<1>10. sync' = [pass |-> sync.pass, index |-> sync.index + 1,
                last |-> Len(took) < SyncPageSize, todo |-> todo,
                since |-> sync.since, to |-> sync.to]
  BY <1>2, <1>8 DEF Syncs
<1> QED BY <1>4, <1>5, <1>9, <1>10 DEF took, todo

LEMMA NextPageTyped ==
  ASSUME SyncTyped, NextPage
  PROVE  SyncTyped'
<1>1. PICK s \in Orders :
        LET took == Page(s, sync.index)
            todo == [k \in 1 .. Len(took) |-> <<took[k], source[took[k]].ver>>]
        IN  /\ todo \in Seq(Ids \X Nat)
            /\ sync' = [pass |-> sync.pass, index |-> sync.index + 1,
                        last |-> Len(took) < SyncPageSize, todo |-> todo,
                        since |-> sync.since, to |-> sync.to]
  BY TakesPage
<1>2. sync' \in Syncs /\ sync'.pass = sync.pass
  <2> DEFINE took == Page(s, sync.index)
             todo == [k \in 1 .. Len(took) |-> <<took[k], source[took[k]].ver>>]
             full == Len(took) < SyncPageSize
  <2>1. /\ full \in BOOLEAN /\ todo \in Seq(Ids \X Nat)
        /\ sync' = [pass |-> sync.pass, index |-> sync.index + 1, last |-> full, todo |-> todo,
                    since |-> sync.since, to |-> sync.to]
    BY <1>1
  <2> HIDE DEF todo, full
  <2> QED BY <2>1, SyncFields, SyncRecord
<1>3. /\ UNCHANGED <<enabled, now, source, txn, replica, inflight>> /\ healing' \in BOOLEAN
      /\ sync.pass \in Passes
  BY DEF NextPage, sourceVars, streamVars, SyncTyped, Passes
<1> QED BY <1>2, <1>3 DEF SyncTyped

LEMMA SyncFailsTyped ==
  ASSUME SyncTyped, SyncFails
  PROVE  SyncTyped'
<1>1. <<>> \in Seq(Ids \X Nat)
  OBVIOUS
<1>2. sync' \in Syncs /\ sync'.todo = <<>>
  BY <1>1 DEF SyncFails, Idle, Syncs
<1>3. UNCHANGED <<enabled, now, source, txn, replica, inflight>> /\ healing' \in BOOLEAN
  BY DEF SyncFails, sourceVars, streamVars
<1> QED BY <1>2, <1>3 DEF SyncTyped

\* What PublishItem takes off the page.
LEMMA TakesItem ==
  ASSUME SyncTyped, PublishItem
  PROVE  /\ Head(sync.todo) \in Ids \X Nat /\ Head(sync.todo) = sync.todo[1]
         /\ sync.pass \in Passes
         /\ Tail(sync.todo) \in Seq(Ids \X Nat)
         /\ Len(sync.todo) \in Nat \ {0} /\ Len(Tail(sync.todo)) = Len(sync.todo) - 1
         /\ \A k \in 1 .. Len(Tail(sync.todo)) : Tail(sync.todo)[k] = sync.todo[k + 1]
         /\ sync' = [pass |-> sync.pass, index |-> sync.index, last |-> sync.last,
                     todo |-> Tail(sync.todo), since |-> sync.since, to |-> sync.to]
<1>1. sync.todo \in Seq(Ids \X Nat) /\ sync.todo # <<>> /\ sync \in Syncs
  BY DEF PublishItem, SyncTyped, Syncs
<1>2. sync.pass \in Passes
  BY <1>1 DEF SyncTyped
<1>3. sync' = [sync EXCEPT !.todo = Tail(@)]
  BY DEF PublishItem
<1>4. sync' = [pass |-> sync.pass, index |-> sync.index, last |-> sync.last,
               todo |-> Tail(sync.todo), since |-> sync.since, to |-> sync.to]
  BY <1>1, <1>3 DEF Syncs
<1>5. Len(sync.todo) \in Nat \ {0} /\ Head(sync.todo) = sync.todo[1]
  BY <1>1
<1> QED BY <1>1, <1>2, <1>4, <1>5, HeadTailProperties

LEMMA PublishItemTyped ==
  ASSUME SyncTyped, PublishItem
  PROVE  SyncTyped'
<1>1. Head(sync.todo) \in Ids \X Nat /\ sync.pass \in Passes
  BY TakesItem
<1>2. PICK ms \in Published(Head(sync.todo)[1], Head(sync.todo)[2], sync.pass) :
        inflight' = inflight \cup ms /\ healing' = (healing /\ ms # {})
  BY DEF PublishItem
<1>3. \A m \in inflight' : m.act \in Actions => m.id \in Ids /\ m.ver \in Nat
  BY <1>1, <1>2, PublishedTyped
<1>4. sync' \in Syncs /\ sync'.pass = sync.pass
  <2> DEFINE t == Tail(sync.todo)
  <2>1. t \in Seq(Ids \X Nat)
    BY TakesItem
  <2>2. sync' = [pass |-> sync.pass, index |-> sync.index, last |-> sync.last,
                 todo |-> t, since |-> sync.since, to |-> sync.to]
    BY TakesItem
  <2> HIDE DEF t
  <2> QED BY ONLY <2>1, <2>2, SyncTyped, SyncFields, SyncRecord
<1>5. /\ UNCHANGED <<enabled, now, source, txn, replica>> /\ healing' \in BOOLEAN
  BY <1>2 DEF PublishItem, sourceVars
<1> QED BY <1>1, <1>3, <1>4, <1>5 DEF SyncTyped

\* The end of a pass.
LEMMA EndsPass ==
  ASSUME SyncTyped, EndPass
  PROVE  /\ sync.pass \in Passes /\ sync.last /\ sync.todo = <<>>
         /\ sync' = [pass |-> IF sync.pass = "save" THEN "delete" ELSE "done", index |-> 0,
                     last |-> FALSE, todo |-> <<>>, since |-> sync.since, to |-> sync.to]
         /\ UNCHANGED <<enabled, now, source, txn, replica, inflight, healing>>
<1>1. sync \in Syncs
  BY DEF SyncTyped
<1>2. sync.pass \in Passes /\ sync.last /\ sync.todo = <<>>
  BY DEF EndPass, Passes
<1>3. sync' = [sync EXCEPT !.pass = IF @ = "save" THEN "delete" ELSE "done",
                           !.index = 0, !.last = FALSE]
  BY DEF EndPass
<1>4. sync' = [pass |-> IF sync.pass = "save" THEN "delete" ELSE "done", index |-> 0,
               last |-> FALSE, todo |-> <<>>, since |-> sync.since, to |-> sync.to]
  BY <1>1, <1>2, <1>3 DEF Syncs
<1>5. UNCHANGED <<enabled, now, source, txn, replica, inflight, healing>>
  BY DEF EndPass, sourceVars, streamVars
<1> QED BY <1>2, <1>4, <1>5

LEMMA EndPassTyped ==
  ASSUME SyncTyped, EndPass
  PROVE  SyncTyped'
<1>1. <<>> \in Seq(Ids \X Nat)
  OBVIOUS
<1>2. sync' \in Syncs /\ sync'.todo = <<>>
  <2>1. (IF sync.pass = "save" THEN "delete" ELSE "done") \in Passes \cup {"idle", "done"}
    BY DEF Passes
  <2> DEFINE p == IF sync.pass = "save" THEN "delete" ELSE "done"
  <2>2. /\ 0 \in Nat /\ FALSE \in BOOLEAN
        /\ sync' = [pass |-> p, index |-> 0, last |-> FALSE, todo |-> <<>>,
                    since |-> sync.since, to |-> sync.to]
    BY EndsPass
  <2> HIDE DEF p
  <2>3. p \in Passes \cup {"idle", "done"}
    BY <2>1 DEF p
  <2> QED BY ONLY SyncTyped, <1>1, <2>2, <2>3, SyncFields, SyncRecord
<1>3. UNCHANGED <<enabled, now, source, txn, replica, inflight, healing>>
  BY EndsPass
<1> QED BY <1>2, <1>3 DEF SyncTyped

LEMMA ReceivesTyped ==
  ASSUME SyncTyped, NEW m \in inflight, ReceiveRow(m) \/ ReceiveOdd(m) \/ DeadLetter(m)
  PROVE  SyncTyped'
<1>1. /\ UNCHANGED <<enabled, now, source, txn, sync>> /\ healing' \in BOOLEAN
      /\ inflight' \subseteq inflight
  BY DEF ReceiveRow, ReceiveOdd, DeadLetter, sourceVars, SyncTyped
<1>2. replica' \in [Ids -> ReplicaRows]
  <2>1. CASE replica' = replica
    BY <2>1 DEF SyncTyped
  <2>2. CASE replica' # replica
    <3>1. m.act \in Actions /\ replica' = Applied(m)
      BY <2>2 DEF ReceiveRow, ReceiveOdd, DeadLetter
    <3>2. m.id \in Ids /\ m.ver \in Nat
      BY <3>1 DEF SyncTyped
    <3>3. replica \in [Ids -> ReplicaRows] /\ replica[m.id] \in ReplicaRows
      BY <3>2 DEF SyncTyped
    <3>4. CASE m.act = "save"
      <4>1. [ver |-> m.ver, del |-> FALSE] \in ReplicaRows
        BY <3>2 DEF ReplicaRows
      <4>2. replica' = [replica EXCEPT ![m.id] = [ver |-> m.ver, del |-> FALSE]]
        BY <3>1, <3>4 DEF Applied
      <4> QED BY <3>3, <4>1, <4>2
    <3>5. CASE m.act = "delete"
      <4> DEFINE r == [replica[m.id] EXCEPT !.del = @ \/ replica[m.id].ver # 0]
      <4>1. r \in ReplicaRows
        BY <3>3 DEF ReplicaRows
      <4>2. replica' = [replica EXCEPT ![m.id] = r]
        BY <3>1, <3>5 DEF Applied
      <4> HIDE DEF r
      <4> QED BY <3>3, <4>1, <4>2
    <3> QED BY <3>1, <3>4, <3>5 DEF Actions
  <2> QED BY <2>1, <2>2
<1> QED BY <1>1, <1>2 DEF SyncTyped

LEMMA SyncTypedKept == SyncTyped /\ [EntitySyncNext]_syncVars => SyncTyped'
<1> SUFFICES ASSUME SyncTyped, [EntitySyncNext]_syncVars PROVE SyncTyped'
  OBVIOUS
<1>1. CASE UNCHANGED syncVars
  BY <1>1 DEF syncVars, SyncTyped
<1>2. ASSUME NEW i \in Ids, WriteUnseen(i) PROVE SyncTyped'
  BY <1>2, WriteUnseenTyped
<1>3. ASSUME NEW i \in Ids, NEW a \in Actions, Write(i, a) PROVE SyncTyped'
  BY <1>3, WriteTyped
<1>4. CASE EndTransaction
  BY <1>4, EndTransactionTyped
<1>5. ASSUME NEW w \in Windows, StartSync(w) PROVE SyncTyped'
  BY <1>5, StartSyncTyped
<1>6. CASE NextPage
  BY <1>6, NextPageTyped
<1>7. CASE SyncFails
  BY <1>7, SyncFailsTyped
<1>8. CASE PublishItem
  BY <1>8, PublishItemTyped
<1>9. CASE EndPass
  BY <1>9, EndPassTyped
<1>10. CASE ForeignPub
  <2>1. UNCHANGED <<enabled, now, source, txn, replica, sync, healing>>
    BY <1>10 DEF ForeignPub, sourceVars
  <2>2. \A m \in inflight' : m \in inflight \/ m.act \in Oddities
    BY <1>10 DEF ForeignPub
  <2>3. \A m \in inflight' : m.act \in Actions => m.id \in Ids /\ m.ver \in Nat
    BY <2>2 DEF Actions, Oddities, SyncTyped
  <2> QED BY <2>1, <2>3 DEF SyncTyped
<1>11. ASSUME NEW m \in inflight, ReceiveRow(m) \/ ReceiveOdd(m) \/ DeadLetter(m)
       PROVE  SyncTyped'
  BY <1>11, ReceivesTyped
<1> QED BY <1>1, <1>2, <1>3, <1>4, <1>5, <1>6, <1>7, <1>8, <1>9, <1>10, <1>11
     DEF EntitySyncNext

-----------------------------------------------------------------------------
(* EntitySync: what a sync that nothing came in the way of has reached     *)

LiveRows == {i \in Ids : source[i].ver # 0 /\ ~source[i].del /\ InSyncWindow(i)}
GoneRows == {i \in Ids : source[i].ver # 0 /\ source[i].del /\ InSyncWindow(i)}

\* A message that says of its row what the row is.
Truthful(m) ==
  /\ m.id \in Ids /\ source[m.id].ver # 0
  /\ m.act = "save" => ~source[m.id].del /\ m.ver = source[m.id].ver
  /\ m.act = "delete" => source[m.id].del

\* The replica has the row as it is.
Matched(i) ==
  IF source[i].del THEN replica[i].ver = 0 \/ replica[i].del
  ELSE replica[i] = [ver |-> source[i].ver, del |-> FALSE]

\* It does, or a message that will make it so is under way.
Settled(i) == Matched(i) \/ \E m \in inflight : m.act \in Actions /\ m.id = i

Waiting(i) == \E k \in 1 .. Len(sync.todo) : sync.todo[k][1] = i

\* The rows of the pages so far: all the selected ones, or the earliest.
Covered(C) ==
  /\ \A i \in C : Settled(i) \/ Waiting(i)
  /\ sync.last => C = Selected
  /\ ~sync.last => /\ Cardinality(C) = sync.index * SyncPageSize
                   /\ \A i \in C, j \in Selected : source[j].at < source[i].at => j \in C

HealsInv ==
  healing =>
    /\ \A m \in inflight : m.act \in Actions => Truthful(m)
    /\ \A k \in 1 .. Len(sync.todo) :
         /\ sync.todo[k][1] \in Selected
         /\ sync.todo[k][2] = source[sync.todo[k][1]].ver
    /\ sync.pass \in Passes => \E C \in SUBSET Selected : Covered(C)
    /\ sync.pass = "delete" => \A i \in LiveRows : Settled(i)
    /\ sync.pass = "done" => \A i \in LiveRows \cup GoneRows : Settled(i)

LEMMA SelectedIs ==
  ASSUME SyncTyped
  PROVE  /\ sync.pass = "delete" => Selected = GoneRows
         /\ sync.pass # "delete" => Selected = LiveRows
         /\ Selected \subseteq Ids /\ IsFiniteSet(Selected)
         /\ \A i \in Selected : source[i].ver # 0 /\ (source[i].del <=> sync.pass = "delete")
<1>1. \A i \in Ids : source[i].del \in BOOLEAN
  BY DEF SyncTyped, SourceRows
<1>2. sync.pass = "delete" => \A i \in Ids :
        (source[i].del = (sync.pass = "delete")) <=> source[i].del
  BY <1>1
<1>3. sync.pass # "delete" => \A i \in Ids :
        (source[i].del = (sync.pass = "delete")) <=> ~source[i].del
  BY <1>1
<1>4. /\ sync.pass = "delete" => Selected = GoneRows
      /\ sync.pass # "delete" => Selected = LiveRows
  BY <1>2, <1>3 DEF Selected, LiveRows, GoneRows, InSyncWindow
<1>5. Selected \subseteq Ids /\ IsFiniteSet(Selected)
  BY SyncAssumption, FS_Subset DEF SyncAssumption, Selected
<1> QED BY <1>4, <1>5 DEF LiveRows, GoneRows

LEMMA StartSyncHeals ==
  ASSUME SyncTyped, NEW w \in Windows, StartSync(w)
  PROVE  HealsInv'
<1>1. sync' = [pass |-> "save", index |-> 0, last |-> FALSE, todo |-> <<>>,
               since |-> w[1], to |-> w[2]]
  BY DEF StartSync, Idle
<1>2. healing' => inflight' = {}
  BY DEF StartSync, streamVars, Open
<1>3. \A k \in 1 .. Len(sync'.todo) : FALSE
  BY <1>1
<1>4. Covered({})'
  <2>1. Cardinality({}) = 0 /\ 0 * SyncPageSize = 0
    BY FS_EmptySet, SyncAssumption DEF SyncAssumption
  <2> QED BY <1>1, <2>1 DEF Covered
<1>5. \E C \in SUBSET Selected' : Covered(C)'
  BY <1>4
<1> QED BY <1>1, <1>2, <1>3, <1>5 DEF HealsInv

\* Two beginnings of the same size of the same strictly ordered rows are the same.
LEMMA SameBeginning ==
  ASSUME NEW S, IsFiniteSet(S), NEW at \in [S -> Nat],
         \A i, j \in S : at[i] = at[j] => i = j,
         NEW A \in SUBSET S, NEW B \in SUBSET S, Cardinality(A) = Cardinality(B),
         \A i \in A, j \in S : at[j] < at[i] => j \in A,
         \A i \in B, j \in S : at[j] < at[i] => j \in B
  PROVE  A = B
<1>1. \A i, j \in S : at[i] \in Nat /\ at[j] \in Nat
  OBVIOUS
<1>2. A \subseteq B \/ B \subseteq A
  <2> SUFFICES ASSUME NEW a \in A, a \notin B, NEW b \in B, b \notin A PROVE FALSE
    OBVIOUS
  <2>1. ~(at[a] < at[b]) /\ ~(at[b] < at[a]) /\ at[a] # at[b]
    OBVIOUS
  <2> QED BY <1>1, <2>1
<1>3. IsFiniteSet(A) /\ IsFiniteSet(B)
  BY FS_Subset
<1> QED BY <1>2, <1>3, FS_Subset

\* Nothing but messages that are true, and whatever the order, settles more and more rows.
LEMMA StaysSettled ==
  ASSUME UNCHANGED <<source, replica>>, inflight \subseteq inflight', NEW i
  PROVE  Settled(i) => Settled(i)'
  BY DEF Settled, Matched

LEMMA PublishItemHeals ==
  ASSUME SyncTyped, HealsInv, PublishItem
  PROVE  HealsInv'
<1> SUFFICES ASSUME healing' PROVE HealsInv'
  BY DEF HealsInv
<1> DEFINE item == Head(sync.todo)
<1>1. PICK ms \in Published(item[1], item[2], sync.pass) :
        inflight' = inflight \cup ms /\ healing' = (healing /\ ms # {})
  BY DEF PublishItem
<1>2. item \in Ids \X Nat /\ sync.pass \in Passes /\ item = sync.todo[1]
      /\ Len(sync.todo) \in Nat \ {0}
  BY TakesItem
<1>3. healing /\ ms = {[id |-> item[1], ver |-> item[2], act |-> sync.pass]}
  <2>1. healing /\ ms # {}
    BY <1>1
  <2>2. item[1] \in Ids /\ item[2] \in Nat
    BY <1>2
  <2> HIDE DEF item
  <2> QED BY <1>1, <2>1, <2>2, PublishedTyped
<1>4. UNCHANGED <<source, replica>>
  BY DEF PublishItem, sourceVars
<1>5. /\ sync'.todo = Tail(sync.todo) /\ sync'.pass = sync.pass /\ sync'.last = sync.last
      /\ sync'.index = sync.index /\ sync'.since = sync.since /\ sync'.to = sync.to
  BY TakesItem
<1>6. /\ Selected' = Selected /\ LiveRows' = LiveRows
  BY <1>4, <1>5 DEF Selected, LiveRows, InSyncWindow
<1>7. item[1] \in Selected /\ item[2] = source[item[1]].ver
  BY <1>2, <1>3 DEF HealsInv
<1>8. \A m \in inflight' : m.act \in Actions => Truthful(m)'
  <2> SUFFICES ASSUME NEW m \in inflight', m.act \in Actions PROVE Truthful(m)'
    OBVIOUS
  <2>1. CASE m \in inflight
    <3>1. Truthful(m)
      BY <1>3, <2>1 DEF HealsInv
    <3> QED BY <1>4, <3>1 DEF Truthful
  <2>2. CASE m = [id |-> item[1], ver |-> item[2], act |-> sync.pass]
    <3>1. /\ item[1] \in Ids /\ source[item[1]].ver # 0
          /\ source[item[1]].del <=> sync.pass = "delete"
      BY <1>7, SelectedIs
    <3>2. m.id = item[1] /\ m.ver = item[2] /\ m.act = sync.pass
      BY <2>2
    <3> QED BY <1>4, <1>7, <3>1, <3>2 DEF Truthful
  <2> QED BY <1>1, <1>3, <2>1, <2>2
<1>9. \A k \in 1 .. Len(sync'.todo) : k + 1 \in 1 .. Len(sync.todo)
                                      /\ sync'.todo[k] = sync.todo[k + 1]
  <2> SUFFICES ASSUME NEW k \in 1 .. Len(Tail(sync.todo))
               PROVE  /\ k + 1 \in 1 .. Len(sync.todo)
                      /\ Tail(sync.todo)[k] = sync.todo[k + 1]
    BY <1>5, Zenon
  <2>1. /\ Len(sync.todo) \in Nat \ {0} /\ Len(Tail(sync.todo)) = Len(sync.todo) - 1
        /\ Tail(sync.todo)[k] = sync.todo[k + 1]
    BY TakesItem
  <2>2. k + 1 \in 1 .. Len(sync.todo)
    BY ONLY <2>1, k \in 1 .. Len(Tail(sync.todo))
  <2> QED BY <2>1, <2>2
<1>10. \A k \in 1 .. Len(sync'.todo) :
         /\ sync'.todo[k][1] \in Selected'
         /\ sync'.todo[k][2] = source'[sync'.todo[k][1]].ver
  BY <1>3, <1>4, <1>6, <1>9 DEF HealsInv
<1>11. \A i \in Ids : Settled(i) => Settled(i)'
  BY <1>1, <1>4, StaysSettled
<1>12. \A i \in Ids : Waiting(i) => Settled(i)' \/ Waiting(i)'
  <2> SUFFICES ASSUME NEW i \in Ids, NEW k \in 1 .. Len(sync.todo), sync.todo[k][1] = i
               PROVE  Settled(i)' \/ Waiting(i)'
    BY DEF Waiting
  <2>1. CASE k = 1
    <3>1. [id |-> item[1], ver |-> item[2], act |-> sync.pass] \in inflight'
      BY <1>1, <1>3
    <3> HIDE DEF item
    <3>2. sync.pass \in Actions /\ item[1] = i
      BY <1>2, <2>1 DEF Passes, Actions
    <3> QED BY <3>1, <3>2 DEF Settled
  <2>2. CASE k # 1
    <3>1. k - 1 \in 1 .. Len(sync'.todo) /\ sync'.todo[k - 1] = sync.todo[k]
      <4>1. /\ Len(sync.todo) \in Nat \ {0} /\ Len(Tail(sync.todo)) = Len(sync.todo) - 1
            /\ \A j \in 1 .. Len(Tail(sync.todo)) : Tail(sync.todo)[j] = sync.todo[j + 1]
        BY TakesItem
      <4>2. k - 1 \in 1 .. Len(Tail(sync.todo)) /\ (k - 1) + 1 = k
        BY ONLY <2>2, <4>1, k \in 1 .. Len(sync.todo)
      <4>3. Tail(sync.todo)[k - 1] = sync.todo[k]
        BY <4>1, <4>2
      <4>4. sync'.todo = Tail(sync.todo)
        BY <1>5
      <4> QED BY <4>2, <4>3, <4>4
    <3> QED BY <3>1 DEF Waiting
  <2> QED BY <2>1, <2>2
<1>13. \E C \in SUBSET Selected' : Covered(C)'
  <2>1. PICK C \in SUBSET Selected : Covered(C)
    BY <1>2, <1>3 DEF HealsInv
  <2>2. \A i \in C : Settled(i)' \/ Waiting(i)'
    BY <1>11, <1>12, <2>1, SelectedIs DEF Covered
  <2>3. Covered(C)'
    BY <1>4, <1>5, <1>6, <2>1, <2>2 DEF Covered
  <2> QED BY <1>6, <2>1, <2>3
<1>14. sync'.pass = "delete" => \A i \in LiveRows' : Settled(i)'
  BY <1>3, <1>5, <1>6, <1>11 DEF HealsInv, LiveRows
<1> QED BY <1>2, <1>5, <1>8, <1>10, <1>13, <1>14 DEF HealsInv, Passes

LEMMA EndPassHeals ==
  ASSUME SyncTyped, HealsInv, EndPass
  PROVE  HealsInv'
<1> SUFFICES ASSUME healing' PROVE HealsInv'
  BY DEF HealsInv
<1>1. /\ sync.pass \in Passes /\ sync.last /\ sync.todo = <<>>
      /\ sync'.pass = (IF sync.pass = "save" THEN "delete" ELSE "done")
      /\ sync'.todo = <<>> /\ ~sync'.last /\ sync'.index = 0
      /\ sync'.since = sync.since /\ sync'.to = sync.to
      /\ UNCHANGED <<source, replica, inflight, healing>>
  <2> DEFINE p == IF sync.pass = "save" THEN "delete" ELSE "done"
  <2>1. /\ sync.pass \in Passes /\ sync.last /\ sync.todo = <<>>
        /\ sync' = [pass |-> p, index |-> 0, last |-> FALSE, todo |-> <<>>,
                    since |-> sync.since, to |-> sync.to]
        /\ UNCHANGED <<source, replica, inflight, healing>>
    BY EndsPass
  <2> HIDE DEF p
  <2>2. /\ sync'.pass = p /\ sync'.index = 0 /\ ~sync'.last /\ sync'.todo = <<>>
        /\ sync'.since = sync.since /\ sync'.to = sync.to
    BY <2>1
  <2> QED BY <2>1, <2>2 DEF p
<1>2. healing
  BY <1>1
<1>3. /\ LiveRows' = LiveRows /\ GoneRows' = GoneRows
      /\ \A i \in Ids : Settled(i) => Settled(i)'
  BY <1>1 DEF LiveRows, GoneRows, InSyncWindow, Settled, Matched
<1>4. \A m \in inflight' : m.act \in Actions => Truthful(m)'
  BY <1>1, <1>2 DEF HealsInv, Truthful
<1>5. \A i \in Selected : Settled(i)
  <2>1. PICK C \in SUBSET Selected : Covered(C)
    BY <1>1, <1>2 DEF HealsInv
  <2>2. C = Selected /\ \A i \in C : Settled(i) \/ Waiting(i)
    BY <1>1, <2>1 DEF Covered
  <2>3. \A i : ~Waiting(i)
    BY <1>1 DEF Waiting
  <2> QED BY <2>2, <2>3
<1>6. CASE sync.pass = "save"
  <2>1. \A i \in LiveRows' : Settled(i)'
    BY <1>3, <1>5, <1>6, SelectedIs
  <2>2. Covered({})'
    <3>1. Cardinality({}) = 0 /\ 0 * SyncPageSize = 0
      BY FS_EmptySet, SyncAssumption DEF SyncAssumption
    <3> QED BY <1>1, <3>1 DEF Covered
  <2>3. \E C \in SUBSET Selected' : Covered(C)'
    BY <2>2
  <2>4. sync'.pass = "delete" /\ \A k \in 1 .. Len(sync'.todo) : FALSE
    BY <1>1, <1>6
  <2> QED BY <1>4, <2>1, <2>3, <2>4 DEF HealsInv
<1>7. CASE sync.pass = "delete"
  <2>1. \A i \in LiveRows : Settled(i)
    BY <1>2, <1>7 DEF HealsInv
  <2>2. \A i \in GoneRows : Settled(i)
    BY <1>5, <1>7, SelectedIs
  <2>3. \A i \in LiveRows' \cup GoneRows' : Settled(i)'
    BY <1>3, <2>1, <2>2 DEF LiveRows, GoneRows
  <2>4. sync'.pass = "done" /\ \A k \in 1 .. Len(sync'.todo) : FALSE
    BY <1>1, <1>7
  <2> QED BY <1>4, <2>3, <2>4 DEF HealsInv, Passes
<1> QED BY <1>1, <1>6, <1>7 DEF Passes

\* Every row a message is for gets what the message says, which is what the row is.
LEMMA ReceivesHeal ==
  ASSUME SyncTyped, HealsInv, NEW m \in inflight,
         ReceiveRow(m) \/ ReceiveOdd(m) \/ DeadLetter(m)
  PROVE  HealsInv'
<1> SUFFICES ASSUME healing' PROVE HealsInv'
  BY DEF HealsInv
<1>1. healing /\ UNCHANGED <<source, sync>> /\ inflight' \subseteq inflight
  BY DEF ReceiveRow, ReceiveOdd, DeadLetter, sourceVars
<1>2. /\ LiveRows' = LiveRows /\ GoneRows' = GoneRows /\ Selected' = Selected
      /\ \A i : Waiting(i) => Waiting(i)'
  BY <1>1 DEF LiveRows, GoneRows, InSyncWindow, Selected, Waiting
<1>3. \A n \in inflight' : n.act \in Actions => Truthful(n)'
  BY <1>1 DEF HealsInv, Truthful
<1>4. ASSUME NEW i \in Ids, Settled(i) PROVE Settled(i)'
  <2>1. CASE ReceiveRow(m)
    <3>1. /\ m.act \in Actions /\ replica' = Applied(m) /\ inflight \ {m} \subseteq inflight'
          /\ Truthful(m) /\ replica \in [Ids -> ReplicaRows]
      BY <1>1, <2>1 DEF ReceiveRow, HealsInv, SyncTyped
    <3>2. CASE i # m.id
      <4>1. replica'[i] = replica[i]
        BY <3>1, <3>2 DEF Applied, Actions
      <4>2. \A n \in inflight : n.id = i => n \in inflight'
        BY <3>1, <3>2
      <4> QED BY <1>1, <1>4, <4>1, <4>2 DEF Settled, Matched
    <3>3. CASE i = m.id
      <4>1. CASE m.act = "save"
        <5>1. replica'[i] = [ver |-> m.ver, del |-> FALSE]
          BY <3>1, <3>3, <4>1 DEF Applied
        <5>2. ~source[i].del /\ m.ver = source[i].ver
          BY <3>1, <3>3, <4>1 DEF Truthful
        <5> QED BY <1>1, <5>1, <5>2 DEF Settled, Matched
      <4>2. CASE m.act = "delete"
        <5> DEFINE r == [replica[i] EXCEPT !.del = @ \/ replica[i].ver # 0]
        <5>1. replica[i] \in ReplicaRows
          BY <3>1
        <5>2. r.ver = 0 \/ r.del
          BY <5>1 DEF ReplicaRows
        <5>3. replica' = [replica EXCEPT ![i] = r]
          BY <3>1, <3>3, <4>2 DEF Applied
        <5> HIDE DEF r
        <5>4. replica'[i] = r
          BY <3>1, <5>3
        <5>5. source[i].del
          BY <3>1, <3>3, <4>2 DEF Truthful
        <5> QED BY <1>1, <5>2, <5>4, <5>5 DEF Settled, Matched
      <4> QED BY <3>1, <4>1, <4>2 DEF Actions
    <3> QED BY <3>2, <3>3
  <2>2. CASE ReceiveOdd(m) \/ DeadLetter(m)
    <3>1. replica' = replica /\ m.act \notin Actions
      BY <1>1, <2>2 DEF ReceiveOdd, DeadLetter, Actions, Oddities
    <3>2. inflight \ {m} \subseteq inflight'
      BY <2>2 DEF ReceiveOdd, DeadLetter
    <3> QED BY <1>1, <1>4, <3>1, <3>2 DEF Settled, Matched
  <2> QED BY <2>1, <2>2
<1>5. sync.pass \in Passes => \E C \in SUBSET Selected' : Covered(C)'
  <2> SUFFICES ASSUME sync.pass \in Passes PROVE \E C \in SUBSET Selected' : Covered(C)'
    OBVIOUS
  <2>1. PICK C \in SUBSET Selected : Covered(C)
    BY <1>1 DEF HealsInv
  <2>2. \A i \in C : Settled(i)' \/ Waiting(i)'
    BY <1>2, <1>4, <2>1, SelectedIs DEF Covered
  <2>3. Covered(C)'
    BY <1>1, <1>2, <2>1, <2>2 DEF Covered
  <2> QED BY <1>2, <2>1, <2>3
<1>6. LiveRows \subseteq Ids /\ GoneRows \subseteq Ids
  BY DEF LiveRows, GoneRows
<1> QED BY <1>1, <1>2, <1>3, <1>4, <1>5, <1>6 DEF HealsInv

\* A page continues where the ones before it ended.
LEMMA NextPageHeals ==
  ASSUME SyncTyped, HealsInv, NextPage
  PROVE  HealsInv'
<1> SUFFICES ASSUME healing' PROVE HealsInv'
  BY DEF HealsInv
<1>1. /\ healing /\ ~Tied /\ sync.pass \in Passes /\ sync.todo = <<>> /\ ~sync.last
      /\ UNCHANGED <<source, replica, inflight>>
  BY DEF NextPage, sourceVars, streamVars, Passes
<1>2. PICK s \in Orders :
        LET took == Page(s, sync.index)
            todo == [k \in 1 .. Len(took) |-> <<took[k], source[took[k]].ver>>]
        IN  /\ s \in Seq(Selected) /\ took \in Seq(Selected)
            /\ todo \in Seq(Ids \X Nat) /\ Len(todo) = Len(took)
            /\ sync' = [pass |-> sync.pass, index |-> sync.index + 1,
                        last |-> Len(took) < SyncPageSize, todo |-> todo,
                        since |-> sync.since, to |-> sync.to]
  BY TakesPage
<1> DEFINE took == Page(s, sync.index)
           N == Len(s)
           m == sync.index * SyncPageSize
           e == IF N < m + SyncPageSize THEN N ELSE m + SyncPageSize
           First(x) == {s[k] : k \in 1 .. x}
<1>3. /\ sync'.pass = sync.pass /\ sync'.index = sync.index + 1
      /\ sync'.last = (Len(took) < SyncPageSize)
      /\ sync'.todo = [k \in 1 .. Len(took) |-> <<took[k], source[took[k]].ver>>]
      /\ Len(sync'.todo) = Len(took) /\ took \in Seq(Selected)
      /\ sync'.since = sync.since /\ sync'.to = sync.to
  BY <1>2
<1>4. /\ Selected' = Selected /\ LiveRows' = LiveRows
      /\ \A i : Settled(i) => Settled(i)'
  BY <1>1, <1>3 DEF Selected, LiveRows, InSyncWindow, Settled, Matched
<1>5. IsFiniteSet(Selected) /\ Selected \subseteq Ids
  BY SelectedIs
<1>6. s \in SetToSeqs(Selected)
  BY DEF Orders
<1>7. /\ N = Cardinality(Selected) /\ N \in Nat /\ s \in [1 .. N -> Selected]
      /\ \A i, j \in 1 .. N : s[i] = s[j] => i = j
      /\ \A x \in Selected : \E i \in 1 .. N : s[i] = x
      /\ s \in Seq(Selected)
  BY <1>5, <1>6, AllOnce
<1>8. SyncPageSize \in Nat \ {0} /\ sync.index \in Nat /\ m \in Nat
  BY SyncFields, SyncAssumption DEF SyncAssumption
<1>9. \A i, j \in 1 .. N : i <= j => source[s[i]].at <= source[s[j]].at
  <2> DEFINE w == [k \in 1 .. N |-> source[s[k]].at]
  <2>1. w \in [1 .. N -> Nat]
    BY <1>5, <1>7 DEF SyncTyped, SourceRows
  <2>2. \A k \in 1 .. N - 1 : source[s[k]].at <= source[s[k + 1]].at
    BY DEF Orders
  <2>3. \A k \in 1 .. N - 1 : k \in 1 .. N /\ k + 1 \in 1 .. N
    BY <1>7
  <2>4. \A k \in 1 .. N - 1 : w[k] <= w[k + 1]
    BY <2>2, <2>3
  <2> HIDE DEF w
  <2>5. \A i, j \in 1 .. N : i <= j => w[i] <= w[j]
    BY <1>7, <2>1, <2>4, Ascending
  <2> QED BY <2>5 DEF w
<1>10. /\ \A i \in Selected : source[i].at \in Nat
       /\ \A i, j \in Selected : source[i].at = source[j].at => i = j
  BY <1>1, <1>5 DEF Tied, SyncTyped, SourceRows
<1>11. ASSUME NEW x \in 0 .. N
       PROVE  /\ First(x) \in SUBSET Selected /\ Cardinality(First(x)) = x
              /\ \A i \in First(x), j \in Selected : source[j].at < source[i].at => j \in First(x)
  <2>1. First(x) \in SUBSET Selected
    BY <1>7
  <2>2. Cardinality(First(x)) = x
    <3>1. x \in 0 .. N
      OBVIOUS
    <3> HIDE DEF N
    <3>2. /\ N \in Nat /\ s \in [1 .. N -> Selected]
          /\ \A i, j \in 1 .. N : s[i] = s[j] => i = j
      BY <1>7
    <3>3. PICK P : P = First(x)
      OBVIOUS
    <3>4. /\ \A k \in 1 .. x : s[k] \in P
          /\ \A y \in P : \E k \in 1 .. x : y = s[k]
      BY <3>3
    <3> DEFINE f == [k \in 1 .. x |-> s[k]]
    <3>5. /\ f \in [1 .. x -> P] /\ \A i, j \in 1 .. x : f[i] = f[j] => i = j
          /\ \A y \in P : \E k \in 1 .. x : f[k] = y
      BY ONLY <3>1, <3>2, <3>4
    <3> HIDE DEF f
    <3>6. f \in Bijection(1 .. x, P)
      BY <3>5 DEF Bijection, Injection, IsInjective, Surjection
    <3>7. ExistsBijection(1 .. x, P)
      BY <3>6 DEF ExistsBijection
    <3>8. Cardinality(P) = x
      BY <3>1, <3>7, FS_CountingElements
    <3> QED BY <3>3, <3>8
  <2>3. ASSUME NEW k \in 1 .. x, NEW j \in Selected, source[j].at < source[s[k]].at
        PROVE  j \in First(x)
    <3>1. PICK l \in 1 .. N : s[l] = j
      BY <1>7
    <3>2. k \in 1 .. N /\ s[k] \in Selected
      BY <1>7
    <3>3. ~(k <= l)
      <4> SUFFICES ASSUME k <= l PROVE FALSE
        OBVIOUS
      <4>1. source[s[k]].at <= source[j].at
        BY <1>9, <3>1, <3>2
      <4> QED BY <1>10, <2>3, <3>2, <4>1
    <3>4. l \in 1 .. x
      BY <3>3
    <3> QED BY <3>1, <3>4
  <2> QED BY <2>1, <2>2, <2>3
<1>12. PICK C \in SUBSET Selected : Covered(C)
  BY <1>1 DEF HealsInv
<1>13. /\ Cardinality(C) = m
       /\ \A i \in C, j \in Selected : source[j].at < source[i].at => j \in C
  BY <1>1, <1>12 DEF Covered
<1>14. m \in 0 .. N
  BY <1>5, <1>7, <1>8, <1>13, FS_Subset
<1> HIDE DEF First, m
<1>15. C = First(m)
  <2> DEFINE at == [i \in Selected |-> source[i].at]
             A == C
             B == First(m)
  <2>1. at \in [Selected -> Nat] /\ \A i, j \in Selected : at[i] = at[j] => i = j
    BY <1>10
  <2>2. /\ B \in SUBSET Selected /\ Cardinality(A) = Cardinality(B)
        /\ \A i \in B, j \in Selected : source[j].at < source[i].at => j \in B
    BY <1>11, <1>13, <1>14
  <2>3. /\ \A i \in A, j \in Selected : at[j] < at[i] => j \in A
        /\ \A i \in B, j \in Selected : at[j] < at[i] => j \in B
    BY <1>11, <1>13, <1>14
  <2> HIDE DEF at, B
  <2>4. A = B
    BY <1>5, <2>1, <2>2, <2>3, SameBeginning
  <2> QED BY <2>4 DEF B
<1>16. /\ e \in 0 .. N /\ m <= e
       /\ Len(took) = e - m
       /\ \A k \in 1 .. e - m : took[k] = s[m + k]
  <2>1. /\ Len(took) = (IF m + 1 <= e THEN e - m ELSE 0)
        /\ \A k \in 1 .. e - m : took[k] = s[m + k]
    <3>1. LET mm == sync.index * SyncPageSize
              nn == mm + SyncPageSize
              ee == IF Len(s) < nn THEN Len(s) ELSE nn
          IN  /\ mm \in Nat /\ nn \in Nat /\ ee \in Nat
              /\ Page(s, sync.index) \in Seq(Selected)
              /\ Len(Page(s, sync.index)) = (IF mm + 1 <= ee THEN ee - mm ELSE 0)
              /\ \A i \in 1 .. ee - mm : Page(s, sync.index)[i] = s[mm + i]
      <4>1. s \in Seq(Selected) /\ sync.index \in Nat
        BY <1>7, <1>8
      <4> QED BY ONLY <4>1, PageIs, ZenonT(30)
    <3> QED BY <3>1 DEF m
  <2>2. e \in 0 .. N /\ m <= e /\ m \in Int
    BY <1>7, <1>8, <1>14
  <2> QED BY <2>1, <2>2
<1> HIDE DEF took
<1>17. \A k \in 1 .. Len(sync'.todo) :
         /\ sync'.todo[k][1] \in Selected'
         /\ sync'.todo[k][2] = source'[sync'.todo[k][1]].ver
  BY <1>1, <1>3, <1>4
<1>18. \A i \in First(e) : Settled(i)' \/ Waiting(i)'
  <2> SUFFICES ASSUME NEW k \in 1 .. e PROVE Settled(s[k])' \/ Waiting(s[k])'
    BY DEF First
  <2>1. CASE k <= m
    <3>1. s[k] \in C
      BY <1>8, <1>14, <1>15, <2>1 DEF First
    <3>2. Settled(s[k])
      BY <1>1, <1>12, <3>1 DEF Covered, Waiting
    <3> QED BY <1>4, <3>2
  <2>2. CASE k > m
    <3>1. k - m \in 1 .. e - m /\ m + (k - m) = k
      BY <1>8, <1>14, <1>16, <2>2
    <3>2. k - m \in 1 .. Len(sync'.todo) /\ sync'.todo[k - m][1] = s[k]
      BY <1>3, <1>16, <3>1
    <3> QED BY <3>2 DEF Waiting
  <2> QED BY <1>8, <1>14, <2>1, <2>2
<1>19a. PICK D : D = First(e)
  OBVIOUS
<1>19. Covered(D)'
  <2>1. CASE Len(took) < SyncPageSize
    <3>1. e = N
      BY <1>7, <1>8, <1>14, <1>16, <2>1
    <3>2. First(e) = Selected
      BY <1>7, <3>1 DEF First
    <3>3. sync'.last
      BY <1>3, <2>1
    <3> QED BY <1>4, <1>18, <1>19a, <3>2, <3>3 DEF Covered
  <2>2. CASE ~(Len(took) < SyncPageSize)
    <3>1. e = m + SyncPageSize
      BY <1>7, <1>8, <1>14, <1>16, <2>2
    <3>2. e = sync'.index * SyncPageSize
      BY <1>3, <1>8, <3>1 DEF m
    <3>3. Cardinality(D) = sync'.index * SyncPageSize
      BY <1>11, <1>16, <1>19a, <3>2
    <3>4. \A i \in D, j \in Selected' : source'[j].at < source'[i].at => j \in D
      BY <1>1, <1>4, <1>11, <1>16, <1>19a
    <3>5. (\A i \in D : Settled(i)' \/ Waiting(i)') /\ ~sync'.last
      BY <1>3, <1>18, <1>19a, <2>2
    <3> QED BY <3>3, <3>4, <3>5 DEF Covered
  <2> QED BY <2>1, <2>2
<1>20. \E F \in SUBSET Selected' : Covered(F)'
  <2>1. D \in SUBSET Selected'
    BY <1>4, <1>11, <1>16, <1>19a
  <2> QED BY <1>19, <2>1
<1>21. \A i \in inflight' : i.act \in Actions => Truthful(i)'
  BY <1>1 DEF HealsInv, Truthful
<1>22. sync'.pass = "delete" => \A i \in LiveRows' : Settled(i)'
  BY <1>1, <1>3, <1>4 DEF HealsInv
<1> QED BY <1>1, <1>3, <1>17, <1>20, <1>21, <1>22 DEF HealsInv, Passes

LEMMA HealsKept == SyncTyped /\ HealsInv /\ [EntitySyncNext]_syncVars => HealsInv'
<1> SUFFICES ASSUME SyncTyped, HealsInv, [EntitySyncNext]_syncVars PROVE HealsInv'
  OBVIOUS
<1>1. CASE UNCHANGED syncVars
  <2>1. UNCHANGED <<source, replica, sync, healing, inflight>>
    BY <1>1 DEF syncVars
  <2>2. \A i : (Settled(i) => Settled(i)') /\ (Waiting(i) => Waiting(i)')
    BY <2>1, StaysSettled DEF Waiting
  <2>3. Selected' = Selected /\ LiveRows' = LiveRows /\ GoneRows' = GoneRows
    BY <2>1 DEF Selected, LiveRows, GoneRows, InSyncWindow
  <2>4. \A C \in SUBSET Selected : Covered(C) => Covered(C)'
    BY <2>1, <2>2, <2>3 DEF Covered
  <2>5. \A m \in inflight' : m.act \in Actions => (Truthful(m) => Truthful(m)')
    BY <2>1 DEF Truthful
  <2> QED BY <2>1, <2>2, <2>3, <2>4, <2>5 DEF HealsInv
<1>2. CASE ~healing'
  BY <1>2 DEF HealsInv
<1>3. CASE NextPage
  BY <1>3, NextPageHeals
<1>4. CASE PublishItem
  BY <1>4, PublishItemHeals
<1>5. CASE EndPass
  BY <1>5, EndPassHeals
<1>6. ASSUME NEW w \in Windows, StartSync(w) PROVE HealsInv'
  BY <1>6, StartSyncHeals
<1>7. CASE ForeignPub
  <2>1. UNCHANGED <<source, replica, sync, healing>> /\ inflight \subseteq inflight'
    BY <1>7 DEF ForeignPub, sourceVars
  <2>2. \A m \in inflight' : m.act \in Actions => m \in inflight
    BY <1>7 DEF ForeignPub, Actions, Oddities
  <2>3. \A i : (Settled(i) => Settled(i)') /\ (Waiting(i) => Waiting(i)')
    BY <2>1, StaysSettled DEF Waiting
  <2>4. Selected' = Selected /\ LiveRows' = LiveRows /\ GoneRows' = GoneRows
    BY <2>1 DEF Selected, LiveRows, GoneRows, InSyncWindow
  <2>5. \A C \in SUBSET Selected : Covered(C) => Covered(C)'
    BY <2>1, <2>3, <2>4 DEF Covered
  <2>6. \A m \in inflight' : m.act \in Actions => (Truthful(m) => Truthful(m)')
    BY <2>1 DEF Truthful
  <2> QED BY <2>1, <2>2, <2>3, <2>4, <2>5, <2>6 DEF HealsInv
<1>8. ASSUME NEW m \in inflight, ReceiveRow(m) \/ ReceiveOdd(m) \/ DeadLetter(m)
      PROVE  HealsInv'
  BY <1>8, ReceivesHeal
<1>9. \/ ~healing' \/ UNCHANGED syncVars \/ NextPage \/ PublishItem \/ EndPass \/ ForeignPub
      \/ \E w \in Windows : StartSync(w)
      \/ \E m \in inflight : ReceiveRow(m) \/ ReceiveOdd(m) \/ DeadLetter(m)
  BY DEF EntitySyncNext, Write, WriteUnseen, EndTransaction, SyncFails
<1> QED BY <1>1, <1>2, <1>3, <1>4, <1>5, <1>6, <1>7, <1>8, <1>9

\* A bulk pass that nothing comes in the way of repairs the replica, whatever the tables,
\* the window and the page size: the pages it takes are the selected rows from the first to
\* the last, each once, and a message of a row that has not changed does no harm however
\* late it is handled (PubEntitiesSince, ReceiveGormObjectSaved).
THEOREM SyncRepairs == EntitySyncSpec => []SyncHeals
<1>1. EntitySyncInit => SyncTyped /\ HealsInv
  <2>1. EntitySyncInit => ~healing
    BY DEF EntitySyncInit
  <2> QED BY <2>1, SyncTypedInit DEF HealsInv
<1>2. SyncTyped /\ HealsInv /\ [EntitySyncNext]_syncVars => (SyncTyped /\ HealsInv)'
  BY SyncTypedKept, HealsKept
<1>3. SyncTyped /\ HealsInv => SyncHeals
  <2> SUFFICES ASSUME SyncTyped, HealsInv, healing, sync.pass = "done", inflight = {},
                      NEW i \in Ids, source[i].ver # 0, InSyncWindow(i)
               PROVE  Matched(i)
    BY DEF SyncHeals, Matched
  <2>1. i \in LiveRows \cup GoneRows
    BY DEF LiveRows, GoneRows
  <2>2. Settled(i)
    BY <2>1 DEF HealsInv
  <2> QED BY <2>2 DEF Settled
<1> QED BY <1>1, <1>2, <1>3, PTL DEF EntitySyncSpec

-----------------------------------------------------------------------------
(* Caches and fingerprints: types                                          *)

\* The variables of the two-level cache keep their types.
THEOREM CacheTypeCorrect == CacheSpec => []CacheMigrationTypeOK
<1>1. CacheInv /\ [CacheNext]_cacheVars => CacheInv'
  BY CacheSteps
<1>2. CacheInv => CacheMigrationTypeOK
  BY DEF CacheInv, CacheTyped
<1> QED BY <1>1, <1>2, CacheInits, PTL DEF CacheSpec

\* The variables of the fingerprints keep their types.
THEOREM FingerprintsTypeCorrect == FingerprintsSpec => []FingerprintsTypeOK
<1>1. FpInv /\ [FingerprintsNext]_fpVars => FpInv'
  BY FpSteps
<1>2. FpInv => FingerprintsTypeOK
  <2> SUFFICES ASSUME FpInv PROVE FingerprintsTypeOK
    OBVIOUS
  <2>1. FpTyped
    BY DEF FpInv
  <2>2. \A i \in DOMAIN log : log[i] \in Answers \X Objects
    BY <2>1 DEF FpTyped
  <2>3. Answers \X Objects = (Returns \ {"none", "error"}) \X Objects
    BY DEF Answers, Returns
  <2>4. \A i \in DOMAIN log : log[i] \in (Returns \ {"none", "error"}) \X Objects
    BY <2>2, <2>3
  <2>5. call \in [Requests -> [pc : {"idle", "read", "save", "create", "commit", "done"},
                               object : Objects, ret : Returns]]
    BY <2>1 DEF FpTyped, Callers, Pcs
  <2> QED BY <2>1, <2>4, <2>5 DEF FpTyped, FingerprintsTypeOK
<1> QED BY <1>1, <1>2, FpInits, PTL DEF FingerprintsSpec

\* The variables of the hashes keep their types.
THEOREM HashTypeCorrect == HashSpec => []HashTypeOK
<1>1. HashInv /\ [HashNext]_hashVars => HashInv'
  BY HashSteps
<1>2. HashInv => HashTypeOK
  BY DEF HashInv
<1> QED BY <1>1, <1>2, HashInits, PTL DEF HashSpec

\* The variables of the lists keep their types.
THEOREM ListCacheTypeCorrect == ListCacheSpec => []ListCacheTypeOK
<1>1. ListInv /\ [ListCacheNext]_listVars => ListInv'
  BY ListSteps
<1>2. ListInv => ListCacheTypeOK
  <2> SUFFICES ASSUME ListTyped PROVE ListCacheTypeOK
    BY DEF ListInv
  <2>1. \A c \in Appends : append[c] \in ListCalls
    BY DEF ListTyped
  <2> QED BY <2>1 DEF ListTyped, ListCacheTypeOK, ListCalls, ListPcs
<1> QED BY <1>1, <1>2, ListInits, PTL DEF ListCacheSpec

-----------------------------------------------------------------------------
(* EntitySync: no version, time or number of messages leaves its bounds.   *)

SyncBounded == SyncTyped /\ EntitySyncTypeOK /\ \A k \in DOMAIN txn : txn[k] \in Row

LEMMA SyncBoundedInit == EntitySyncInit => SyncBounded
<1> SUFFICES ASSUME EntitySyncInit PROVE SyncBounded
  OBVIOUS
<1>1. MaxTime \in Nat \ {0} /\ MaxSent \in Nat /\ 0 \in 0 .. MaxTime /\ 1 \in 0 .. MaxTime
  BY SyncAssumption DEF SyncAssumption
<1>2. source \in [Ids -> Row]
  <2>1. NoRow \in Row
    BY <1>1 DEF NoRow, Row
  <2>2. [ver : {1}, del : BOOLEAN, at : {0, 1}] \subseteq Row
    BY <1>1 DEF Row
  <2>3. source \in [Ids -> {NoRow} \cup [ver : {1}, del : BOOLEAN, at : {0, 1}]]
    BY DEF EntitySyncInit
  <2> QED BY <2>1, <2>2, <2>3
<1>3. replica \in [Ids -> [ver : 0 .. MaxTime, del : BOOLEAN]]
  <2>1. PICK v \in {0, 1} : replica = [i \in Ids |-> [ver |-> v, del |-> FALSE]]
    BY DEF EntitySyncInit
  <2>2. [ver |-> v, del |-> FALSE] \in [ver : 0 .. MaxTime, del : BOOLEAN]
    BY <1>1
  <2> QED BY <2>1, <2>2
<1>4. /\ sync.pass = "idle" /\ sync.last = FALSE /\ sync.todo = <<>>
      /\ <<>> \in Seq(Ids \X (0 .. MaxTime))
  BY DEF EntitySyncInit, Idle
<1>5. /\ enabled \in BOOLEAN /\ healing = FALSE /\ now = 1 /\ sends = 0 /\ inflight = {}
      /\ DOMAIN txn = {}
  BY DEF EntitySyncInit
<1>6. /\ now \in 0 .. MaxTime /\ sends \in 0 .. MaxSent /\ inflight \subseteq Message
      /\ sync.todo \in Seq(Ids \X (0 .. MaxTime)) /\ sync.last \in BOOLEAN
  <2>1. now \in 0 .. MaxTime /\ inflight \subseteq Message
    BY <1>1, <1>5
  <2>2. sends \in 0 .. MaxSent
    BY <1>1, <1>5
  <2>3. sync.todo \in Seq(Ids \X (0 .. MaxTime)) /\ sync.last \in BOOLEAN
    BY <1>4
  <2> QED BY <2>1, <2>2, <2>3
<1>7. EntitySyncTypeOK
  BY <1>2, <1>3, <1>4, <1>5, <1>6 DEF EntitySyncTypeOK
<1>8. SyncTyped /\ \A k \in DOMAIN txn : txn[k] \in Row
  BY <1>5, SyncTypedInit
<1> QED BY <1>7, <1>8 DEF SyncBounded

\* A message of a row in bounds is one, and it is one more.
LEMMA PublishedBounded ==
  ASSUME SyncBounded, sends < MaxSent, NEW i \in Ids, NEW ver \in 0 .. MaxTime,
         NEW act \in Actions, NEW ms \in Published(i, ver, act)
  PROVE  inflight \cup ms \subseteq Message /\ sends + Cardinality(ms) \in 0 .. MaxSent
<1> DEFINE m == [id |-> i, ver |-> ver, act |-> act]
<1>1. ms = {m} \/ ms = {}
  BY DEF Published
<1>2. m \in Message
  BY DEF Message
<1>3. Cardinality(ms) \in {0, 1}
  <2> HIDE DEF m
  <2> QED BY <1>1, FS_EmptySet, FS_Singleton
<1>4. sends \in 0 .. MaxSent /\ MaxSent \in Nat /\ inflight \subseteq Message
  BY SyncAssumption DEF SyncAssumption, SyncBounded, EntitySyncTypeOK
<1> HIDE DEF m
<1> QED BY <1>1, <1>2, <1>3, <1>4

LEMMA SyncBounds ==
  ASSUME SyncBounded
  PROVE  /\ MaxTime \in Nat \ {0} /\ MaxSent \in Nat /\ now \in 0 .. MaxTime
         /\ enabled \in BOOLEAN /\ healing \in BOOLEAN
         /\ source \in [Ids -> Row] /\ replica \in [Ids -> [ver : 0 .. MaxTime, del : BOOLEAN]]
         /\ sends \in 0 .. MaxSent /\ inflight \subseteq Message
         /\ sync.pass \in {"idle", "save", "delete", "done"} /\ sync.last \in BOOLEAN
         /\ sync.todo \in Seq(Ids \X (0 .. MaxTime))
         /\ \A k \in DOMAIN txn : txn[k] \in Row
BY SyncAssumption DEF SyncAssumption, SyncBounded, EntitySyncTypeOK

LEMMA WriteBounded ==
  ASSUME SyncBounded, NEW i \in Ids, NEW act \in Actions, Write(i, act)
  PROVE  EntitySyncTypeOK' /\ \A k \in DOMAIN txn' : txn'[k] \in Row
<1> DEFINE new == [ver |-> IF act = "save" THEN now + 1 ELSE source[i].ver,
                   del |-> act = "delete", at |-> now + 1]
<1>1. /\ now < MaxTime /\ sends < MaxSent /\ now' = now + 1 /\ healing' = FALSE
      /\ UNCHANGED <<enabled, source, replica, sync>>
  BY DEF Write
<1>2. new \in Row /\ new.ver \in 0 .. MaxTime /\ now' \in 0 .. MaxTime
  BY <1>1, SyncBounds DEF Row
<1>3. txn' = [k \in {i} |-> new]
  BY DEF Write
<1>4. \E ms \in Published(i, new.ver, act) :
        inflight' = inflight \cup ms /\ sends' = sends + Cardinality(ms)
  BY DEF Write
<1> HIDE DEF new
<1>5. inflight' \subseteq Message /\ sends' \in 0 .. MaxSent
  BY <1>1, <1>2, <1>4, PublishedBounded
<1>6. \A k \in DOMAIN txn' : txn'[k] \in Row
  BY <1>2, <1>3
<1> QED BY <1>1, <1>2, <1>5, <1>6, SyncBounds DEF EntitySyncTypeOK

LEMMA WriteUnseenBounded ==
  ASSUME SyncBounded, NEW i \in Ids, WriteUnseen(i)
  PROVE  EntitySyncTypeOK' /\ \A k \in DOMAIN txn' : txn'[k] \in Row
<1>1. /\ now < MaxTime /\ now' = now + 1 /\ healing' = FALSE
      /\ UNCHANGED <<enabled, source, replica, sends, inflight, sync>>
      /\ txn' = [k \in {i} |-> [ver |-> now + 1, del |-> FALSE, at |-> now + 1]]
  BY DEF WriteUnseen, streamVars
<1>2. [ver |-> now + 1, del |-> FALSE, at |-> now + 1] \in Row /\ now' \in 0 .. MaxTime
  BY <1>1, SyncBounds DEF Row
<1>3. \A k \in DOMAIN txn' : txn'[k] \in Row
  BY <1>1, <1>2
<1> QED BY <1>1, <1>2, <1>3, SyncBounds DEF EntitySyncTypeOK

LEMMA EndTransactionBounded ==
  ASSUME SyncBounded, EndTransaction
  PROVE  EntitySyncTypeOK' /\ \A k \in DOMAIN txn' : txn'[k] \in Row
<1>1. source' \in [Ids -> Row]
  BY SyncBounds DEF EndTransaction
<1>2. /\ UNCHANGED <<enabled, now, replica, sends, inflight, sync>>
      /\ healing' = FALSE /\ DOMAIN txn' = {}
  BY DEF EndTransaction, streamVars, Closed
<1> QED BY <1>1, <1>2, SyncBounds DEF EntitySyncTypeOK

\* A step of the sync that takes or leaves nothing in flight.
LEMMA SyncOnly ==
  ASSUME SyncBounded, UNCHANGED <<enabled, now, source, txn, replica, sends, inflight>>,
         healing' \in BOOLEAN, sync'.pass \in {"idle", "save", "delete", "done"},
         sync'.last \in BOOLEAN, sync'.todo \in Seq(Ids \X (0 .. MaxTime))
  PROVE  EntitySyncTypeOK' /\ \A k \in DOMAIN txn' : txn'[k] \in Row
BY SyncBounds DEF EntitySyncTypeOK

LEMMA NextPageBounded ==
  ASSUME SyncBounded, NextPage
  PROVE  EntitySyncTypeOK' /\ \A k \in DOMAIN txn' : txn'[k] \in Row
<1>1. SyncTyped /\ healing' \in BOOLEAN
      /\ UNCHANGED <<enabled, now, source, txn, replica, sends, inflight>>
  BY DEF NextPage, sourceVars, streamVars, SyncBounded, EntitySyncTypeOK
<1>2. PICK s \in Orders :
        LET took == Page(s, sync.index)
            todo == [k \in 1 .. Len(took) |-> <<took[k], source[took[k]].ver>>]
        IN  /\ took \in Seq(Selected)
            /\ sync' = [pass |-> sync.pass, index |-> sync.index + 1,
                        last |-> Len(took) < SyncPageSize, todo |-> todo,
                        since |-> sync.since, to |-> sync.to]
  BY <1>1, TakesPage
<1> DEFINE took == Page(s, sync.index)
           todo == [k \in 1 .. Len(took) |-> <<took[k], source[took[k]].ver>>]
           full == Len(took) < SyncPageSize
<1>3. took \in Seq(Selected)
  BY <1>2
<1>4. sync'.pass = sync.pass /\ sync'.last = full /\ sync'.todo = todo
  <2>1. sync' = [pass |-> sync.pass, index |-> sync.index + 1, last |-> full, todo |-> todo,
                 since |-> sync.since, to |-> sync.to]
    BY <1>2
  <2> HIDE DEF todo, full
  <2> QED BY <2>1
<1>5. full \in BOOLEAN
  OBVIOUS
<1>6. todo \in Seq(Ids \X (0 .. MaxTime))
  <2> HIDE DEF took
  <2>1. \A k \in 1 .. Len(took) : <<took[k], source[took[k]].ver>> \in Ids \X (0 .. MaxTime)
    <3>1. \A k \in 1 .. Len(took) : took[k] \in Ids
      BY <1>3 DEF Selected
    <3>2. \A i \in Ids : source[i].ver \in 0 .. MaxTime
      BY SyncBounds DEF Row
    <3> QED BY <3>1, <3>2
  <2>2. Len(took) \in Nat
    BY <1>3
  <2> QED BY <2>1, <2>2
<1> HIDE DEF todo, full
<1> QED BY <1>1, <1>4, <1>5, <1>6, SyncBounds, SyncOnly

LEMMA PublishItemBounded ==
  ASSUME SyncBounded, PublishItem
  PROVE  EntitySyncTypeOK' /\ \A k \in DOMAIN txn' : txn'[k] \in Row
<1>1. SyncTyped /\ sends < MaxSent /\ UNCHANGED <<enabled, now, source, txn, replica>>
      /\ healing' \in BOOLEAN
  BY DEF PublishItem, sourceVars, SyncBounded, EntitySyncTypeOK
<1>2. /\ Head(sync.todo) = sync.todo[1] /\ sync.pass \in Passes
      /\ Len(sync.todo) \in Nat \ {0}
      /\ Tail(sync.todo) \in Seq(Ids \X Nat)
      /\ sync' = [pass |-> sync.pass, index |-> sync.index, last |-> sync.last,
                  todo |-> Tail(sync.todo), since |-> sync.since, to |-> sync.to]
  BY <1>1, TakesItem
<1>3. PICK item \in Ids \X (0 .. MaxTime) : item = Head(sync.todo)
  BY <1>2, SyncBounds
<1>4. PICK i \in Ids, ver \in 0 .. MaxTime : i = item[1] /\ ver = item[2]
  BY <1>3
<1>5. \E ms \in Published(i, ver, sync.pass) :
        inflight' = inflight \cup ms /\ sends' = sends + Cardinality(ms)
  BY <1>3, <1>4 DEF PublishItem
<1>6. inflight' \subseteq Message /\ sends' \in 0 .. MaxSent
  <2>1. PICK act \in Actions : act = sync.pass
    BY <1>2 DEF Actions, Passes
  <2> QED BY <1>1, <1>5, <2>1, PublishedBounded
<1>7. Tail(sync.todo) \in Seq(Ids \X (0 .. MaxTime))
  <2>1. sync.todo \in Seq(Ids \X (0 .. MaxTime)) /\ sync.todo # <<>>
    BY <1>2, SyncBounds
  <2> QED BY <2>1, HeadTailProperties
<1>8. sync'.pass = sync.pass /\ sync'.last = sync.last /\ sync'.todo = Tail(sync.todo)
  BY <1>2
<1> QED BY <1>1, <1>6, <1>7, <1>8, SyncBounds DEF EntitySyncTypeOK

LEMMA ForeignPubBounded ==
  ASSUME SyncBounded, ForeignPub
  PROVE  EntitySyncTypeOK' /\ \A k \in DOMAIN txn' : txn'[k] \in Row
<1>1. /\ sends < MaxSent /\ sends' = sends + 1
      /\ UNCHANGED <<enabled, now, source, txn, replica, sync, healing>>
      /\ \E o \in Oddities :
           inflight' = inflight \cup {[id |-> CHOOSE i \in Ids : TRUE, ver |-> 0, act |-> o]}
  BY DEF ForeignPub, sourceVars
<1>2. (CHOOSE i \in Ids : TRUE) \in Ids
  BY SyncAssumption DEF SyncAssumption
<1>3. inflight' \subseteq Message
  <2>1. PICK i \in Ids : i = CHOOSE j \in Ids : TRUE
    BY <1>2
  <2>2. PICK o \in Oddities : inflight' = inflight \cup {[id |-> i, ver |-> 0, act |-> o]}
    BY <1>1, <2>1
  <2>3. [id |-> i, ver |-> 0, act |-> o] \in Message
    BY SyncBounds DEF Message
  <2> QED BY <2>2, <2>3, SyncBounds
<1>4. sends' \in 0 .. MaxSent
  BY <1>1, SyncBounds
<1> QED BY <1>1, <1>3, <1>4, SyncBounds DEF EntitySyncTypeOK

LEMMA ReceiveBounded ==
  ASSUME SyncBounded, NEW m \in inflight, ReceiveRow(m) \/ ReceiveOdd(m) \/ DeadLetter(m)
  PROVE  EntitySyncTypeOK' /\ \A k \in DOMAIN txn' : txn'[k] \in Row
<1>1. /\ UNCHANGED <<enabled, now, source, txn, sends, sync>> /\ inflight' \subseteq inflight
      /\ healing' \in BOOLEAN
  BY SyncBounds DEF ReceiveRow, ReceiveOdd, DeadLetter, sourceVars
<1>2. replica' \in [Ids -> [ver : 0 .. MaxTime, del : BOOLEAN]]
  <2>1. CASE ReceiveRow(m)
    <3>1. replica' = Applied(m) /\ m.act \in Actions /\ m \in Message
      BY <2>1, SyncBounds DEF ReceiveRow
    <3>2. m.id \in Ids /\ m.ver \in 0 .. MaxTime
      BY <3>1 DEF Message
    <3>3. [ver |-> m.ver, del |-> FALSE] \in [ver : 0 .. MaxTime, del : BOOLEAN]
      BY <3>2
    <3>4. CASE m.act = "save"
      BY <3>1, <3>2, <3>3, <3>4, SyncBounds DEF Applied
    <3>5. CASE m.act = "delete"
      <4> DEFINE r == [replica[m.id] EXCEPT !.del = @ \/ replica[m.id].ver # 0]
      <4>1. r \in [ver : 0 .. MaxTime, del : BOOLEAN]
        <5>1. PICK q \in [ver : 0 .. MaxTime, del : BOOLEAN] : q = replica[m.id]
          BY <3>2, SyncBounds
        <5>2. r = [ver |-> q.ver, del |-> q.del \/ q.ver # 0]
          BY <5>1
        <5>3. q.ver \in 0 .. MaxTime /\ (q.del \/ q.ver # 0) \in BOOLEAN
          BY <5>1
        <5> HIDE DEF r
        <5> QED BY <5>2, <5>3
      <4>2. replica' = [replica EXCEPT ![m.id] = r]
        BY <3>1, <3>5 DEF Applied
      <4> HIDE DEF r
      <4> QED BY <4>1, <4>2, SyncBounds
    <3> QED BY <3>1, <3>4, <3>5 DEF Actions
  <2>2. CASE ReceiveOdd(m) \/ DeadLetter(m)
    BY <2>2, SyncBounds DEF ReceiveOdd, DeadLetter
  <2> QED BY <2>1, <2>2
<1> QED BY <1>1, <1>2, SyncBounds DEF EntitySyncTypeOK

LEMMA SyncBoundedKept ==
  SyncBounded /\ [EntitySyncNext]_syncVars => SyncBounded'
<1> SUFFICES ASSUME SyncBounded, [EntitySyncNext]_syncVars
             PROVE  EntitySyncTypeOK' /\ \A k \in DOMAIN txn' : txn'[k] \in Row
  BY SyncTypedKept DEF SyncBounded
<1>1. CASE UNCHANGED syncVars
  BY <1>1, SyncBounds DEF syncVars, EntitySyncTypeOK
<1>2. ASSUME NEW w \in Windows, StartSync(w)
      PROVE  EntitySyncTypeOK' /\ \A k \in DOMAIN txn' : txn'[k] \in Row
  <2>1. /\ UNCHANGED <<enabled, now, source, txn, replica, sends, inflight>>
        /\ healing' \in BOOLEAN
    BY <1>2, SyncBounds DEF StartSync, sourceVars, streamVars
  <2>2. sync'.pass = "save" /\ sync'.last = FALSE /\ sync'.todo = <<>>
    BY <1>2 DEF StartSync, Idle
  <2>3. sync'.todo \in Seq(Ids \X (0 .. MaxTime))
    BY <2>2
  <2> QED BY <2>1, <2>2, <2>3, SyncOnly
<1>3. ASSUME SyncFails
      PROVE  EntitySyncTypeOK' /\ \A k \in DOMAIN txn' : txn'[k] \in Row
  <2>1. /\ UNCHANGED <<enabled, now, source, txn, replica, sends, inflight>>
        /\ healing' = FALSE
    BY <1>3 DEF SyncFails, sourceVars, streamVars
  <2>2. sync'.pass = "idle" /\ sync'.last = FALSE /\ sync'.todo = <<>>
    BY <1>3 DEF SyncFails, Idle
  <2>3. sync'.todo \in Seq(Ids \X (0 .. MaxTime))
    BY <2>2
  <2> QED BY <2>1, <2>2, <2>3, SyncOnly
<1>4. ASSUME EndPass
      PROVE  EntitySyncTypeOK' /\ \A k \in DOMAIN txn' : txn'[k] \in Row
  <2> DEFINE p == IF sync.pass = "save" THEN "delete" ELSE "done"
  <2>1. UNCHANGED <<enabled, now, source, txn, replica, sends, inflight, healing>>
    BY <1>4 DEF EndPass, sourceVars, streamVars
  <2>2. /\ sync.todo = <<>>
        /\ sync' = [pass |-> p, index |-> 0, last |-> FALSE, todo |-> <<>>,
                    since |-> sync.since, to |-> sync.to]
    BY <1>4, EndsPass DEF SyncBounded
  <2>3. p \in {"idle", "save", "delete", "done"}
    OBVIOUS
  <2> HIDE DEF p
  <2>4. sync'.pass = p /\ sync'.last = FALSE /\ sync'.todo = <<>>
    BY <2>2
  <2>5. sync'.todo \in Seq(Ids \X (0 .. MaxTime)) /\ healing' \in BOOLEAN
    BY <2>1, <2>4, SyncBounds
  <2> QED BY <2>1, <2>3, <2>4, <2>5, SyncOnly
<1> QED BY <1>1, <1>2, <1>3, <1>4, WriteBounded, WriteUnseenBounded, EndTransactionBounded,
           NextPageBounded, PublishItemBounded, ForeignPubBounded, ReceiveBounded
        DEF EntitySyncNext

\* The variables of the sync keep their types: no version is of the future, and what is
\* published is a row of the table or the payload of another publisher.
THEOREM EntitySyncTypeCorrect == EntitySyncSpec => []EntitySyncTypeOK
<1>1. SyncBounded => EntitySyncTypeOK
  BY DEF SyncBounded
<1> QED BY <1>1, SyncBoundedInit, SyncBoundedKept, PTL DEF EntitySyncSpec

-----------------------------------------------------------------------------
(* Paging: numbers put in order *)

\* A finite set of numbers put in order: every member has a place, before that of the
\* greater ones.
LEMMA InOrderIs ==
  ASSUME NEW S \in SUBSET Nat, IsFiniteSet(S)
  PROVE  /\ Cardinality(S) \in Nat
         /\ InOrder(S) \in [1 .. Cardinality(S) -> S]
         /\ \A i, j \in 1 .. Cardinality(S) : i < j => InOrder(S)[i] < InOrder(S)[j]
         /\ \A r \in S : \E i \in 1 .. Cardinality(S) : InOrder(S)[i] = r
<1> DEFINE n == Cardinality(S)
           Below(r) == {q \in S : q < r}
           Rank(r) == Cardinality(Below(r))
           f == [r \in S |-> Rank(r)]
<1>1. n \in Nat
  BY FS_CardinalityType
<1>2. ASSUME NEW r \in S
      PROVE  Rank(r) \in 0 .. n - 1
  <2>1. Below(r) \in SUBSET S /\ Below(r) # S
    OBVIOUS
  <2>2. IsFiniteSet(Below(r)) /\ Rank(r) <= n /\ Rank(r) # n
    <3> HIDE DEF Below
    <3> QED BY <2>1, FS_Subset
  <2>3. Rank(r) \in Nat
    BY <2>2, FS_CardinalityType
  <2> HIDE DEF n, Rank
  <2> QED BY <1>1, <2>2, <2>3
<1>3. ASSUME NEW r \in S, NEW q \in S, q < r
      PROVE  Rank(q) < Rank(r)
  <2>1. Below(q) \in SUBSET Below(r) /\ q \in Below(r) /\ q \notin Below(q)
    <3>1. q \in Nat /\ r \in Nat /\ ~(q < q)
      OBVIOUS
    <3>2. \A x \in S : x < q => x < r
      BY <3>1, <1>3
    <3> QED BY <3>1, <3>2, <1>3
  <2>2. IsFiniteSet(Below(r))
    <3>1. Below(r) \in SUBSET S
      OBVIOUS
    <3> HIDE DEF Below
    <3> QED BY <3>1, FS_Subset
  <2>3. Rank(q) <= Rank(r) /\ Rank(q) # Rank(r)
    <3>1. PICK A, B : A = Below(q) /\ B = Below(r)
      OBVIOUS
    <3>2. A \in SUBSET B /\ IsFiniteSet(B) /\ A # B
      <4> HIDE DEF Below
      <4> QED BY <2>1, <2>2, <3>1
    <3>3. Cardinality(A) <= Cardinality(B) /\ Cardinality(A) # Cardinality(B)
      BY <3>2, FS_Subset
    <3> HIDE DEF Below
    <3> QED BY <3>1, <3>3
  <2>4. Rank(q) \in Nat /\ Rank(r) \in Nat
    <3>1. Rank(q) \in 0 .. n - 1 /\ Rank(r) \in 0 .. n - 1
      BY <1>2
    <3> HIDE DEF Rank, n
    <3> QED BY <1>1, <3>1
  <2> HIDE DEF Rank
  <2> QED BY <2>3, <2>4
<1>4. f \in Surjection(S, 0 .. n - 1)
  <2>1. \A r, q \in S : Rank(r) = Rank(q) => r = q
    <3> SUFFICES ASSUME NEW r \in S, NEW q \in S, Rank(r) = Rank(q), r # q PROVE FALSE
      OBVIOUS
    <3>1. r < q \/ q < r
      OBVIOUS
    <3>2. Rank(r) \in Int /\ Rank(q) \in Int
      BY <1>2
    <3>3. Rank(r) < Rank(q) \/ Rank(q) < Rank(r)
      BY <1>3, <3>1
    <3> HIDE DEF Rank
    <3> QED BY <3>2, <3>3
  <2>2. f \in Injection(S, 0 .. n - 1)
    <3> HIDE DEF Rank, n
    <3> QED BY <1>2, <2>1 DEF Injection, IsInjective
  <2>3. IsFiniteSet(0 .. n - 1) /\ Cardinality(0 .. n - 1) = n
    <3>1. 0 \in Int /\ n - 1 \in Int
      BY <1>1
    <3> HIDE DEF n
    <3> QED BY <1>1, <3>1, FS_Interval
  <2> HIDE DEF f
  <2> QED BY <2>2, <2>3, FS_Injection
<1>5. ASSUME NEW i \in 1 .. n
      PROVE  InOrder(S)[i] \in S /\ Rank(InOrder(S)[i]) = i - 1
  <2>1. \E r \in S : Rank(r) = i - 1
    <3>1. i - 1 \in 0 .. n - 1
      BY <1>1
    <3> HIDE DEF Rank, n
    <3> QED BY <1>4, <3>1 DEF Surjection
  <2>2. InOrder(S)[i] = CHOOSE r \in S : Rank(r) = i - 1
    BY DEF InOrder
  <2> HIDE DEF Rank
  <2> QED BY <2>1, <2>2
<1>6. InOrder(S) \in [1 .. n -> S]
  <2> DEFINE g(i) == CHOOSE r \in S : Rank(r) = i - 1
  <2>1. InOrder(S) = [i \in 1 .. n |-> g(i)]
    BY DEF InOrder
  <2> HIDE DEF n, Rank, g
  <2>2. \A i \in 1 .. n : g(i) = InOrder(S)[i]
    BY <2>1
  <2> QED BY <1>5, <2>1, <2>2
<1>7. ASSUME NEW i \in 1 .. n, NEW j \in 1 .. n, i < j
      PROVE  InOrder(S)[i] < InOrder(S)[j]
  <2>1. PICK a \in S, b \in S : a = InOrder(S)[i] /\ b = InOrder(S)[j]
    BY <1>5
  <2>2. Rank(a) = i - 1 /\ Rank(b) = j - 1
    BY <1>5, <2>1
  <2>3. a = b => FALSE
    <3>1. ASSUME a = b PROVE Rank(a) = Rank(b)
      BY <3>1
    <3>2. i - 1 # j - 1
      BY <1>1, <1>7
    <3> HIDE DEF Rank
    <3> QED BY <2>2, <3>1, <3>2
  <2>4. b < a => FALSE
    <3>1. b < a => Rank(b) < Rank(a)
      BY <1>3
    <3> HIDE DEF Rank
    <3> QED BY <2>2, <3>1, <1>7, <1>1
  <2> QED BY <2>1, <2>3, <2>4
<1>8. ASSUME NEW r \in S
      PROVE  \E i \in 1 .. n : InOrder(S)[i] = r
  <2>1. PICK i \in 1 .. n : i = Rank(r) + 1
    <3> HIDE DEF Rank
    <3> QED BY <1>2, <1>1
  <2>2. InOrder(S)[i] \in S /\ Rank(InOrder(S)[i]) = Rank(r)
    <3>1. Rank(r) \in Int
      BY <1>2
    <3>2. InOrder(S)[i] \in S /\ Rank(InOrder(S)[i]) = i - 1
      BY <1>5
    <3> HIDE DEF Rank
    <3> QED BY <2>1, <3>1, <3>2
  <2>3. PICK q \in S : q = InOrder(S)[i]
    BY <2>2
  <2>4. ~(q < r) /\ ~(r < q)
    <3>1. Rank(r) \in Int /\ Rank(q) = Rank(r)
      BY <1>2, <2>2, <2>3
    <3>2. /\ q < r => Rank(q) < Rank(r)
          /\ r < q => Rank(r) < Rank(q)
      BY <1>3
    <3> HIDE DEF Rank
    <3> QED BY <3>1, <3>2
  <2> QED BY <2>3, <2>4
<1> HIDE DEF n
<1>9. n = Cardinality(S)
  BY DEF n
<1> QED BY <1>1, <1>6, <1>7, <1>8, <1>9

-----------------------------------------------------------------------------
(* Paging *)

\* The conditions a query is sent with are those of the parameters that are not blank,
\* each with its own parameter, in whatever order the map was iterated.
LEMMA UsedIs ==
  ASSUME ask \in Asks, NEW order \in SetToSeqs(Given)
  PROVE  \E k \in Nat :
           /\ Used(order) \in [1 .. k -> Columns] /\ Len(Used(order)) = k
           /\ \A j \in 1 .. k : ask.where[Used(order)[j]] > Blank
           /\ \A c \in Columns : ask.where[c] > Blank => \E j \in 1 .. k : Used(order)[j] = c
<1> DEFINE n == Cardinality(Given)
           K == {i \in 1 .. Len(order) : ask.where[order[i]] > Blank}
           k == Cardinality(K)
           kept == InOrder(K)
<1>1. ask.where \in [Columns -> Int]
  BY PagingAssumption DEF PagingAssumption, AskShape
<1>2. Given \subseteq Columns /\ IsFiniteSet(Given) /\ n \in Nat
  <2>1. Given \in SUBSET Columns
    BY DEF Given
  <2> QED BY <2>1, PagingAssumption, FS_Subset, FS_CardinalityType DEF PagingAssumption
<1>3. /\ order \in [1 .. n -> Given]
      /\ \A i, j \in 1 .. n : i # j => order[i] # order[j]
  BY DEF SetToSeqs
<1>4. Len(order) = n
  <2> HIDE DEF n
  <2> QED BY <1>2, <1>3
<1>5. \A c \in Given : \E i \in 1 .. n : order[i] = c
  <2>1. order \in Injection(1 .. n, Given)
    BY <1>3 DEF Injection, IsInjective
  <2>2. Cardinality(1 .. n) = n
    <3> HIDE DEF n
    <3> QED BY <1>2, FS_Interval
  <2>3. order \in Surjection(1 .. n, Given)
    BY <1>2, <2>1, <2>2, FS_Injection
  <2> HIDE DEF n
  <2> QED BY <2>3 DEF Surjection
<1>6. K \in SUBSET Nat /\ IsFiniteSet(K)
  <2>1. K \in SUBSET (1 .. n) /\ IsFiniteSet(1 .. n)
    <3> HIDE DEF n
    <3> QED BY <1>2, <1>4, FS_Interval
  <2>2. IsFiniteSet(K)
    <3> HIDE DEF K, n
    <3> QED BY <2>1, FS_Subset
  <2>3. K \in SUBSET Nat
    <3>1. \A i \in 1 .. n : i \in Nat
      OBVIOUS
    <3> HIDE DEF K, n
    <3> QED BY <2>1, <3>1
  <2> QED BY <2>2, <2>3
<1>7. /\ k \in Nat /\ kept \in [1 .. k -> K]
      /\ \A r \in K : \E i \in 1 .. k : kept[i] = r
  <2> HIDE DEF K
  <2> QED BY <1>6, InOrderIs
<1>8. Len(kept) = k
  <2> HIDE DEF k, kept
  <2> QED BY <1>7
<1>9. Used(order) = [j \in 1 .. k |-> order[kept[j]]]
  <2>1. Used(order) = [j \in 1 .. Len(kept) |-> order[kept[j]]]
    BY DEF Used
  <2> HIDE DEF k, kept
  <2> QED BY <1>8, <2>1
<1>10. \A i \in K : i \in 1 .. n /\ order[i] \in Columns /\ ask.where[order[i]] > Blank
  BY <1>2, <1>3, <1>4
<1>11. ASSUME NEW c \in Columns, ask.where[c] > Blank
       PROVE  \E i \in K : order[i] = c
  <2>1. c \in Given
    BY <1>1, <1>11 DEF Given, Blank, Absent
  <2> QED BY <1>4, <1>5, <1>11, <2>1
<1> HIDE DEF n, K, k, kept
<1>12. Used(order) \in [1 .. k -> Columns]
  BY <1>7, <1>9, <1>10
<1>13. Len(Used(order)) = k
  BY <1>7, <1>12
<1>14. \A j \in 1 .. k : ask.where[Used(order)[j]] > Blank
  BY <1>7, <1>9, <1>10
<1>15. ASSUME NEW c \in Columns, ask.where[c] > Blank
       PROVE  \E j \in 1 .. k : Used(order)[j] = c
  BY <1>7, <1>9, <1>11, <1>15
<1> QED BY <1>7, <1>12, <1>13, <1>14, <1>15

LEMMA BoundIs ==
  ASSUME ask \in Asks, NEW order \in SetToSeqs(Given)
  PROVE  Matching(Bound(order)) = Wanted
<1> DEFINE used == Used(order)
           stmt == Bound(order)
<1>1. PICK k \in Nat :
        /\ used \in [1 .. k -> Columns] /\ Len(used) = k
        /\ \A j \in 1 .. k : ask.where[used[j]] > Blank
        /\ \A c \in Columns : ask.where[c] > Blank => \E j \in 1 .. k : used[j] = c
  BY UsedIs
<1>2. stmt.conds = used /\ stmt.params = [i \in 1 .. Len(used) |-> ask.where[used[i]]]
  BY DEF Bound
<1>3. Matching(stmt) =
        {r \in table : \A i \in 1 .. Len(stmt.conds) : Cell[r][stmt.conds[i]] = stmt.params[i]}
  BY DEF Matching
<1> HIDE DEF used, stmt
<1>4. \A i \in 1 .. k : stmt.conds[i] = used[i] /\ stmt.params[i] = ask.where[used[i]]
  BY <1>1, <1>2
<1>5. ASSUME NEW r \in table
      PROVE  (\A i \in 1 .. Len(stmt.conds) : Cell[r][stmt.conds[i]] = stmt.params[i])
               <=> \A c \in Columns : ask.where[c] > Blank => Cell[r][c] = ask.where[c]
  <2>1. Len(stmt.conds) = k
    BY <1>1, <1>2
  <2>2. ASSUME \A i \in 1 .. k : Cell[r][used[i]] = ask.where[used[i]],
               NEW c \in Columns, ask.where[c] > Blank
        PROVE  Cell[r][c] = ask.where[c]
    BY <1>1, <2>2
  <2>3. ASSUME \A c \in Columns : ask.where[c] > Blank => Cell[r][c] = ask.where[c],
               NEW i \in 1 .. k
        PROVE  Cell[r][used[i]] = ask.where[used[i]]
    BY <1>1, <2>3
  <2> QED BY <1>4, <2>1, <2>2, <2>3
<1> QED BY <1>3, <1>5 DEF Wanted, stmt

\* What the pages number: page p is one of them if, and only if, rows are left for it.
LEMMA PagesMean ==
  ASSUME NEW n \in Nat, NEW z \in Nat \ {0}
  PROVE  /\ Pages(n, z) \in Nat
         /\ \A p \in Nat : p < Pages(n, z) <=> p * z < n
<1> DEFINE q == (n + z - 1) \div z
<1>1. n + z - 1 \in Nat
  OBVIOUS
<1>2. q \in Nat /\ q * z <= n + z - 1 /\ n + z - 1 < q * z + z
  BY ONLY <1>1, z \in Nat \ {0}
<1> HIDE DEF q
<1>3. ASSUME NEW p \in Nat
      PROVE  p < q <=> p * z < n
  <2>1. p * z \in Nat /\ q * z \in Nat
    BY <1>2
  <2>2. p < q => p * z + z <= q * z
    <3>1. p < q => (p + 1) * z <= q * z
      BY ONLY p \in Nat, z \in Nat \ {0}, <1>2
    <3>2. (p + 1) * z = p * z + z
      OBVIOUS
    <3> QED BY <3>1, <3>2
  <2>3. q <= p => q * z <= p * z
    BY ONLY p \in Nat, z \in Nat \ {0}, <1>2
  <2>4. p < q \/ q <= p
    BY <1>2
  <2> QED BY <1>2, <2>1, <2>2, <2>3, <2>4
<1> QED BY <1>2, <1>3 DEF Pages, q

\* A table that stands still, asked for in pages.
StandsStill ==
  /\ ~moved /\ ask.limit = 0 /\ ask.offset = 0
  /\ ask.size > 0 => ask.sums \/ ask.api = "orm"

Reply == Grouped(Wanted)

Upto(k) == IF k <= Cardinality(Reply) THEN k ELSE Cardinality(Reply)

PageRows ==
  IF Size > 0 THEN SubSeq(InOrder(Reply), page * Size + 1, Upto(page * Size + Size))
  ELSE InOrder(Reply)

\* What may be counted: the rows read, or the rows they were grouped from.
Totals == {Cardinality(Reply), Cardinality(Wanted)}

\* The pages before this one have been shown, and what is known of the page and of their
\* number is true.
Walking ==
  /\ Size <= 0 => page = 0 /\ totalPage = 0
  /\ paging # "end" => shown = SubSeq(InOrder(Reply), 1, Upto(page * Size))
  /\ paging \in {"count", "answer"} => data = PageRows
  /\ paging \in {"find", "answer"} /\ Size > 0 =>
       total \in Totals /\ totalPage = Pages(total, Size)
  /\ paging = "answer" /\ ask.api = "orm" => total \in Totals
  /\ paging = "end" =>
       /\ shown = InOrder(Reply)
       /\ Size > 0 \/ ask.api = "orm" => total \in Totals

PagingInv ==
  /\ PagingTypeOK
  /\ paging = "count" => ask.api = "raw" /\ ShouldPagingResult
  /\ paging = "find" => ask.api = "orm"
  /\ StandsStill => Walking

LEMMA AskIs ==
  ASSUME ask \in Asks
  PROVE  /\ ask.api \in {"raw", "orm"} /\ ask.size \in Int /\ ask.limit \in Int
         /\ ask.offset \in Int /\ (ask.api = "orm" => ask.group = {})
         /\ ask.sums \in BOOLEAN /\ Size \in Int /\ (ask.api = "orm" => Size >= 0)
         /\ ShouldPagingResult /\ ask.api = "raw" => Size > 0
         /\ StandsStill /\ ask.api = "raw" /\ Size > 0 => ShouldPagingResult
         /\ ShouldPagingResult <=> ask.sums /\ ask.size # -1
<1>1. /\ ask.api \in {"raw", "orm"} /\ ask.size \in Int /\ ask.limit \in Int /\ ask.offset \in Int
      /\ ask.sums \in BOOLEAN /\ ask.size >= -1
      /\ ask.api = "orm" => ask.size >= 0 /\ ask.group = {}
      /\ PageSize \in Nat \ {0}
  BY PagingAssumption DEF PagingAssumption, AskShape
<1>2. Size = IF ask.size = 0 /\ ask.api = "raw" /\ ShouldPagingResult THEN PageSize ELSE ask.size
  BY DEF Size
<1> QED BY <1>1, <1>2 DEF ShouldPagingResult, StandsStill

LEMMA OrderedRows ==
  ASSUME NEW rows \in SUBSET Rows
  PROVE  /\ Cardinality(rows) \in Nat /\ InOrder(rows) \in Seq(Rows)
         /\ Len(InOrder(rows)) = Cardinality(rows)
<1>1. IsFiniteSet(rows) /\ rows \in SUBSET Nat
  BY PagingAssumption, FS_Subset DEF PagingAssumption
<1>2. Cardinality(rows) \in Nat /\ InOrder(rows) \in [1 .. Cardinality(rows) -> rows]
  BY <1>1, InOrderIs
<1> QED BY <1>2

LEMMA LessOf ==
  ASSUME NEW a \in Int, NEW b \in Int
  PROVE  Min({a, b}) = IF a <= b THEN a ELSE b
<1> DEFINE m == IF a <= b THEN a ELSE b
<1>1. m \in {a, b} /\ \A y \in {a, b} : m <= y
  OBVIOUS
<1>2. \A x \in {a, b} : (\A y \in {a, b} : x <= y) => x = m
  OBVIOUS
<1> QED BY <1>1, <1>2 DEF Min

LEMMA WindowIs ==
  ASSUME NEW rows \in SUBSET Rows, NEW limit \in Int, NEW offset \in Int
  PROVE  /\ WindowOf(rows, limit, offset) \in Seq(Rows)
         /\ limit = 0 /\ offset = 0 => WindowOf(rows, limit, offset) = InOrder(rows)
         /\ limit > 0 /\ offset >= 0 =>
              WindowOf(rows, limit, offset) =
                SubSeq(InOrder(rows), offset + 1,
                       IF offset + limit <= Cardinality(rows) THEN offset + limit
                       ELSE Cardinality(rows))
<1> DEFINE s == InOrder(rows)
           n == Cardinality(rows)
           skip == IF offset > 0 THEN offset ELSE 0
           last == IF limit > 0 THEN Min({Len(s), skip + limit}) ELSE Len(s)
<1>1. s \in Seq(Rows) /\ Len(s) = n /\ n \in Nat
  BY OrderedRows
<1>2. WindowOf(rows, limit, offset) = SubSeq(s, skip + 1, last)
  BY DEF WindowOf
<1>a. skip \in Nat /\ (offset >= 0 => skip = offset)
  OBVIOUS
<1>3. last = IF ~(limit > 0) \/ n <= skip + limit THEN n ELSE skip + limit
  <2> HIDE DEF s, n, skip
  <2>1. skip + limit \in Int /\ n \in Int
    BY <1>1, <1>a
  <2>2. Min({n, skip + limit}) = IF n <= skip + limit THEN n ELSE skip + limit
    BY <2>1, LessOf
  <2> QED BY <1>1, <2>2
<1> HIDE DEF s, n, last, skip
<1>4. last \in Nat /\ last <= n
  BY <1>1, <1>3, <1>a
<1>5. SubSeq(s, skip + 1, last) \in Seq(Rows)
  <2>1. \A i \in skip + 1 .. last : s[i] \in Rows
    BY <1>1, <1>4, <1>a
  <2>2. skip + 1 \in Int /\ last \in Int
    BY <1>4, <1>a
  <2> QED BY <2>1, <2>2, SubSeqProperties
<1>6. ASSUME limit = 0, offset = 0
      PROVE  SubSeq(s, skip + 1, last) = s
  <2>1. last = Len(s) /\ skip + 1 = 1
    BY <1>1, <1>3, <1>6, <1>a
  <2> QED BY <1>1, <2>1, SubSeqFull
<1>7. limit > 0 => last = IF skip + limit <= n THEN skip + limit ELSE n
  BY <1>1, <1>3, <1>a
<1> QED BY <1>2, <1>5, <1>6, <1>7, <1>a DEF s, n

LEMMA PagingTypes ==
  PagingTypeOK <=>
    /\ ask \in Asks /\ table \subseteq Rows /\ page \in Nat
    /\ paging \in {"ask", "count", "find", "answer", "end", "failed"}
    /\ data \in Seq(Rows) /\ shown \in Seq(Rows)
    /\ total \in Nat /\ totalPage \in Nat /\ moved \in BOOLEAN
BY DEF PagingTypeOK

LEMMA WantedRows ==
  ASSUME PagingTypeOK
  PROVE  /\ Wanted \in SUBSET Rows /\ Cardinality(Wanted) \in Nat
         /\ InOrder(Wanted) \in Seq(Rows) /\ Len(InOrder(Wanted)) = Cardinality(Wanted)
<1>1. Wanted \in SUBSET Rows
  BY DEF PagingTypeOK, Wanted
<1> QED BY <1>1, OrderedRows

\* There are no more groups than rows, and without a group by the rows themselves.
LEMMA ReplyRows ==
  ASSUME PagingTypeOK
  PROVE  /\ Reply \in SUBSET Rows /\ Cardinality(Reply) \in Nat
         /\ InOrder(Reply) \in Seq(Rows) /\ Len(InOrder(Reply)) = Cardinality(Reply)
         /\ Cardinality(Reply) <= Cardinality(Wanted)
         /\ ask.group = {} \/ ask.api = "orm" => Reply = Wanted
<1>1. Reply \in SUBSET Wanted
  BY DEF Reply, Grouped
<1>2. Wanted \in SUBSET Rows /\ IsFiniteSet(Wanted)
  BY WantedRows, PagingAssumption, FS_Subset DEF PagingAssumption
<1>3. Cardinality(Reply) <= Cardinality(Wanted)
  BY <1>1, <1>2, FS_Subset
<1>4. ask.api = "orm" => ask.group = {}
  BY AskIs DEF PagingTypeOK
<1>5. ask.group = {} => Reply = Wanted
  BY DEF Reply, Grouped
<1>6. Reply \in SUBSET Rows
  BY <1>1, <1>2
<1> QED BY <1>3, <1>4, <1>5, <1>6, OrderedRows

\* What a statement that leaves the request and the table alone does not change.
LEMMA StillThere ==
  ASSUME UNCHANGED <<ask, table>>
  PROVE  /\ Wanted' = Wanted /\ Size' = Size /\ (ShouldPagingResult' <=> ShouldPagingResult)
         /\ (~moved => ~moved') => (StandsStill => StandsStill')
         /\ (~moved' => ~moved) => (StandsStill' => StandsStill)
         /\ Reply' = Reply /\ Totals' = Totals
         /\ Cardinality(Reply)' = Cardinality(Reply) /\ InOrder(Reply)' = InOrder(Reply)
         /\ page' = page => PageRows' = PageRows /\ Upto(page * Size)' = Upto(page * Size)
<1>1. Wanted' = Wanted /\ Size' = Size /\ (ShouldPagingResult' <=> ShouldPagingResult)
  BY DEF Wanted, Size, ShouldPagingResult
<1>2. Reply' = Reply
  BY <1>1 DEF Reply, Grouped
<1>3. /\ Cardinality(Reply)' = Cardinality(Reply) /\ InOrder(Reply)' = InOrder(Reply)
      /\ Totals' = Totals
  BY <1>1, <1>2 DEF InOrder, Totals
<1>4. page' = page => PageRows' = PageRows /\ Upto(page * Size)' = Upto(page * Size)
  BY <1>1, <1>3 DEF PageRows, Upto
<1>5. /\ (~moved => ~moved') => (StandsStill => StandsStill')
      /\ (~moved' => ~moved) => (StandsStill' => StandsStill)
  BY DEF StandsStill
<1> QED BY <1>1, <1>2, <1>3, <1>4, <1>5

LEMMA NoneShown ==
  ASSUME PagingTypeOK, page * Size = 0
  PROVE  SubSeq(InOrder(Reply), 1, Upto(page * Size)) = <<>>
<1>1. Upto(page * Size) = 0
  BY ReplyRows DEF Upto
<1> QED BY <1>1, SubSeqEmpty

LEMMA PagingInits == PagingInit => PagingInv
<1> SUFFICES ASSUME PagingInit PROVE PagingInv
  OBVIOUS
<1>1. PagingTypeOK
  <2>1. <<>> \in Seq(Rows)
    OBVIOUS
  <2> QED BY <2>1 DEF PagingInit, PagingTypeOK
<1>2. /\ Size \in Int /\ page = 0 /\ paging = "ask" /\ shown = <<>> /\ totalPage = 0
  BY AskIs DEF PagingInit
<1>3. SubSeq(InOrder(Reply), 1, Upto(page * Size)) = <<>>
  <2>1. page * Size = 0
    BY <1>2
  <2> QED BY <1>1, <2>1, NoneShown
<1>4. Walking
  BY <1>2, <1>3 DEF Walking
<1> QED BY <1>1, <1>2, <1>4 DEF PagingInv

LEMMA QueryKeeps == ASSUME PagingInv, Query PROVE PagingInv'
<1> DEFINE limit == IF ask.limit = 0 /\ Size > 0 THEN Size ELSE ask.limit
           offset == IF ask.offset = 0 /\ page > 0 /\ Size > 0 THEN page * Size
                     ELSE ask.offset
           window == WindowOf(Reply, limit, offset)
<1>1. PagingTypeOK /\ paging = "ask" /\ ask.api = "raw"
  BY DEF PagingInv, Query
<1>2. /\ ask \in Asks /\ table \subseteq Rows /\ page \in Nat /\ total \in Nat
      /\ totalPage \in Nat /\ moved \in BOOLEAN /\ shown \in Seq(Rows)
  BY <1>1 DEF PagingTypeOK
<1>3. /\ UNCHANGED <<ask, table, page, total, totalPage, shown, moved>>
      /\ paging' = IF ShouldPagingResult THEN "count" ELSE "answer"
  BY DEF Query
<1>4. data' = window
  <2>1. PICK order \in SetToSeqs(Given) :
          data' = WindowOf(Grouped(Matching(Bound(order))), limit, offset)
    BY DEF Query
  <2> HIDE DEF limit, offset
  <2> QED BY <1>2, <2>1, BoundIs DEF Reply
<1>5. Size \in Int /\ ask.limit \in Int /\ ask.offset \in Int
  BY <1>2, AskIs
<1>6. limit \in Int /\ offset \in Int
  <2>1. page > 0 /\ Size > 0 => page * Size \in Int
    BY <1>2, <1>5
  <2> QED BY <1>5, <2>1
<1>7. /\ window \in Seq(Rows)
      /\ limit = 0 /\ offset = 0 => window = InOrder(Reply)
      /\ limit > 0 /\ offset >= 0 => window = SubSeq(InOrder(Reply), offset + 1,
                          IF offset + limit <= Cardinality(Reply) THEN offset + limit
                          ELSE Cardinality(Reply))
  <2> HIDE DEF limit, offset
  <2> QED BY <1>1, <1>6, ReplyRows, WindowIs
<1> HIDE DEF window
<1>8. PagingTypeOK'
  <2>1. data' \in Seq(Rows)
    BY <1>4, <1>7
  <2>2. paging' \in {"count", "answer"}
    BY <1>3
  <2>3. /\ ask' \in Asks /\ table' \subseteq Rows /\ page' \in Nat /\ shown' \in Seq(Rows)
        /\ total' \in Nat /\ totalPage' \in Nat /\ moved' \in BOOLEAN
    BY <1>2, <1>3
  <2> QED BY <2>1, <2>2, <2>3 DEF PagingTypeOK
<1>9. ASSUME StandsStill'
      PROVE  Walking'
  <2>1. StandsStill /\ Walking /\ PageRows' = PageRows
    BY <1>3, <1>9, StillThere DEF PagingInv
  <2>2. ask.limit = 0 /\ ask.offset = 0 /\ (ShouldPagingResult <=> Size > 0)
    <3>1. ask.limit = 0 /\ ask.offset = 0
      BY <2>1 DEF StandsStill
    <3> QED BY <1>1, <1>2, <2>1, <3>1, AskIs
  <2>3. window = PageRows
    <3>1. CASE Size > 0
      <4>0. page * Size \in Nat /\ (page = 0 => page * Size = 0)
        BY <1>2, <1>5, <3>1
      <4>1. limit = Size /\ limit > 0 /\ offset = page * Size /\ offset >= 0
        BY <1>2, <1>5, <2>2, <3>1, <4>0
      <4>2. PageRows = SubSeq(InOrder(Reply), page * Size + 1,
                          IF page * Size + Size <= Cardinality(Reply) THEN page * Size + Size
                          ELSE Cardinality(Reply))
        BY <3>1 DEF PageRows, Upto
      <4> QED BY <1>7, <4>1, <4>2
    <3>2. CASE ~(Size > 0)
      <4>1. limit = 0 /\ offset = 0
        BY <2>2, <3>2
      <4>2. PageRows = InOrder(Reply)
        BY <3>2 DEF PageRows
      <4> QED BY <1>7, <4>1, <4>2
    <3> QED BY <3>1, <3>2
  <2>4. /\ Size' = Size /\ InOrder(Reply)' = InOrder(Reply) /\ Totals' = Totals
        /\ Upto(page * Size)' = Upto(page * Size)
    BY <1>3, StillThere
  <2>5. data' = PageRows'
    BY <1>4, <2>1, <2>3
  <2>6. /\ Size <= 0 => page = 0 /\ totalPage = 0
        /\ shown = SubSeq(InOrder(Reply), 1, Upto(page * Size))
    BY <1>1, <2>1 DEF Walking
  <2>7. paging' = "answer" => ~(Size > 0)
    BY <1>3, <2>2
  <2> QED BY <1>1, <1>3, <2>4, <2>5, <2>6, <2>7 DEF Walking
<1>10. /\ paging' = "count" => ask'.api = "raw" /\ ShouldPagingResult'
       /\ paging' = "find" => ask'.api = "orm"
  BY <1>1, <1>3, StillThere
<1> QED BY <1>8, <1>9, <1>10 DEF PagingInv

LEMMA CountingIs ==
  ASSUME PagingInv, paging = "count"
  PROVE  /\ ask.api = "raw" /\ Size \in Nat \ {0} /\ page \in Nat /\ page * Size \in Nat
         /\ StandsStill => data = SubSeq(InOrder(Reply), page * Size + 1,
                                         Upto(page * Size + Size))
<1>1. PagingTypeOK /\ ask.api = "raw" /\ ShouldPagingResult
  BY DEF PagingInv
<1>2. ask \in Asks /\ page \in Nat
  BY <1>1 DEF PagingTypeOK
<1>3. Size \in Int /\ Size > 0
  BY <1>1, <1>2, AskIs
<1>4. page * Size \in Nat
  BY <1>2, <1>3
<1>5. StandsStill => data = PageRows
  BY DEF PagingInv, Walking
<1> QED BY <1>1, <1>2, <1>3, <1>4, <1>5 DEF PageRows

\* Of what is counted: once the total and the number of pages are right, the answer is.
LEMMA AnswerKeeps ==
  ASSUME PagingInv, paging = "count", paging' = "answer",
         UNCHANGED <<ask, table, page, data, shown, moved>>,
         total' \in Nat, totalPage' \in Nat,
         StandsStill => total' \in Totals /\ totalPage' = Pages(total', Size)
  PROVE  PagingInv'
<1>1. PagingTypeOK /\ ask.api = "raw" /\ Size \in Nat \ {0}
  BY CountingIs DEF PagingInv
<1>2. PagingTypeOK'
  BY <1>1 DEF PagingTypeOK
<1>3. ASSUME StandsStill' PROVE Walking'
  <2>1. StandsStill /\ Walking /\ PageRows' = PageRows
    BY <1>3, StillThere DEF PagingInv
  <2>2. /\ Size' = Size /\ InOrder(Reply)' = InOrder(Reply) /\ Totals' = Totals
        /\ Upto(page * Size)' = Upto(page * Size)
    BY StillThere
  <2>3. data = PageRows /\ shown = SubSeq(InOrder(Reply), 1, Upto(page * Size))
    BY <2>1 DEF Walking
  <2>4. Pages(total, Size)' = Pages(total', Size)
    BY <2>2 DEF Pages
  <2>5. total' \in Totals' /\ totalPage' = Pages(total, Size)' /\ ~(Size' <= 0)
    BY <1>1, <2>1, <2>2, <2>4
  <2>6. data' = PageRows' /\ shown' = SubSeq(InOrder(Reply)', 1, Upto(page * Size)')
    BY <2>1, <2>2, <2>3
  <2> QED BY <2>5, <2>6 DEF Walking
<1> QED BY <1>2, <1>3 DEF PagingInv

LEMMA CountedByPageKeeps == ASSUME PagingInv, CountedByPage PROVE PagingInv'
<1>1. /\ PagingTypeOK /\ paging = "count" /\ page = 0 /\ Len(data) < Size
      /\ total' = Len(data) /\ totalPage' = (IF data = <<>> THEN 0 ELSE 1)
      /\ paging' = "answer" /\ UNCHANGED <<ask, table, page, data, shown, moved>>
  BY DEF CountedByPage, PagingInv
<1>2. total' \in Nat /\ totalPage' \in Nat
  <2>1. data \in Seq(Rows)
    BY <1>1 DEF PagingTypeOK
  <2> QED BY <1>1, <2>1
<1>3. ASSUME StandsStill
      PROVE  total' \in Totals /\ totalPage' = Pages(total', Size)
  <2> DEFINE s == InOrder(Reply)
             n == Cardinality(Reply)
             u == Upto(Size)
  <2>1. n \in Nat /\ s \in Seq(Rows) /\ Len(s) = n /\ Size \in Nat \ {0}
    BY <1>1, ReplyRows, CountingIs
  <2>2. data = SubSeq(s, page * Size + 1, Upto(page * Size + Size))
    BY <1>1, <1>3, CountingIs
  <2>3. page * Size + 1 = 1 /\ page * Size + Size = Size
    BY <1>1, <2>1
  <2>4. data = SubSeq(s, 1, u)
    BY <2>2, <2>3
  <2>5. u = IF Size <= n THEN Size ELSE n
    BY DEF Upto
  <2> HIDE DEF s, n, u
  <2>6. u \in Nat /\ u <= n
    BY <2>1, <2>5
  <2>7. Len(data) = u
    <3>1. \A i \in 1 .. u : s[i] \in Rows
      BY <2>1, <2>6
    <3>2. Len(SubSeq(s, 1, u)) = IF 1 <= u THEN u - 1 + 1 ELSE 0
      BY <2>6, <3>1, SubSeqProperties
    <3> QED BY <2>4, <2>6, <3>2
  <2>8. u = n /\ n < Size
    BY <1>1, <2>1, <2>5, <2>7
  <2>9. totalPage' = IF n = 0 THEN 0 ELSE 1
    <3>1. data \in Seq(Rows)
      BY <1>1 DEF PagingTypeOK
    <3>2. data = <<>> <=> Len(data) = 0
      BY <3>1
    <3> QED BY <1>1, <2>7, <2>8, <3>2
  <2>10. Pages(n, Size) = IF n = 0 THEN 0 ELSE 1
    <3>1. /\ Pages(n, Size) \in Nat
          /\ \A p \in Nat : p < Pages(n, Size) <=> p * Size < n
      BY <2>1, PagesMean
    <3>2. 0 * Size = 0 /\ 1 * Size = Size
      BY <2>1
    <3>3. 0 < Pages(n, Size) <=> 0 < n
      BY <3>1, <3>2
    <3>4. ~(1 < Pages(n, Size))
      <4>1. 1 < Pages(n, Size) <=> Size < n
        BY <3>1, <3>2
      <4> QED BY <2>1, <2>8, <4>1
    <3> QED BY <2>1, <3>1, <3>3, <3>4
  <2>11. total' = n /\ n \in Totals
    BY <1>1, <2>7, <2>8 DEF n, Totals
  <2> QED BY <2>9, <2>10, <2>11
<1> QED BY <1>1, <1>2, <1>3, AnswerKeeps

LEMMA CountedBySumKeeps == ASSUME PagingInv, CountedBySum PROVE PagingInv'
<1>1. /\ PagingTypeOK /\ paging = "count" /\ totalPage' = Pages(total', Size)
      /\ paging' = "answer" /\ UNCHANGED <<ask, table, page, data, shown, moved>>
  BY DEF CountedBySum, PagingInv
<1>2. total' = Cardinality(Wanted)
  <2>1. PICK order \in SetToSeqs(Given) : total' = Cardinality(Matching(Bound(order)))
    BY DEF CountedBySum
  <2>2. ask \in Asks
    BY <1>1 DEF PagingTypeOK
  <2> QED BY <2>1, <2>2, BoundIs
<1>3. total' \in Nat /\ Size \in Nat \ {0}
  BY <1>1, <1>2, WantedRows, CountingIs
<1>4. totalPage' \in Nat /\ total' \in Totals
  BY <1>1, <1>2, <1>3, PagesMean DEF Totals
<1> QED BY <1>1, <1>3, <1>4, AnswerKeeps

LEMMA TriggerCountKeeps == ASSUME PagingInv, TriggerCount PROVE PagingInv'
<1>1. /\ PagingTypeOK /\ paging = "ask" /\ ask.api = "orm" /\ paging' = "find"
      /\ UNCHANGED <<ask, table, page, data, shown, moved>>
      /\ Size > 0 => /\ total' = Cardinality(Wanted)
                     /\ totalPage' = Pages(total', Size)
      /\ ~(Size > 0) => total' = total /\ totalPage' = totalPage
  BY DEF TriggerCount, PagingInv
<1>2. Size \in Int /\ Cardinality(Wanted) \in Nat /\ total \in Nat /\ totalPage \in Nat
  BY <1>1, AskIs, WantedRows DEF PagingTypeOK
<1>3. total' \in Nat /\ totalPage' \in Nat
  <2>1. CASE Size > 0
    <3>1. Size \in Nat \ {0} /\ total' \in Nat
      BY <1>1, <1>2, <2>1
    <3> QED BY <1>1, <2>1, <3>1, PagesMean
  <2>2. CASE ~(Size > 0)
    BY <1>1, <1>2, <2>2
  <2> QED BY <2>1, <2>2
<1>4. PagingTypeOK'
  BY <1>1, <1>3 DEF PagingTypeOK
<1>5. ASSUME StandsStill' PROVE Walking'
  <2>1. StandsStill /\ Walking
    BY <1>1, <1>5, StillThere DEF PagingInv
  <2>2. /\ Size' = Size /\ InOrder(Reply)' = InOrder(Reply) /\ Totals' = Totals
        /\ Upto(page * Size)' = Upto(page * Size)
    BY <1>1, StillThere
  <2>3. /\ shown = SubSeq(InOrder(Reply), 1, Upto(page * Size))
        /\ Size <= 0 => page = 0 /\ totalPage = 0
    BY <1>1, <2>1 DEF Walking
  <2>4. Size > 0 => total' \in Totals /\ totalPage' = Pages(total, Size)'
    BY <1>1, <2>2 DEF Pages, Totals
  <2>5. Size <= 0 => totalPage' = 0
    BY <1>1, <1>2, <2>3
  <2> QED BY <1>1, <2>2, <2>3, <2>4, <2>5 DEF Walking
<1> QED BY <1>1, <1>4, <1>5 DEF PagingInv

LEMMA TriggerFindKeeps == ASSUME PagingInv, TriggerFind PROVE PagingInv'
<1>1. /\ PagingTypeOK /\ paging = "find" /\ ask.api = "orm" /\ paging' = "answer"
      /\ UNCHANGED <<ask, table, page, totalPage, shown, moved>>
      /\ data' = IF Size > 0 THEN WindowOf(Wanted, Size, page * Size) ELSE InOrder(Wanted)
      /\ total' = IF Size = 0 THEN Len(data') ELSE total
  BY DEF TriggerFind, PagingInv
<1>2. /\ Size \in Nat /\ total \in Nat /\ page \in Nat
      /\ Cardinality(Wanted) \in Nat /\ Wanted \in SUBSET Rows
      /\ InOrder(Wanted) \in Seq(Rows) /\ Len(InOrder(Wanted)) = Cardinality(Wanted)
      /\ Reply = Wanted
  BY <1>1, AskIs, WantedRows, ReplyRows DEF PagingTypeOK
<1>3. data' \in Seq(Rows) /\ data' = PageRows
  <2>1. CASE Size > 0
    <3>1. page * Size \in Int /\ page * Size >= 0 /\ Size \in Int
      BY <1>2, <2>1
    <3> QED BY <1>1, <1>2, <2>1, <3>1, WindowIs DEF PageRows, Upto
  <2>2. CASE ~(Size > 0)
    BY <1>1, <1>2, <2>2 DEF PageRows
  <2> QED BY <2>1, <2>2
<1>4. total' \in Nat /\ (Size = 0 => total' = Cardinality(Wanted)) /\ (Size > 0 => total' = total)
  <2>1. Size = 0 => data' = InOrder(Wanted)
    BY <1>1
  <2> QED BY <1>1, <1>2, <2>1
<1>5. PagingTypeOK'
  BY <1>1, <1>3, <1>4 DEF PagingTypeOK
<1>6. ASSUME StandsStill' PROVE Walking'
  <2>1. StandsStill /\ Walking /\ PageRows' = PageRows
    BY <1>1, <1>6, StillThere DEF PagingInv
  <2>2. /\ Size' = Size /\ InOrder(Reply)' = InOrder(Reply) /\ Totals' = Totals
        /\ Upto(page * Size)' = Upto(page * Size)
    BY <1>1, StillThere
  <2>3. /\ shown = SubSeq(InOrder(Reply), 1, Upto(page * Size))
        /\ Size <= 0 => page = 0 /\ totalPage = 0
        /\ Size > 0 => total \in Totals /\ totalPage = Pages(total, Size)
    BY <1>1, <2>1 DEF Walking
  <2>4. Size > 0 => Pages(total, Size)' = Pages(total, Size)
    BY <1>4, <2>2 DEF Pages
  <2>5. total' \in Totals
    BY <1>2, <1>4, <2>3 DEF Totals
  <2> QED BY <1>1, <1>3, <2>1, <2>2, <2>3, <2>4, <2>5 DEF Walking
<1> QED BY <1>1, <1>5, <1>6 DEF PagingInv

LEMMA StatementFailsKeeps == ASSUME PagingInv, StatementFails PROVE PagingInv'
<1>1. /\ PagingTypeOK /\ paging \in {"ask", "find", "count"} /\ paging' = "failed"
      /\ UNCHANGED <<ask, table, page, data, total, totalPage, shown, moved>>
  BY DEF StatementFails, PagingInv
<1>2. PagingTypeOK'
  BY <1>1 DEF PagingTypeOK
<1>3. ASSUME StandsStill' PROVE Walking'
  <2>1. StandsStill /\ Walking
    BY <1>1, <1>3, StillThere DEF PagingInv
  <2>2. /\ Size' = Size /\ InOrder(Reply)' = InOrder(Reply)
        /\ Upto(page * Size)' = Upto(page * Size)
    BY <1>1, StillThere
  <2>3. /\ shown = SubSeq(InOrder(Reply), 1, Upto(page * Size))
        /\ Size <= 0 => page = 0 /\ totalPage = 0
    BY <1>1, <2>1 DEF Walking
  <2> QED BY <1>1, <2>2, <2>3 DEF Walking
<1> QED BY <1>1, <1>2, <1>3 DEF PagingInv

\* The page joins those before it; the page count ends the walk after the last row.
LEMMA TakeAnswerKeeps == ASSUME PagingInv, TakeAnswer PROVE PagingInv'
<1>1. /\ PagingTypeOK /\ paging = "answer" /\ shown' = shown \o data
      /\ page + 1 < totalPage => page' = page + 1 /\ paging' = "ask"
      /\ ~(page + 1 < totalPage) => page' = page /\ paging' = "end"
      /\ UNCHANGED <<ask, table, data, total, totalPage, moved>>
  BY DEF TakeAnswer, PagingInv
<1>2. /\ ask \in Asks /\ page \in Nat /\ totalPage \in Nat /\ shown \in Seq(Rows)
      /\ data \in Seq(Rows)
  BY <1>1 DEF PagingTypeOK
<1>3. PagingTypeOK'
  <2>1. shown' \in Seq(Rows) /\ page' \in Nat
    BY <1>1, <1>2
  <2>2. paging' \in {"ask", "end"}
    BY <1>1
  <2> QED BY <1>1, <2>1, <2>2 DEF PagingTypeOK
<1>4. ASSUME StandsStill' PROVE Walking'
  <2> DEFINE s == InOrder(Reply)
             n == Cardinality(Reply)
             z == Size
             k == page * Size
             t == Upto(k)
             u == Upto(k + z)
  <2>1. StandsStill /\ Walking
    BY <1>1, <1>4, StillThere DEF PagingInv
  <2>2. Size' = z /\ InOrder(Reply)' = s /\ Cardinality(Reply)' = n /\ Totals' = Totals
    BY <1>1, StillThere
  <2>3. n \in Nat /\ s \in Seq(Rows) /\ Len(s) = n /\ z \in Int
    BY <1>1, <1>2, ReplyRows, AskIs
  <2>4. /\ shown = SubSeq(s, 1, t) /\ data = PageRows
        /\ z <= 0 => page = 0 /\ totalPage = 0
        /\ z > 0 => total \in Totals /\ totalPage = Pages(total, z)
        /\ ask.api = "orm" => total \in Totals
    BY <1>1, <2>1 DEF Walking
  <2>5. CASE z <= 0
    <3>1. page' = page /\ paging' = "end" /\ page = 0
      BY <1>1, <1>2, <2>4, <2>5
    <3>2. shown = <<>> /\ data = s
      <4>1. k = 0
        BY <2>3, <3>1
      <4>2. shown = <<>>
        BY <1>1, <2>4, <4>1, NoneShown
      <4>3. ~(Size > 0)
        BY <2>3, <2>5
      <4> QED BY <2>4, <4>2, <4>3 DEF PageRows
    <3>3. shown' = s
      BY <1>1, <2>3, <3>2
    <3>4. page' = 0 /\ totalPage' = 0 /\ total' = total /\ ask' = ask
      BY <1>1, <2>4, <2>5, <3>1
    <3>5. ~(Size' > 0)
      BY <2>2, <2>3, <2>5
    <3> QED BY <2>2, <2>4, <3>1, <3>3, <3>4, <3>5 DEF Walking
  <2>6. CASE z > 0
    <3>1. k \in Nat /\ z \in Nat \ {0} /\ (page + 1) * z = k + z
      <4>1. k \in Nat
        BY <1>2, <2>3, <2>6
      <4>2. (page + 1) * z = k + z
        BY <1>2, <2>3
      <4> QED BY <2>3, <2>6, <4>1, <4>2
    <3>2. data = SubSeq(s, k + 1, u)
      BY <2>4, <2>6 DEF PageRows
    <3>3. /\ u = IF k + z <= n THEN k + z ELSE n
          /\ t = IF k <= n THEN k ELSE n
      BY DEF Upto
    <3>a. total \in Nat /\ n <= total
      BY <1>1, <2>4, <2>6, ReplyRows, WantedRows DEF Totals
    <3>4. page + 1 < totalPage <=> k + z < total
      <4>1. page + 1 \in Nat
        BY <1>2
      <4>2. \A p \in Nat : p < Pages(total, z) <=> p * z < total
        <5> HIDE DEF n, z
        <5> QED BY <3>1, <3>a, PagesMean
      <4>3. page + 1 < totalPage <=> (page + 1) * z < total
        BY <2>4, <2>6, <4>1, <4>2
      <4> QED BY <3>1, <4>3
    <3> HIDE DEF s, n, z, k, t, u
    <3>6. shown' = SubSeq(s, 1, u)
      <4>1. CASE k <= n
        <5>1. t = k /\ u \in k .. n
          BY <2>3, <3>1, <3>3, <4>1
        <5>2. 1 \in 1 .. Len(s) + 1 /\ k \in 1 - 1 .. Len(s) /\ u \in k .. Len(s)
          BY <2>3, <3>1, <4>1, <5>1
        <5>3. SubSeq(s, 1, k) \o SubSeq(s, k + 1, u) = SubSeq(s, 1, u)
          BY <2>3, <5>2, ConcatAdjacentSubSeq
        <5> QED BY <1>1, <2>4, <3>2, <5>1, <5>3
      <4>2. CASE ~(k <= n)
        <5>1. t = n /\ u = n /\ n < k + 1
          BY <2>3, <3>1, <3>3, <4>2
        <5>2. SubSeq(s, k + 1, u) = <<>>
          BY <2>3, <3>1, <5>1, SubSeqEmpty
        <5>3. shown = s
          BY <2>3, <2>4, <5>1, SubSeqFull
        <5>4. SubSeq(s, 1, u) = s
          BY <2>3, <5>1, SubSeqFull
        <5>5. s \o <<>> = s
          BY <2>3, ConcatEmptySeq
        <5> QED BY <1>1, <3>2, <5>2, <5>3, <5>4, <5>5
      <4> QED BY <4>1, <4>2
    <3>7. CASE k + z < total
      <4>1. page' = page + 1 /\ paging' = "ask"
        BY <1>1, <3>4, <3>7
      <4>2. page' * Size' = k + z
        BY <2>2, <3>1, <4>1
      <4>3. Upto(page * Size)' = u
        BY <2>2, <3>3, <4>2 DEF Upto, n
      <4>4. shown' = SubSeq(InOrder(Reply)', 1, Upto(page * Size)')
        BY <2>2, <3>6, <4>3
      <4>5. ~(Size' <= 0)
        BY <2>2, <3>1
      <4> QED BY <4>1, <4>4, <4>5 DEF Walking
    <3>8. CASE ~(k + z < total)
      <4>1. page' = page /\ paging' = "end" /\ u = n
        <5>1. ~(k + z < n) /\ (k + z <= n => k + z = n)
          BY <2>3, <3>1, <3>8, <3>a
        <5> QED BY <1>1, <3>3, <3>4, <3>8, <5>1
      <4>2. shown' = InOrder(Reply)'
        BY <2>2, <2>3, <3>6, <4>1, SubSeqFull
      <4>3. total' \in Totals'
        <5>1. z > 0
          BY <3>1
        <5> QED BY <1>1, <2>2, <2>4, <5>1
      <4>4. ~(Size' <= 0)
        BY <2>2, <3>1
      <4> QED BY <4>1, <4>2, <4>3, <4>4 DEF Walking
    <3> QED BY <3>7, <3>8
  <2> QED BY <2>3, <2>5, <2>6
<1>5. paging' \notin {"count", "find"}
  BY <1>1
<1> QED BY <1>3, <1>4, <1>5 DEF PagingInv

LEMMA ChangeKeeps == ASSUME PagingInv, NEW r \in Rows, Change(r) PROVE PagingInv'
<1>1. /\ PagingTypeOK /\ moved' = TRUE
      /\ UNCHANGED <<ask, page, paging, data, total, totalPage, shown>>
      /\ table' = (IF r \in table THEN table \ {r} ELSE table \cup {r})
  BY DEF Change, PagingInv
<1>2. table' \subseteq Rows
  BY <1>1 DEF PagingTypeOK
<1>3. PagingTypeOK'
  BY <1>1, <1>2 DEF PagingTypeOK
<1>4. ~StandsStill'
  BY <1>1 DEF StandsStill
<1>5. ShouldPagingResult' <=> ShouldPagingResult
  BY <1>1 DEF ShouldPagingResult
<1> QED BY <1>1, <1>3, <1>4, <1>5 DEF PagingInv

LEMMA PagingStill == ASSUME PagingInv, UNCHANGED pagingVars PROVE PagingInv'
<1>1. UNCHANGED <<ask, table, page, paging, data, total, totalPage, shown, moved>>
  BY DEF pagingVars
<1>2. PagingTypeOK'
  BY <1>1 DEF PagingTypeOK, PagingInv
<1>3. ASSUME StandsStill' PROVE Walking'
  <2>1. StandsStill /\ Walking /\ PageRows' = PageRows
    BY <1>1, <1>3, StillThere DEF PagingInv
  <2>2. /\ Size' = Size /\ InOrder(Reply)' = InOrder(Reply) /\ Totals' = Totals
        /\ Upto(page * Size)' = Upto(page * Size)
    BY <1>1, StillThere
  <2>3. Pages(total, Size)' = Pages(total, Size)
    BY <1>1, <2>2 DEF Pages
  <2> QED BY <1>1, <2>1, <2>2, <2>3 DEF Walking
<1>4. ShouldPagingResult' <=> ShouldPagingResult
  BY <1>1 DEF ShouldPagingResult
<1> QED BY <1>1, <1>2, <1>3, <1>4 DEF PagingInv

LEMMA PagingSteps == ASSUME PagingInv, [PagingNext]_pagingVars PROVE PagingInv'
BY QueryKeeps, CountedByPageKeeps, CountedBySumKeeps, TriggerCountKeeps, TriggerFindKeeps,
   StatementFailsKeeps, TakeAnswerKeeps, ChangeKeeps, PagingStill DEF PagingNext

\* The invariant is inductive: every answer is of its page, and counts what is there.
LEMMA PagingAlways == PagingSpec => []PagingInv
BY PagingInits, PagingSteps, PTL DEF PagingSpec

\* The variables keep their types: no total or number of pages is negative.
THEOREM PagingTypeCorrect == PagingSpec => []PagingTypeOK
<1>1. PagingInv => PagingTypeOK
  BY DEF PagingInv
<1> QED BY <1>1, PagingAlways, PTL

\* The pages of a table that stands still are the whole of what was asked for, grouped as
\* it was asked for, once and in order, and the total is their number or, for a grouped
\* query, no less: for every table, page size, grouping and set of conditions, blank ones
\* among them (Query and PagingResult of rawquery.go, Trigger of orm).  Not of a request
\* with its own limit or offset, nor of one with a page size and no sum: see PagesExact.
THEOREM PagesAreExact == PagingSpec => []PagesExact
<1>1. PagingInv => PagesExact
  <2> SUFFICES ASSUME PagingInv, paging = "end", ~moved, ask.limit = 0, ask.offset = 0,
                      ask.size > 0 => ask.sums \/ ask.api = "orm"
               PROVE  /\ shown = InOrder(Grouped(Wanted))
                      /\ ask.api = "orm" \/ (ask.sums /\ ask.size # -1) =>
                           /\ total >= Len(shown)
                           /\ ask.group = {} => total = Len(shown)
    BY DEF PagesExact
  <2>1. Walking /\ PagingTypeOK
    BY DEF PagingInv, StandsStill
  <2>2. ask \in Asks
    BY <2>1 DEF PagingTypeOK
  <2>3. ask.sums /\ ask.size # -1 => ask.api = "orm" \/ Size > 0
    BY <2>2, AskIs
  <2>4. shown = InOrder(Reply) /\ (Size > 0 \/ ask.api = "orm" => total \in Totals)
    BY <2>1 DEF Walking
  <2>5. /\ Len(shown) = Cardinality(Reply) /\ Cardinality(Reply) \in Nat
        /\ Cardinality(Wanted) \in Nat /\ Cardinality(Reply) <= Cardinality(Wanted)
        /\ ask.group = {} => Cardinality(Reply) = Cardinality(Wanted)
    BY <2>1, <2>4, ReplyRows, WantedRows
  <2>6. total \in Totals => total >= Len(shown) /\ (ask.group = {} => total = Len(shown))
    BY <2>5 DEF Totals
  <2> QED BY <2>3, <2>4, <2>6 DEF Reply
<1> QED BY <1>1, PagingAlways, PTL

-----------------------------------------------------------------------------
(* The parts together                                                      *)

\* What one behaviour of the run does is, seen from each part, what that part does.
LEMMA DataSteps ==
  ASSUME [DataNext]_dataVars
  PROVE  /\ [EntitySyncNext]_syncVars /\ [CacheNext]_cacheVars /\ [ListCacheNext]_listVars
         /\ [HashNext]_hashVars /\ [FingerprintsNext]_fpVars /\ [PagingNext]_pagingVars
BY DEF DataNext, Alone, dataVars

\* Every behaviour of the run is a behaviour of each of its parts, so that what is proved
\* of a part holds of the run.
THEOREM DataParts ==
  DataSpec => /\ EntitySyncSpec /\ CacheSpec /\ ListCacheSpec
              /\ HashSpec /\ FingerprintsSpec /\ PagingSpec
<1>1. DataInit => /\ EntitySyncInit /\ CacheInit /\ ListCacheInit
                  /\ HashInit /\ FingerprintsInit /\ PagingInit
  BY DEF DataInit
<1>2. [DataNext]_dataVars =>
        /\ [EntitySyncNext]_syncVars /\ [CacheNext]_cacheVars /\ [ListCacheNext]_listVars
        /\ [HashNext]_hashVars /\ [FingerprintsNext]_fpVars /\ [PagingNext]_pagingVars
  BY DataSteps
<1> QED BY <1>1, <1>2, PTL
        DEF DataSpec, EntitySyncSpec, CacheSpec, ListCacheSpec, HashSpec, FingerprintsSpec,
            PagingSpec

\* The part that runs keeps the types of its variables.
THEOREM DataTypeCorrect == DataSpec => []PartsTypeOK
<1>1. DataSpec => [](part \in Parts)
  <2>1. DataInit => part \in Parts
    BY DEF DataInit
  <2>2. part \in Parts /\ [DataNext]_dataVars => (part \in Parts)'
    BY DEF DataNext, Alone, dataVars
  <2> QED BY <2>1, <2>2, PTL DEF DataSpec
<1>2. /\ part \in Parts /\ EntitySyncTypeOK /\ CacheMigrationTypeOK /\ ListCacheTypeOK
      /\ HashTypeOK /\ FingerprintsTypeOK /\ PagingTypeOK
      => PartsTypeOK
  BY DEF PartsTypeOK, Parts
<1> QED BY <1>1, <1>2, DataParts, EntitySyncTypeCorrect, CacheTypeCorrect,
           ListCacheTypeCorrect, HashTypeCorrect, FingerprintsTypeCorrect, PagingTypeCorrect,
           PTL
=============================================================================
