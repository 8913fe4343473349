----------------------------- MODULE RedisLocker -----------------------------
(***************************************************************************)
(* One resource of pkg/locker/redis.go: a redis key with a time to live,   *)
(* obtained with a fresh token and released only by whoever knows the      *)
(* token (bsm/redislock), and the fallback of redis.go:67 that deletes the *)
(* key when the release fails.  The lease is never extended.               *)
(* ginshared.RequestLocker holds such a lock around an HTTP request.       *)
(***************************************************************************)
EXTENDS Naturals

CONSTANTS
  Clients,      \* concurrent callers, in one process or several
  Free,         \* the value of an absent key
  Orphan,       \* a token nobody knows any more
  TTL,          \* timeout: the time to live of the key
  MaxRetry,     \* maxWait / WaitInteval
  RedisFails,   \* redis commands may fail
  Crashes       \* processes may die

ASSUME LockerAssumption ==
  /\ Free \notin Clients /\ Orphan \notin Clients /\ Free # Orphan
  /\ TTL \in Nat \ {0} /\ MaxRetry \in Nat
  /\ RedisFails \in BOOLEAN /\ Crashes \in BOOLEAN

VARIABLES
  owner,     \* whose token the key holds
  lease,     \* time the key has left
  pc,        \* per client: where its call is
  tries,     \* per client: retries left
  granted,   \* per client: what is left of the time it was granted (history)
  forced     \* a forced DEL has taken the key from somebody else (history)

vars == <<owner, lease, pc, tries, granted, forced>>

\* The types; in particular a caller retries maxWait / WaitInteval times at most
\* (redis.go:42-44), and neither key nor grant outlives the timeout.
TypeOK ==
  /\ owner \in Clients \cup {Free, Orphan}
  /\ lease \in 0 .. TTL
  /\ pc \in [Clients -> {"idle", "try", "hold", "release", "del"}]
  /\ tries \in [Clients -> 0 .. MaxRetry]
  /\ granted \in [Clients -> 0 .. TTL]
  /\ forced \in BOOLEAN

Init ==
  /\ owner = Free /\ lease = 0
  /\ pc = [c \in Clients |-> "idle"]
  /\ tries = [c \in Clients |-> 0]
  /\ granted = [c \in Clients |-> 0]
  /\ forced = FALSE

Goto(c, step) == pc' = [pc EXCEPT ![c] = step]

Tick ==
  /\ lease' = IF lease = 0 THEN 0 ELSE lease - 1
  /\ owner' = IF lease <= 1 THEN Free ELSE owner
  /\ granted' = [c \in Clients |-> IF granted[c] = 0 THEN 0 ELSE granted[c] - 1]
  /\ UNCHANGED <<pc, tries, forced>>

-----------------------------------------------------------------------------
(* WaitForLocker *)

\* Slip: a retry for the first attempt as well.
CallRetriesOnceMore(c) ==
  /\ pc[c] = "idle"
  /\ Goto(c, "try")
  /\ tries' = [tries EXCEPT ![c] = MaxRetry + 1]
  /\ UNCHANGED <<owner, lease, granted, forced>>

\* maxRetry of WaitForLocker; 0 when there is less to wait than an interval.
Call(c) ==
  /\ pc[c] = "idle"
  /\ Goto(c, "try")
  /\ tries' = [tries EXCEPT ![c] = MaxRetry]
  /\ UNCHANGED <<owner, lease, granted, forced>>

\* SET key token NX PX timeout
Obtain(c) ==
  /\ pc[c] = "try" /\ owner = Free
  /\ owner' = c /\ lease' = TTL
  /\ granted' = [granted EXCEPT ![c] = TTL]
  /\ Goto(c, "hold")
  /\ UNCHANGED <<tries, forced>>

\* Slip: a refused caller extends the lease it found.
BusyExtends(c) ==
  /\ pc[c] = "try" /\ owner # Free
  /\ tries[c] > 0
  /\ tries' = [tries EXCEPT ![c] = @ - 1]
  /\ lease' = TTL
  /\ UNCHANGED <<owner, pc, granted, forced>>

\* Slip: retries are not counted.
BusyForEver(c) ==
  /\ pc[c] = "try" /\ owner # Free
  /\ tries[c] > 0
  /\ UNCHANGED vars

\* Taken: try again after the back-off.
Busy(c) ==
  /\ pc[c] = "try" /\ owner # Free
  /\ tries[c] > 0
  /\ tries' = [tries EXCEPT ![c] = @ - 1]
  /\ UNCHANGED <<owner, lease, pc, granted, forced>>

\* No retry left, or the deadline the library makes of the timeout has passed:
\* ErrLocked.
GiveUp(c) ==
  /\ pc[c] = "try" /\ owner # Free
  /\ Goto(c, "idle")
  /\ UNCHANGED <<owner, lease, tries, granted, forced>>

\* The command fails, executed or not: the caller returns with the error.
ObtainError(c) ==
  /\ RedisFails /\ pc[c] = "try"
  /\ Goto(c, "idle")
  /\ \/ UNCHANGED <<owner, lease>>
     \/ owner = Free /\ owner' = Orphan /\ lease' = TTL
  /\ UNCHANGED <<tries, granted, forced>>

\* The caller has done its work, however long that took: defer release(ctx).
Finish(c) ==
  /\ pc[c] = "hold"
  /\ Goto(c, "release")
  /\ UNCHANGED <<owner, lease, tries, granted, forced>>

\* Slip: the token is not compared.
ReleaseAny(c) ==
  /\ pc[c] = "release"
  /\ owner' = Free /\ lease' = 0
  /\ granted' = [granted EXCEPT ![c] = 0]
  /\ Goto(c, "idle")
  /\ UNCHANGED <<tries, forced>>

\* Deletes the key if it still holds the token; otherwise ErrLockNotHeld, which
\* is reported as success.
Release(c) ==
  /\ pc[c] = "release"
  /\ \/ owner = c /\ owner' = Free /\ lease' = 0
     \/ owner # c /\ UNCHANGED <<owner, lease>>
  /\ granted' = [granted EXCEPT ![c] = 0]
  /\ Goto(c, "idle")
  /\ UNCHANGED <<tries, forced>>

\* The release fails, executed or not.
ReleaseError(c) ==
  /\ RedisFails /\ pc[c] = "release"
  /\ \/ UNCHANGED <<owner, lease>>
     \/ owner = c /\ owner' = Free /\ lease' = 0
  /\ granted' = [granted EXCEPT ![c] = 0]
  /\ Goto(c, "del")
  /\ UNCHANGED <<tries, forced>>

\* DEL key, whatever it holds by now.
ForceDel(c) ==
  /\ pc[c] = "del"
  /\ owner' = Free /\ lease' = 0
  /\ forced' = (forced \/ owner \notin {c, Free})
  /\ Goto(c, "idle")
  /\ UNCHANGED <<tries, granted>>

\* That fails too, unnoticed.
ForceDelError(c) ==
  /\ RedisFails /\ pc[c] = "del"
  /\ Goto(c, "idle")
  /\ UNCHANGED <<owner, lease, tries, granted, forced>>

Crash(c) ==
  /\ Crashes /\ pc[c] # "idle"
  /\ Goto(c, "idle")
  /\ owner' = IF owner = c THEN Orphan ELSE owner
  /\ granted' = [granted EXCEPT ![c] = 0]
  /\ UNCHANGED <<lease, tries, forced>>

ClientNext(c) ==
  \/ Call(c) \/ Obtain(c) \/ Busy(c) \/ GiveUp(c) \/ ObtainError(c) \/ Finish(c)
  \/ Release(c) \/ ReleaseError(c) \/ ForceDel(c) \/ ForceDelError(c) \/ Crash(c)

Next == Tick \/ \E c \in Clients : ClientNext(c)

Spec == Init /\ [][Next]_vars

\* Time passes and a call that has begun goes on; nobody has to call or to finish.
Fairness ==
  /\ WF_vars(Tick)
  /\ \A c \in Clients :
       /\ WF_vars(Obtain(c) \/ Busy(c) \/ (tries[c] = 0 /\ GiveUp(c)))
       /\ WF_vars(Release(c)) /\ WF_vars(ForceDel(c))

FairSpec == Spec /\ Fairness

-----------------------------------------------------------------------------
(* Properties *)

Holding(c) == pc[c] \in {"hold", "release"}

\* pkg/locker/README.md:7, "prevent concurrent access to shared resources": of two
\* callers inside, at most one is within the time it was granted; the other has
\* overstayed its timeout.  Lost replies, retries, late releases and crashes do not
\* break it; the DEL of redis.go:67, which may hit the key of another, is the only
\* step that can.
LeaseExclusive ==
  ~forced =>
    \A c, d \in Clients :
      Holding(c) /\ Holding(d) /\ granted[c] > 0 /\ granted[d] > 0 => c = d

\* pkg/locker/README.md:9, "lock with timeout to prevent deadlocks": the key of a
\* caller that died, or never learnt that it had won, does not stay for ever.
OrphanExpires == owner = Orphan ~> owner # Orphan

\* WaitForLocker comes back: with the lock, or with ErrLocked after its retries.
WaitEnds == \A c \in Clients : pc[c] = "try" ~> pc[c] # "try"
=============================================================================
