-------------------------- MODULE RedisLocker_proofs --------------------------
(***************************************************************************)
(* What the lock of redis.go guarantees for every number of callers, every *)
(* timeout and every number of retries, with redis failing and processes   *)
(* dying at any step: as long as no DEL of redis.go:67 has hit the key of  *)
(* somebody else, a caller that is within the time it was granted still    *)
(* owns the key, so there is one of them at most.                          *)
(***************************************************************************)
EXTENDS RedisLocker, TLAPS

KeyLives == (owner = Free) <=> (lease = 0)

\* Whoever has time left is inside: a release, done or failed, and a death end it.
GrantedInside == \A c \in Clients : granted[c] > 0 => Holding(c)

\* The key of a caller within its time is still its own, and outlives that time.
GrantedOwns ==
  ~forced => \A c \in Clients : granted[c] > 0 => owner = c /\ granted[c] <= lease

IInv ==
  /\ TypeOK
  /\ KeyLives
  /\ GrantedInside
  /\ GrantedOwns

-----------------------------------------------------------------------------

\* The invariant holds at the start.
LEMMA InvInit == Init => IInv
<1> SUFFICES ASSUME Init PROVE IInv
  OBVIOUS
<1>1. TypeOK
  <2>1. 0 \in 0 .. TTL /\ 0 \in 0 .. MaxRetry
    BY LockerAssumption
  <2> QED BY <2>1 DEF Init, TypeOK
<1>2. KeyLives /\ GrantedInside /\ GrantedOwns
  BY DEF Init, KeyLives, GrantedInside, GrantedOwns
<1> QED BY <1>1, <1>2 DEF IInv

\* The key and all grants age together, so no grant outlasts its key.
LEMMA InvTick == IInv /\ Tick => IInv'
<1> SUFFICES ASSUME IInv, Tick PROVE IInv'
  OBVIOUS
<1> USE LockerAssumption DEF IInv, TypeOK, Tick
<1>1. TypeOK'
  OBVIOUS
<1>2. KeyLives'
  BY DEF KeyLives
<1>3. GrantedInside'
  BY DEF GrantedInside, Holding
<1>4. GrantedOwns'
  BY DEF GrantedOwns, KeyLives
<1> QED BY <1>1, <1>2, <1>3, <1>4

\* A step of one caller.  The key leaves its owner through a release, a death or a
\* DEL; the first two end the grant with it, and a DEL that does not is forced.
LEMMA InvClient ==
  ASSUME IInv, NEW c \in Clients, ClientNext(c)
  PROVE  IInv'
<1> USE LockerAssumption
    DEF IInv, TypeOK, KeyLives, GrantedInside, GrantedOwns, Holding, Goto
<1>1. CASE Call(c)           BY <1>1 DEF Call
<1>2. CASE Obtain(c)         BY <1>2 DEF Obtain
<1>3. CASE Busy(c)           BY <1>3 DEF Busy
<1>4. CASE GiveUp(c)         BY <1>4 DEF GiveUp
<1>5. CASE ObtainError(c)    BY <1>5 DEF ObtainError
<1>6. CASE Finish(c)         BY <1>6 DEF Finish
<1>7. CASE Release(c)        BY <1>7 DEF Release
<1>8. CASE ReleaseError(c)   BY <1>8 DEF ReleaseError
<1>9. CASE ForceDel(c)
  <2>1. CASE owner \in {c, Free}
    <3>1. forced' = forced  BY <1>9, <2>1 DEF ForceDel
    <3> QED BY <1>9, <2>1, <3>1 DEF ForceDel
  <2>2. CASE owner \notin {c, Free}
    <3>1. forced'  BY <1>9, <2>2 DEF ForceDel
    <3> QED BY <1>9, <3>1 DEF ForceDel
  <2> QED BY <2>1, <2>2
<1>10. CASE ForceDelError(c) BY <1>10 DEF ForceDelError
<1>11. CASE Crash(c)         BY <1>11 DEF Crash
<1> QED
  BY <1>1, <1>2, <1>3, <1>4, <1>5, <1>6, <1>7, <1>8, <1>9, <1>10, <1>11
     DEF ClientNext

\* The inductive invariant holds throughout.
LEMMA Invariance == Spec => []IInv
<1>1. IInv /\ [Next]_vars => IInv'
  <2> SUFFICES ASSUME IInv, [Next]_vars PROVE IInv'
    OBVIOUS
  <2>1. CASE Tick  BY <2>1, InvTick
  <2>2. ASSUME NEW c \in Clients, ClientNext(c) PROVE IInv'
    BY <2>2, InvClient
  <2>3. CASE UNCHANGED vars
    BY <2>3 DEF vars, IInv, TypeOK, KeyLives, GrantedInside, GrantedOwns, Holding
  <2> QED BY <2>1, <2>2, <2>3 DEF Next
<1> QED BY <1>1, InvInit, PTL DEF Spec

\* The variables keep their types.
THEOREM LockerTypeCorrect == Spec => []TypeOK
<1>1. IInv => TypeOK  BY DEF IInv
<1> QED BY <1>1, Invariance, PTL

\* pkg/locker/README.md:7: of two callers inside, one at most is within the time it was
\* granted, whatever fails, unless a forced DEL (redis.go:67) hit another's key.
THEOREM LockExcludes == Spec => []LeaseExclusive
<1>1. IInv => LeaseExclusive
  BY DEF IInv, GrantedOwns, LeaseExclusive
<1> QED BY <1>1, Invariance, PTL
=============================================================================
