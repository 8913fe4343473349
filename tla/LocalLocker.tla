----------------------------- MODULE LocalLocker -----------------------------
(***************************************************************************)
(* One resource of pkg/locker/local.go, the locker of the ram build: a     *)
(* sync.Map from resource to mutex.  Lock loads the mutex, makes and       *)
(* stores one if there was none, and tries it.  The load and the store are *)
(* two operations.                                                         *)
(***************************************************************************)
EXTENDS Naturals

CONSTANTS
  Clients,    \* goroutines that call Lock
  NoMutex     \* nothing stored for the resource

VARIABLES
  stored,     \* the mutex the map holds for the resource
  mine,       \* per client: the mutex it works with
  locked,     \* the mutexes that are locked
  pc          \* per client: where its call is

vars == <<stored, mine, locked, pc>>

\* A mutex is named after the client that made it: once the map has an entry no
\* more are made, so a client makes at most one.
Mutexes == Clients

TypeOK ==
  /\ stored \in Mutexes \cup {NoMutex}
  /\ mine \in [Clients -> Mutexes \cup {NoMutex}]
  /\ locked \in SUBSET Mutexes
  /\ pc \in [Clients -> {"idle", "store", "try", "hold"}]

Init ==
  /\ stored = NoMutex
  /\ mine = [c \in Clients |-> NoMutex]
  /\ locked = {}
  /\ pc = [c \in Clients |-> "idle"]

Goto(c, step) == pc' = [pc EXCEPT ![c] = step]

\* ml.locker.Load(resource)
Load(c) ==
  /\ pc[c] = "idle"
  /\ \/ /\ stored = NoMutex
        /\ mine' = [mine EXCEPT ![c] = c] /\ Goto(c, "store")
     \/ /\ stored # NoMutex
        /\ mine' = [mine EXCEPT ![c] = stored] /\ Goto(c, "try")
  /\ UNCHANGED <<stored, locked>>

\* ml.locker.Store(resource, locker), whatever is there by now
Store(c) ==
  /\ pc[c] = "store"
  /\ stored' = mine[c]
  /\ Goto(c, "try")
  /\ UNCHANGED <<mine, locked>>

TryLock(c) ==
  /\ pc[c] = "try"
  /\ \/ /\ mine[c] \notin locked
        /\ locked' = locked \cup {mine[c]} /\ Goto(c, "hold")
     \/ mine[c] \in locked /\ Goto(c, "idle") /\ UNCHANGED locked
  /\ UNCHANGED <<stored, mine>>

Release(c) ==
  /\ pc[c] = "hold"
  /\ locked' = locked \ {mine[c]}
  /\ Goto(c, "idle")
  /\ UNCHANGED <<stored, mine>>

Next == \E c \in Clients : Load(c) \/ Store(c) \/ TryLock(c) \/ Release(c)

Spec == Init /\ [][Next]_vars

-----------------------------------------------------------------------------
(* Properties *)

Holding(c) == pc[c] = "hold"

\* pkg/locker/README.md:7, "prevent concurrent access to shared resources"
\* (redis_test.go:92 asserts it of two goroutines that ask at the same time): of
\* two callers, one at most holds the resource.
Exclusive == \A c, d \in Clients : Holding(c) /\ Holding(d) => c = d
=============================================================================
