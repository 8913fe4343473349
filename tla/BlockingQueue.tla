---------------------------- MODULE BlockingQueue ----------------------------
(***************************************************************************)
(* The unbounded queue of pkg/core/blockingQueue.go: one mutex, one        *)
(* condition variable.  What a method does while it holds the mutex is one *)
(* step; cond.Wait gives the mutex up, so a Pop that has to wait is        *)
(* several steps, and any other caller may get the mutex before the Pop    *)
(* that was woken for an item.                                             *)
(*                                                                         *)
(* An item is its number in the order in which Push accepted it.           *)
(***************************************************************************)
EXTENDS Naturals, Sequences, FiniteSets

CONSTANTS
  Consumers,   \* goroutines that Pop
  MaxItems     \* bound on the items pushed

ASSUME QueueAssumption == MaxItems \in Nat /\ IsFiniteSet(Consumers)

VARIABLES
  data,      \* BlockingQueue.data
  shut,      \* BlockingQueue.closed
  waiters,   \* the goroutines in cond.Wait
  woken,     \* signalled, and waiting for the mutex
  pushed,    \* number of items accepted (history)
  caught     \* the Pops that a Clear found waiting and that have not returned
             \* since (history)

queueVars == <<data, shut, waiters, woken, pushed, caught>>

QueueTypeOK ==
  /\ data \in Seq(1 .. MaxItems)
  /\ shut \in BOOLEAN
  /\ waiters \in SUBSET Consumers
  /\ woken \in SUBSET (Consumers \ waiters)
  /\ pushed \in 0 .. MaxItems
  /\ caught \in SUBSET Consumers

QueueInit ==
  /\ data = <<>>
  /\ shut = FALSE
  /\ waiters = {}
  /\ woken = {}
  /\ pushed = 0
  /\ caught = {}

-----------------------------------------------------------------------------

\* cond.Signal: one waiter, if there is any, moves on to compete for the mutex.
Signal ==
  \/ waiters = {} /\ UNCHANGED <<waiters, woken>>
  \/ \E c \in waiters : waiters' = waiters \ {c} /\ woken' = woken \cup {c}

\* Slip: Push signals only when the queue was empty.
PushSignalsFirst ==
  /\ ~shut
  /\ pushed < MaxItems
  /\ data' = Append(data, pushed + 1)
  /\ pushed' = pushed + 1
  /\ IF data = <<>> THEN Signal ELSE UNCHANGED <<waiters, woken>>
  /\ UNCHANGED <<shut, caught>>

\* Push on a closed queue returns ErrQueueClosed and changes nothing.
Push ==
  /\ ~shut
  /\ pushed < MaxItems
  /\ data' = Append(data, pushed + 1)
  /\ pushed' = pushed + 1
  /\ Signal
  /\ UNCHANGED <<shut, caught>>

\* With the mutex: take the head; or, empty and closed, return (zero, false);
\* or, empty and open, wait.
TakeOrWait(c) ==
  \/ /\ data # <<>>
     /\ data' = Tail(data)
     /\ caught' = caught \ {c}
     /\ UNCHANGED waiters
  \/ /\ data = <<>> /\ shut
     /\ caught' = caught \ {c}
     /\ UNCHANGED <<data, waiters>>
  \/ /\ data = <<>> /\ ~shut
     /\ waiters' = waiters \cup {c}
     /\ UNCHANGED <<data, caught>>

\* Pop is called.
EnterPop(c) ==
  /\ c \notin waiters \cup woken
  /\ TakeOrWait(c)
  /\ UNCHANGED <<shut, woken, pushed>>

\* cond.Wait returns with the mutex and the loop looks again.
ResumePop(c) ==
  /\ c \in woken
  /\ woken' = woken \ {c}
  /\ TakeOrWait(c)
  /\ UNCHANGED <<shut, pushed>>

\* Clear drops what is queued.  It signals nobody.
Clear ==
  /\ data' = <<>>
  /\ caught' = caught \cup waiters
  /\ UNCHANGED <<shut, waiters, woken, pushed>>

\* Slip: Close wakes one.
CloseWakesOne ==
  /\ shut' = TRUE
  /\ data' = <<>>
  /\ Signal
  /\ UNCHANGED <<pushed, caught>>

\* Close drops what is queued and wakes everyone.
Close ==
  /\ shut' = TRUE
  /\ data' = <<>>
  /\ waiters' = {}
  /\ woken' = woken \cup waiters
  /\ UNCHANGED <<pushed, caught>>

QueueNext ==
  Push \/ Clear \/ Close \/ \E c \in Consumers : EnterPop(c) \/ ResumePop(c)

QueueSpec == QueueInit /\ [][QueueNext]_queueVars

\* A goroutine that was woken gets the mutex.  Nobody owes a Push or a Close.
QueueFairness == \A c \in Consumers : WF_queueVars(ResumePop(c))

QueueFairSpec == QueueSpec /\ QueueFairness

-----------------------------------------------------------------------------
(* Properties *)

\* Whoever waits while items are queued has been forgotten by nobody: for every
\* item there is a goroutine already on its way to it (Push signals once per item,
\* blockingQueue.go:38, and the woken one may find the item gone).
NoLostWakeup == waiters # {} => Len(data) <= Cardinality(woken)

\* Close makes every Pop return (blockingQueue.go:77).
CloseReleasesAll ==
  \A c \in Consumers :
    shut /\ c \in waiters \cup woken ~> c \notin waiters \cup woken

\* blockingQueue.go:43 (Pop): "blocks until there is data or the queue is cleared
\* or closed": a Pop that Clear finds waiting returns.
ClearReleasesPop == \A c \in Consumers : c \in caught ~> c \notin caught
=============================================================================
