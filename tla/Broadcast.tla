------------------------------ MODULE Broadcast ------------------------------
(***************************************************************************)
(* What a ChanAdaptor promises (pkg/core/chanAdaptor.go): every accepted   *)
(* message reaches every receiver, once, in the order of acceptance, and   *)
(* no receiver is more than one message ahead of another.  Messages are    *)
(* numbered in the order in which they are accepted.                       *)
(***************************************************************************)
EXTENDS Naturals, Sequences

CONSTANTS
  Receivers,   \* the registered receivers
  MaxMsgs      \* bound on the messages accepted

VARIABLES
  accepted,    \* number of messages accepted so far
  got,         \* per receiver: the messages it was handed, in order
  open         \* no one has closed the adaptor

bvars == <<accepted, got, open>>

BInit ==
  /\ accepted = 0
  /\ got = [r \in Receivers |-> <<>>]
  /\ open = TRUE

Accept ==
  /\ open /\ accepted < MaxMsgs
  /\ accepted' = accepted + 1
  /\ UNCHANGED <<got, open>>

\* The next message goes to a receiver no other receiver is behind.
HandOver(r) ==
  /\ Len(got[r]) < accepted
  /\ \A s \in Receivers : Len(got[r]) <= Len(got[s])
  /\ got' = [got EXCEPT ![r] = Append(@, Len(@) + 1)]
  /\ UNCHANGED <<accepted, open>>

Shut == open /\ open' = FALSE /\ UNCHANGED <<accepted, got>>

BNext == Accept \/ Shut \/ \E r \in Receivers : HandOver(r)

\* What may happen.
BSafe == BInit /\ [][BNext]_bvars

\* Accepted messages are handed over whether or not the adaptor is closed.
BSpec ==
  /\ BSafe
  /\ \A r \in Receivers : WF_bvars(HandOver(r))
=============================================================================
