----------------------------- MODULE ChanAdaptor -----------------------------
(***************************************************************************)
(* The in-process fan-out of pkg/core/chanAdaptor.go: producers Push into  *)
(* one buffered channel; the goroutine in Start takes a message at a time  *)
(* and sends it to the unbuffered channel of each receiver in turn, in map *)
(* order; a goroutine per receiver runs its handler.  The duplicate filter *)
(* in front of the channel is off (DedupEnabled = false).                  *)
(*                                                                         *)
(* A message is its number in the order of acceptance.                     *)
(*                                                                         *)
(* A panic ends the process: once fatal is set no action is enabled.       *)
(***************************************************************************)
EXTENDS Naturals, Sequences, FiniteSets

CONSTANTS
  Receivers,   \* the names given to Sub / Subscripter
  Producers,   \* goroutines that Push
  Pumps,       \* calls of Start
  Buf,         \* capacity of the sender channel
  MaxMsgs,     \* bound on the messages accepted
  NoReceiver,  \* no receiver
  Liberties    \* call orders the code does not rule out: see LibertyKinds

\* lateSub: Sub races with Start.  latePush: Push during or after a close.
\* closeAgain: Stop and the stopping handler both close.
\* startAgain: Start is called more than once.
LibertyKinds == {"lateSub", "latePush", "closeAgain", "startAgain"}

ASSUME SizesAssumption ==
  Buf \in Nat \ {0} /\ MaxMsgs \in Nat /\ IsFiniteSet(Producers)
ASSUME LibertiesAssumption == Liberties \subseteq LibertyKinds
ASSUME OneStartAssumption ==
  "startAgain" \notin Liberties => \E p \in Pumps : Pumps = {p}
ASSUME NoReceiverAssumption == NoReceiver \notin Receivers

VARIABLES
  accepted,   \* messages that entered the sender channel
  taken,      \* messages taken out of it
  closed,     \* close(sender) has been called
  started,    \* ChanAdaptor.Started
  sub,        \* per receiver: where its call of Sub is
  got,        \* per receiver: the messages handed to it (history)
  handler,    \* per receiver: what its goroutine is doing
  rclosed,    \* the receivers whose channel has been closed
  push,       \* per producer: blocked in, or about to do, sender <- data
  pump,       \* per Start: where it is
  cur,        \* per Start: the message in hand
  todo,       \* per Start: the receivers the range has yet to visit
  target,     \* per Start: the receiver the range is at
  fatal       \* the panic that ended the process

sendVars == <<accepted, closed, push>>
recvVars == <<sub, got, handler, rclosed>>
pumpVars == <<taken, pump, cur, todo, target>>
vars == <<accepted, taken, closed, started, sub, got, handler, rclosed,
          push, pump, cur, todo, target, fatal>>

\* Registered: the receivers in the map.
Registered == {r \in Receivers : sub[r] = "done"}

\* check: has read Started = FALSE.  send: blocked in c <- v for some receiver.
PumpStep == {"idle", "check", "take", "range", "send", "close", "done"}

TypeOK ==
  /\ accepted \in 0 .. MaxMsgs /\ taken \in 0 .. accepted
  /\ closed \in BOOLEAN /\ started \in BOOLEAN
  /\ sub \in [Receivers -> {"new", "check", "done", "refused"}]
  /\ got \in [Receivers -> Seq(1 .. MaxMsgs)]
  /\ handler \in [Receivers -> {"none", "ready", "busy", "ended"}]
  /\ rclosed \subseteq Receivers
  /\ push \in [Producers -> BOOLEAN]
  /\ pump \in [Pumps -> PumpStep]
  /\ cur \in [Pumps -> 0 .. MaxMsgs]
  /\ todo \in [Pumps -> SUBSET Receivers]
  /\ target \in [Pumps -> Receivers \cup {NoReceiver}]
  /\ fatal \in {"none", "send on closed", "close of closed", "map race"}

Init ==
  /\ accepted = 0 /\ taken = 0
  /\ closed = FALSE /\ started = FALSE
  /\ sub = [r \in Receivers |-> "new"]
  /\ got = [r \in Receivers |-> <<>>]
  /\ handler = [r \in Receivers |-> "none"]
  /\ rclosed = {}
  /\ push = [p \in Producers |-> FALSE]
  /\ pump = [p \in Pumps |-> "idle"]
  /\ cur = [p \in Pumps |-> 0]
  /\ todo = [p \in Pumps |-> {}]
  /\ target = [p \in Pumps |-> NoReceiver]
  /\ fatal = "none"

Alive == fatal = "none"

Die(reason) ==
  /\ fatal' = reason
  /\ UNCHANGED <<sendVars, recvVars, pumpVars, started>>

-----------------------------------------------------------------------------
(* Sub and Subscripter: Started is read before the lock is taken.          *)

SubAllowed == "lateSub" \in Liberties \/ \A p \in Pumps : pump[p] = "idle"

CallSub(r) ==
  /\ Alive /\ SubAllowed /\ sub[r] = "new"
  /\ sub' = [sub EXCEPT ![r] = IF started THEN "refused" ELSE "check"]
  /\ UNCHANGED <<sendVars, got, handler, rclosed, pumpVars, started, fatal>>

\* The receiver enters the map.  A range in progress may or may not visit it;
\* writing the map under a range is a data race the runtime may detect.
AddReceiver(r) ==
  /\ Alive /\ SubAllowed /\ sub[r] = "check"
  /\ \/ /\ sub' = [sub EXCEPT ![r] = "done"]
        /\ handler' = [handler EXCEPT ![r] = "ready"]
        /\ \E visit \in SUBSET {p \in Pumps : pump[p] \in {"range", "close"}} :
             todo' = [p \in Pumps |-> todo[p] \cup IF p \in visit THEN {r} ELSE {}]
        /\ UNCHANGED <<sendVars, got, rclosed, taken, pump, cur, target, started, fatal>>
     \/ /\ \E p \in Pumps : pump[p] \in {"range", "close"}
        /\ Die("map race")

-----------------------------------------------------------------------------
(* Push *)

BeginPush(p) ==
  /\ Alive /\ ~push[p]
  /\ closed => "latePush" \in Liberties
  /\ accepted + Cardinality({q \in Producers : push[q]}) < MaxMsgs
  /\ push' = [push EXCEPT ![p] = TRUE]
  /\ UNCHANGED <<accepted, closed, recvVars, pumpVars, started, fatal>>

\* ca.sender <- data: waits for room; panics if the channel is closed.
Send(p) ==
  /\ Alive /\ push[p]
  /\ \/ closed /\ Die("send on closed")
     \/ /\ ~closed /\ accepted - taken < Buf
        /\ accepted' = accepted + 1
        /\ push' = [push EXCEPT ![p] = FALSE]
        /\ UNCHANGED <<closed, recvVars, pumpVars, started, fatal>>

CloseAllowed ==
  /\ closed => "closeAgain" \in Liberties
  /\ "latePush" \in Liberties \/ \A p \in Producers : ~push[p]

CloseSender ==
  \/ closed /\ Die("close of closed")
  \/ /\ ~closed /\ closed' = TRUE
     /\ UNCHANGED <<accepted, push, recvVars, pumpVars, fatal>>

\* Slip: Stop closes the receivers itself.
StopEverything ==
  /\ Alive /\ CloseAllowed /\ ~closed
  /\ closed' = TRUE /\ started' = FALSE /\ rclosed' = Registered
  /\ UNCHANGED <<accepted, push, sub, got, handler, pumpVars, fatal>>

Stop ==
  /\ Alive /\ CloseAllowed /\ CloseSender
  /\ started' = IF closed THEN started ELSE FALSE

\* The handler NewChanAdaptor registers with OnServiceStopping.
ServiceStopping ==
  Alive /\ CloseAllowed /\ CloseSender /\ UNCHANGED started

-----------------------------------------------------------------------------
(* Start *)

CallStart(p) ==
  /\ Alive /\ pump[p] = "idle"
  /\ "lateSub" \in Liberties \/ Registered = Receivers
  /\ pump' = [pump EXCEPT ![p] = IF started THEN "done" ELSE "check"]
  /\ UNCHANGED <<sendVars, recvVars, taken, cur, todo, target, started, fatal>>

MarkStarted(p) ==
  /\ Alive /\ pump[p] = "check"
  /\ started' = TRUE
  /\ pump' = [pump EXCEPT ![p] = "take"]
  /\ UNCHANGED <<sendVars, recvVars, taken, cur, todo, target, fatal>>

\* for v := range ca.sender: the next message, or the end of a drained channel.
Take(p) ==
  /\ Alive /\ pump[p] = "take"
  /\ \/ /\ taken < accepted
        /\ taken' = taken + 1
        /\ cur' = [cur EXCEPT ![p] = taken + 1]
        /\ pump' = [pump EXCEPT ![p] = "range"]
     \/ /\ taken = accepted /\ closed
        /\ pump' = [pump EXCEPT ![p] = "close"]
        /\ UNCHANGED <<taken, cur>>
  /\ todo' = [todo EXCEPT ![p] = Registered]
  /\ UNCHANGED <<sendVars, recvVars, target, started, fatal>>

\* Slip: the range may come back to a receiver.
VisitAgain(p, r) ==
  /\ Alive /\ pump[p] = "range" /\ r \in todo[p]
  /\ target' = [target EXCEPT ![p] = r]
  /\ pump' = [pump EXCEPT ![p] = "send"]
  /\ UNCHANGED <<sendVars, recvVars, taken, cur, todo, started, fatal>>

\* The range over the map comes to r, in no particular order, and blocks there.
Visit(p, r) ==
  /\ Alive /\ pump[p] = "range" /\ r \in todo[p]
  /\ target' = [target EXCEPT ![p] = r]
  /\ todo' = [todo EXCEPT ![p] = @ \ {r}]
  /\ pump' = [pump EXCEPT ![p] = "send"]
  /\ UNCHANGED <<sendVars, recvVars, taken, cur, started, fatal>>

\* Slip: a receiver that is not ready misses the message (select with default).
HandOverOrSkip(p, r) ==
  /\ Alive /\ pump[p] = "send" /\ target[p] = r
  /\ IF handler[r] = "ready" /\ r \notin rclosed
     THEN /\ got' = [got EXCEPT ![r] = Append(@, cur[p])]
          /\ handler' = [handler EXCEPT ![r] = "busy"]
     ELSE UNCHANGED <<got, handler>>
  /\ pump' = [pump EXCEPT ![p] = "range"]
  /\ UNCHANGED <<sendVars, sub, rclosed, taken, cur, todo, target, started, fatal>>

\* c <- v: the goroutine of the receiver takes the message and runs its handler.
HandOver(p, r) ==
  /\ Alive /\ pump[p] = "send" /\ target[p] = r
  /\ \/ r \in rclosed /\ Die("send on closed")
     \/ /\ r \notin rclosed /\ handler[r] = "ready"
        /\ got' = [got EXCEPT ![r] = Append(@, cur[p])]
        /\ handler' = [handler EXCEPT ![r] = "busy"]
        /\ pump' = [pump EXCEPT ![p] = "range"]
        /\ UNCHANGED <<sendVars, sub, rclosed, taken, cur, todo, target, started, fatal>>

\* Slip: the receivers are not closed.
EndRangeUnclosed(p) ==
  /\ Alive
  /\ \/ pump[p] = "range" /\ todo[p] = {} /\ pump' = [pump EXCEPT ![p] = "take"]
     \/ pump[p] = "close" /\ pump' = [pump EXCEPT ![p] = "done"]
  /\ UNCHANGED <<sendVars, recvVars, taken, cur, todo, target, started, fatal>>

EndRange(p) ==
  /\ Alive /\ todo[p] = {}
  /\ \/ pump[p] = "range" /\ pump' = [pump EXCEPT ![p] = "take"]
     \/ pump[p] = "close" /\ pump' = [pump EXCEPT ![p] = "done"]
  /\ UNCHANGED <<sendVars, recvVars, taken, cur, todo, target, started, fatal>>

CloseReceiver(p, r) ==
  /\ Alive /\ pump[p] = "close" /\ r \in todo[p]
  /\ \/ r \in rclosed /\ Die("close of closed")
     \/ /\ r \notin rclosed
        /\ rclosed' = rclosed \cup {r}
        /\ todo' = [todo EXCEPT ![p] = @ \ {r}]
        /\ UNCHANGED <<sendVars, sub, got, handler, taken, pump, cur, target, started, fatal>>

PumpNext(p) ==
  \/ CallStart(p) \/ MarkStarted(p) \/ Take(p) \/ EndRange(p)
  \/ \E r \in Receivers : Visit(p, r) \/ HandOver(p, r) \/ CloseReceiver(p, r)

-----------------------------------------------------------------------------
(* The goroutine of Subscripter *)

\* fn(v) returns; its error is logged and dropped.
HandlerReturns(r) ==
  /\ Alive /\ handler[r] = "busy"
  /\ handler' = [handler EXCEPT ![r] = "ready"]
  /\ UNCHANGED <<sendVars, sub, got, rclosed, pumpVars, started, fatal>>

HandlerEnds(r) ==
  /\ Alive /\ handler[r] = "ready" /\ r \in rclosed
  /\ handler' = [handler EXCEPT ![r] = "ended"]
  /\ UNCHANGED <<sendVars, sub, got, rclosed, pumpVars, started, fatal>>

ReceiverNext(r) == HandlerReturns(r) \/ HandlerEnds(r)

-----------------------------------------------------------------------------

Next ==
  \/ \E r \in Receivers : CallSub(r) \/ AddReceiver(r) \/ ReceiverNext(r)
  \/ \E p \in Producers : BeginPush(p) \/ Send(p)
  \/ \E p \in Pumps : PumpNext(p)
  \/ Stop \/ ServiceStopping

Spec == Init /\ [][Next]_vars

\* Receivers are registered, the adaptor is started, handlers return.  Nobody
\* owes the adaptor a Push or a close.
Fairness ==
  /\ \A r \in Receivers :
       WF_vars(CallSub(r)) /\ WF_vars(AddReceiver(r)) /\ WF_vars(ReceiverNext(r))
  /\ \A p \in Pumps : WF_vars(PumpNext(p))
  /\ \A p \in Producers : WF_vars(Send(p))

FairSpec == Spec /\ Fairness

-----------------------------------------------------------------------------
(* Properties *)

\* As long as callers keep to one Start, one close and no Push after it, none of
\* the channel operations panics.
NoPanic == fatal = "none"

\* Even with two pumps, late receivers and pushes during a close, no receiver is
\* handed the same message twice.
HandedOnce ==
  \A r \in Receivers : \A i, j \in 1 .. Len(got[r]) : i # j => got[r][i] # got[r][j]

\* A close of the adaptor ends every receiver's goroutine (chanAdaptor.go:152-155).
CloseEndsHandlers == closed ~> \A r \in Receivers : handler[r] = "ended"

\* The adaptor implements the broadcast of module Broadcast.
Abstract == INSTANCE Broadcast WITH open <- ~closed
ImplementsBroadcast == Abstract!BSpec
=============================================================================
