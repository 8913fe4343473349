-------------------------- MODULE ChanAdaptor_proofs --------------------------
(***************************************************************************)
(* The fan-out of chanAdaptor.go, for every set of receivers, producers    *)
(* and Starts and every capacity.  Whatever the order of the calls, no     *)
(* receiver is handed a message twice.  And where callers keep to the      *)
(* order the adaptor expects - receivers first, one Start, no Push during  *)
(* or after the one close - nothing panics, and the adaptor implements the *)
(* broadcast.                                                              *)
(***************************************************************************)
EXTENDS ChanAdaptor, FiniteSetTheorems, SequenceTheorems, TLAPS

Pushing == {p \in Producers : push[p]}

\* A message is promised before it is sent: the bound on messages is a bound on both.
Bounded == accepted + Cardinality(Pushing) <= MaxMsgs

\* The pump p has a message in hand.
InHand(p) == pump[p] \in {"range", "send"}

Has(r, m) == \E i \in 1 .. Len(got[r]) : got[r][i] = m

\* Only registered receivers are visited, and one that is being visited is off the list.
VisitsRegistered ==
  /\ \A r \in Receivers \ Registered : got[r] = <<>>
  /\ \A p \in Pumps :
       /\ todo[p] \subseteq Registered
       /\ pump[p] = "send" => target[p] \in Registered \ todo[p]

\* No two pumps have the same message in hand, and no receiver has got one that is still
\* in the channel.
OneHandEach ==
  /\ \A r \in Receivers : \A i \in 1 .. Len(got[r]) : got[r][i] <= taken
  /\ \A p \in Pumps : InHand(p) => cur[p] \in 1 .. taken
  /\ \A p, q \in Pumps : InHand(p) /\ InHand(q) /\ p # q => cur[p] # cur[q]

\* The pump p has a message in hand that it has yet to bring to r, or is bringing it.
Owed(p, r) == InHand(p) /\ (r \in todo[p] \/ (pump[p] = "send" /\ target[p] = r))

\* Who is still to be visited with a message has not got it.
ToVisitLacks == \A p \in Pumps, r \in Receivers : Owed(p, r) => ~Has(r, cur[p])

HandedInv ==
  /\ TypeOK
  /\ Bounded
  /\ VisitsRegistered
  /\ OneHandEach
  /\ ToVisitLacks
  /\ HandedOnce

-----------------------------------------------------------------------------

\* The invariant holds at the start.
LEMMA HandedInit == Init => HandedInv
<1> SUFFICES ASSUME Init PROVE HandedInv
  OBVIOUS
<1>1. TypeOK
  <2>1. 0 \in 0 .. 0 /\ 0 \in 0 .. MaxMsgs /\ <<>> \in Seq(1 .. MaxMsgs)
    BY SizesAssumption
  <2> QED BY <2>1 DEF Init, TypeOK, PumpStep
<1>2. Bounded
  <2>1. Pushing = {}
    BY DEF Init, Pushing
  <2> QED BY <2>1, FS_EmptySet, SizesAssumption DEF Init, Bounded
<1>3. \A r \in Receivers : got[r] = <<>> /\ Len(got[r]) = 0
  BY DEF Init
<1>4. HandedOnce
  BY <1>3 DEF HandedOnce
<1>5. OneHandEach
  BY <1>3 DEF Init, OneHandEach, InHand
<1> QED
  BY <1>1, <1>2, <1>4, <1>5 DEF Init, HandedInv, VisitsRegistered, ToVisitLacks, Owed, InHand

LEMMA Counts ==
  ASSUME TypeOK
  PROVE  /\ accepted \in Nat /\ taken \in Nat /\ MaxMsgs \in Nat
         /\ taken <= accepted /\ accepted <= MaxMsgs
<1>1. MaxMsgs \in Nat
  BY SizesAssumption DEF SizesAssumption
<1>2. accepted \in 0 .. MaxMsgs /\ taken \in 0 .. accepted
  BY DEF TypeOK
<1> QED BY ONLY <1>1, <1>2

\* A panic changes nothing but fatal.
LEMMA DeadKeeps ==
  ASSUME HandedInv, NEW reason \in {"send on closed", "close of closed", "map race"}, Die(reason)
  PROVE  HandedInv'
<1>1. UNCHANGED <<accepted, taken, closed, started, sub, got, handler, rclosed, push, pump,
                  cur, todo, target>>
  BY DEF Die, sendVars, recvVars, pumpVars
<1>2. TypeOK'
  BY <1>1 DEF HandedInv, TypeOK, Die
<1>3. Bounded' /\ VisitsRegistered' /\ OneHandEach' /\ ToVisitLacks' /\ HandedOnce'
  BY <1>1, ZenonT(30) DEF HandedInv, Bounded, Pushing, VisitsRegistered, Registered, OneHandEach,
              InHand, ToVisitLacks, Owed, Has, HandedOnce
<1> QED BY <1>2, <1>3 DEF HandedInv

\* Receivers subscribe and run their handlers.
LEMMA ReceiverTypes ==
  ASSUME HandedInv, NEW r \in Receivers, CallSub(r) \/ AddReceiver(r) \/ ReceiverNext(r)
  PROVE  TypeOK'
<1>1. TypeOK
  BY DEF HandedInv
<1>2. CASE CallSub(r)
  <2>1. sub' \in [Receivers -> {"new", "check", "done", "refused"}]
    BY <1>1, <1>2 DEF CallSub, TypeOK
  <2> QED BY <1>1, <1>2, <2>1 DEF CallSub, TypeOK, sendVars, pumpVars
<1>3. CASE AddReceiver(r)
  <2>1. CASE Die("map race")
    BY <2>1, DeadKeeps DEF HandedInv
  <2>2. CASE ~Die("map race")
    <3>1. PICK visit \in SUBSET Pumps :
            todo' = [p \in Pumps |-> todo[p] \cup IF p \in visit THEN {r} ELSE {}]
      BY <1>3, <2>2 DEF AddReceiver
    <3>2. todo' \in [Pumps -> SUBSET Receivers]
      BY <1>1, <3>1 DEF TypeOK
    <3>3. sub' \in [Receivers -> {"new", "check", "done", "refused"}]
          /\ handler' \in [Receivers -> {"none", "ready", "busy", "ended"}]
      <4>1. sub' = [sub EXCEPT ![r] = "done"] /\ handler' = [handler EXCEPT ![r] = "ready"]
        BY <1>3, <2>2 DEF AddReceiver
      <4> QED BY <1>1, <4>1 DEF TypeOK
    <3>4. UNCHANGED <<sendVars, got, rclosed, taken, pump, cur, target, started, fatal>>
      BY <1>3, <2>2 DEF AddReceiver
    <3> QED BY <1>1, <3>2, <3>3, <3>4 DEF TypeOK, sendVars
  <2> QED BY <2>1, <2>2
<1>4. CASE ReceiverNext(r)
  <2>1. handler' \in [Receivers -> {"none", "ready", "busy", "ended"}]
    BY <1>1, <1>4 DEF ReceiverNext, HandlerReturns, HandlerEnds, TypeOK
  <2> QED BY <1>1, <1>4, <2>1
          DEF ReceiverNext, HandlerReturns, HandlerEnds, TypeOK, sendVars, pumpVars
<1> QED BY <1>2, <1>3, <1>4

\* Producers, and the close: the channel takes no more messages than were promised.
LEMMA SenderTypes ==
  ASSUME HandedInv,
         (\E p \in Producers : BeginPush(p) \/ Send(p)) \/ Stop \/ ServiceStopping
  PROVE  TypeOK' /\ Bounded'
<1>1. IsFiniteSet(Pushing) /\ Cardinality(Pushing) \in Nat
  BY SizesAssumption, FS_Subset, FS_CardinalityType DEF Pushing
<1>2. TypeOK /\ accepted + Cardinality(Pushing) <= MaxMsgs
  BY DEF HandedInv, Bounded
<1>3. accepted \in Nat /\ taken \in Nat /\ taken <= accepted /\ MaxMsgs \in Nat
  BY <1>2, Counts
<1>4. ASSUME NEW p \in Producers, BeginPush(p) PROVE TypeOK' /\ Bounded'
  <2>1. Pushing' = Pushing \cup {p} /\ p \notin Pushing
    BY <1>2, <1>4 DEF BeginPush, Pushing, TypeOK
  <2>2. Cardinality(Pushing') = Cardinality(Pushing) + 1
    BY <1>1, <2>1, FS_AddElement
  <2>3. push' \in [Producers -> BOOLEAN]
    BY <1>2, <1>4 DEF BeginPush, TypeOK
  <2>4. TypeOK'
    BY <1>2, <1>4, <2>3 DEF BeginPush, TypeOK, recvVars, pumpVars
  <2>5. accepted + Cardinality(Pushing) < MaxMsgs /\ accepted' = accepted
    BY <1>4 DEF BeginPush, Pushing
  <2>6. accepted' + Cardinality(Pushing') <= MaxMsgs
    BY ONLY <1>1, <1>3, <2>2, <2>5
  <2> QED BY <2>4, <2>6 DEF Bounded
<1>5. ASSUME NEW p \in Producers, Send(p) PROVE TypeOK' /\ Bounded'
  <2>1. CASE Die("send on closed")
    BY <2>1, DeadKeeps DEF HandedInv
  <2>2. CASE ~Die("send on closed")
    <3>1. push[p] /\ accepted' = accepted + 1 /\ push' = [push EXCEPT ![p] = FALSE]
          /\ UNCHANGED <<closed, recvVars, pumpVars, started, fatal>>
      BY <1>5, <2>2 DEF Send
    <3>2. Pushing' = Pushing \ {p} /\ p \in Pushing
      BY <1>2, <3>1 DEF Pushing, TypeOK
    <3>3. Cardinality(Pushing') = Cardinality(Pushing) - 1
      BY <1>1, <3>2, FS_RemoveElement
    <3>4. Cardinality(Pushing') \in Nat
      BY <1>1, <3>2, FS_RemoveElement, FS_CardinalityType
    <3>5. accepted' + Cardinality(Pushing') <= MaxMsgs
      BY ONLY <1>1, <1>2, <1>3, <3>1, <3>3
    <3>6. taken' = taken /\ accepted' \in 0 .. MaxMsgs /\ taken' \in 0 .. accepted'
      <4>1. accepted' = accepted + 1 /\ taken' = taken
        BY <3>1 DEF pumpVars
      <4> QED BY ONLY <1>3, <3>4, <3>5, <4>1
    <3>7. push' \in [Producers -> BOOLEAN]
      BY <1>2, <3>1 DEF TypeOK
    <3>8. TypeOK'
      BY <1>2, <3>1, <3>6, <3>7 DEF TypeOK, recvVars, pumpVars
    <3> QED BY <3>5, <3>8 DEF Bounded
  <2> QED BY <2>1, <2>2
<1>6. CASE Stop \/ ServiceStopping
  <2>1. CASE Die("close of closed")
    BY <2>1, DeadKeeps DEF HandedInv
  <2>2. CASE ~Die("close of closed")
    <3>1. UNCHANGED <<accepted, push, recvVars, pumpVars, fatal>> /\ closed' = TRUE
          /\ started' \in {started, FALSE}
      BY <1>6, <2>2 DEF Stop, ServiceStopping, CloseSender
    <3>2. Pushing' = Pushing /\ accepted' = accepted
      BY <3>1 DEF Pushing
    <3>3. TypeOK'
      BY <1>2, <3>1 DEF TypeOK, recvVars, pumpVars
    <3> QED BY <1>2, <3>2, <3>3 DEF Bounded
  <2> QED BY <2>1, <2>2
<1> QED BY <1>4, <1>5, <1>6

\* The pumps.
LEMMA PumpTypes ==
  ASSUME HandedInv, NEW p \in Pumps, PumpNext(p)
  PROVE  TypeOK'
<1>1. TypeOK
  BY DEF HandedInv
<1>2. accepted \in Nat /\ taken \in Nat /\ taken <= accepted /\ accepted <= MaxMsgs
      /\ MaxMsgs \in Nat
  BY <1>1, Counts
<1>3. CASE CallStart(p) \/ MarkStarted(p) \/ EndRange(p)
  <2>1. pump' \in [Pumps -> PumpStep]
    BY <1>1, <1>3, ZenonT(30) DEF CallStart, MarkStarted, EndRange, TypeOK, PumpStep
  <2> QED BY <1>1, <1>3, <2>1
          DEF CallStart, MarkStarted, EndRange, TypeOK, sendVars, recvVars
<1>4. CASE Take(p)
  <2>1. todo' \in [Pumps -> SUBSET Receivers] /\ accepted' = accepted
    BY <1>1, <1>4 DEF Take, Registered, TypeOK, sendVars
  <2>2. pump' \in [Pumps -> PumpStep]
    BY <1>1, <1>4 DEF Take, TypeOK, PumpStep
  <2>3. \/ taken < accepted /\ taken' = taken + 1 /\ cur' = [cur EXCEPT ![p] = taken + 1]
        \/ taken' = taken /\ cur' = cur
    BY <1>4 DEF Take
  <2>4. taken' \in 0 .. accepted'
    BY <1>2, <2>1, <2>3
  <2>5. cur' \in [Pumps -> 0 .. MaxMsgs]
    <3>1. CASE taken < accepted /\ cur' = [cur EXCEPT ![p] = taken + 1]
      <4>1. taken + 1 \in 0 .. MaxMsgs
        BY <1>2, <3>1
      <4> QED BY <1>1, <3>1, <4>1 DEF TypeOK
    <3>2. CASE cur' = cur
      BY <1>1, <3>2 DEF TypeOK
    <3> QED BY <2>3, <3>1, <3>2
  <2> QED BY <1>1, <1>4, <2>1, <2>2, <2>4, <2>5 DEF Take, TypeOK, sendVars, recvVars
<1>5. ASSUME NEW r \in Receivers, Visit(p, r) PROVE TypeOK'
  <2>1. pump' \in [Pumps -> PumpStep] /\ todo' \in [Pumps -> SUBSET Receivers]
        /\ target' \in [Pumps -> Receivers \cup {NoReceiver}]
    BY <1>1, <1>5 DEF Visit, TypeOK, PumpStep
  <2> QED BY <1>1, <1>5, <2>1 DEF Visit, TypeOK, sendVars, recvVars
<1>6. ASSUME NEW r \in Receivers, HandOver(p, r) PROVE TypeOK'
  <2>1. CASE Die("send on closed")
    BY <2>1, DeadKeeps DEF HandedInv
  <2>2. CASE ~Die("send on closed")
    <3>1. got' = [got EXCEPT ![r] = Append(@, cur[p])] /\ pump[p] = "send"
      BY <1>6, <2>2 DEF HandOver
    <3>2. cur[p] \in 1 .. taken
      BY <3>1 DEF HandedInv, OneHandEach, InHand
    <3>3. cur[p] \in 1 .. MaxMsgs
      BY ONLY <1>2, <3>2
    <3>4. got \in [Receivers -> Seq(1 .. MaxMsgs)]
      BY <1>1 DEF TypeOK
    <3>5. got[r] \in Seq(1 .. MaxMsgs)
      BY <3>4
    <3>6. Append(got[r], cur[p]) \in Seq(1 .. MaxMsgs)
      BY ONLY <3>3, <3>5
    <3>7. got' \in [Receivers -> Seq(1 .. MaxMsgs)]
      BY <3>1, <3>4, <3>6
    <3>8. pump' \in [Pumps -> PumpStep]
          /\ handler' \in [Receivers -> {"none", "ready", "busy", "ended"}]
      <4>1. pump' = [pump EXCEPT ![p] = "range"] /\ handler' = [handler EXCEPT ![r] = "busy"]
        BY <1>6, <2>2 DEF HandOver
      <4> QED BY <1>1, <4>1 DEF TypeOK, PumpStep
    <3>9. UNCHANGED <<accepted, closed, push, sub, rclosed, taken, cur, todo, target, started,
                      fatal>>
      BY <1>6, <2>2 DEF HandOver, sendVars
    <3> QED BY <1>1, <3>7, <3>8, <3>9 DEF TypeOK
  <2> QED BY <2>1, <2>2
<1>7. ASSUME NEW r \in Receivers, CloseReceiver(p, r) PROVE TypeOK'
  <2>1. CASE Die("close of closed")
    BY <2>1, DeadKeeps DEF HandedInv
  <2>2. CASE ~Die("close of closed")
    <3>1. todo' \in [Pumps -> SUBSET Receivers] /\ rclosed' \subseteq Receivers
      BY <1>1, <1>7, <2>2, ZenonT(30) DEF CloseReceiver, TypeOK
    <3> QED BY <1>1, <1>7, <2>2, <3>1 DEF CloseReceiver, TypeOK, sendVars
  <2> QED BY <2>1, <2>2
<1> QED BY <1>3, <1>4, <1>5, <1>6, <1>7 DEF PumpNext

-----------------------------------------------------------------------------

\* A step that hands out no message, and puts none in a pump's hand.
LEMMA QuietKeeps ==
  ASSUME HandedInv, UNCHANGED <<got, taken, cur, target>>, Registered' = Registered,
         \A q \in Pumps : /\ pump'[q] \in {"range", "send"} => pump'[q] = pump[q]
                          /\ todo'[q] \subseteq todo[q]
  PROVE  VisitsRegistered' /\ OneHandEach' /\ ToVisitLacks' /\ HandedOnce'
<1>1. HandedOnce'
  BY DEF HandedInv, HandedOnce
<1>2. VisitsRegistered'
  <2>1. \A q \in Pumps : todo'[q] \subseteq Registered'
    BY DEF HandedInv, VisitsRegistered
  <2>2. ASSUME NEW q \in Pumps, pump'[q] = "send"
        PROVE  target'[q] \in Registered' \ todo'[q]
    BY <2>2 DEF HandedInv, VisitsRegistered
  <2> QED BY <2>1, <2>2 DEF HandedInv, VisitsRegistered
<1>3. \A q \in Pumps : InHand(q)' => InHand(q)
  BY DEF InHand
<1>4. OneHandEach'
  BY <1>3 DEF HandedInv, OneHandEach
<1>5. ToVisitLacks'
  <2>1. \A r \in Receivers, m \in Nat : Has(r, m)' <=> Has(r, m)
    BY DEF Has
  <2> SUFFICES ASSUME NEW q \in Pumps, NEW r \in Receivers, InHand(q)',
                      r \in todo'[q] \/ (pump'[q] = "send" /\ target'[q] = r)
               PROVE  ~Has(r, cur[q])'
    BY DEF ToVisitLacks, Owed
  <2>2. r \in todo[q] \/ (pump[q] = "send" /\ target[q] = r)
    OBVIOUS
  <2>3. ~Has(r, cur[q])
    BY <1>3, <2>2 DEF HandedInv, ToVisitLacks, Owed
  <2> QED BY <2>3 DEF Has
<1> QED BY <1>1, <1>2, <1>4, <1>5

\* A receiver that joins has been handed nothing, whatever the ranges make of it.
LEMMA JoinKeeps ==
  ASSUME HandedInv, NEW r \in Receivers, AddReceiver(r), ~Die("map race")
  PROVE  VisitsRegistered' /\ OneHandEach' /\ ToVisitLacks' /\ HandedOnce'
<1>1. /\ sub[r] = "check" /\ sub' = [sub EXCEPT ![r] = "done"]
      /\ UNCHANGED <<got, taken, pump, cur, target>>
  BY DEF AddReceiver
<1>2. PICK visit \in SUBSET {p \in Pumps : pump[p] \in {"range", "close"}} :
        todo' = [p \in Pumps |-> todo[p] \cup IF p \in visit THEN {r} ELSE {}]
  BY DEF AddReceiver
<1>3. r \notin Registered /\ Registered' = Registered \cup {r}
  BY <1>1 DEF HandedInv, TypeOK, Registered
<1>4. \A q \in Pumps : /\ todo'[q] \subseteq todo[q] \cup {r}
                       /\ pump[q] = "send" => todo'[q] = todo[q]
  BY <1>2
<1>5. HandedOnce' /\ OneHandEach'
  BY <1>1, ZenonT(30) DEF HandedInv, HandedOnce, OneHandEach, InHand
<1>6. VisitsRegistered'
  BY <1>1, <1>3, <1>4 DEF HandedInv, VisitsRegistered
<1>7. ToVisitLacks'
  <2> SUFFICES ASSUME NEW q \in Pumps, NEW s \in Receivers, InHand(q)',
                      s \in todo'[q] \/ (pump'[q] = "send" /\ target'[q] = s)
               PROVE  ~Has(s, cur[q])'
    BY DEF ToVisitLacks, Owed
  <2>1. CASE s = r
    <3>1. got[r] = <<>>
      BY <1>3 DEF HandedInv, VisitsRegistered
    <3>2. Len(got'[s]) = 0
      BY <1>1, <2>1, <3>1
    <3>3. 1 .. Len(got'[s]) = {}
      BY ONLY <3>2
    <3> QED BY <3>3 DEF Has
  <2>2. CASE s # r
    <3>1. InHand(q) /\ (s \in todo[q] \/ (pump[q] = "send" /\ target[q] = s))
      BY <1>1, <1>4, <2>2 DEF InHand
    <3>2. ~Has(s, cur[q])
      BY <3>1 DEF HandedInv, ToVisitLacks, Owed
    <3> QED BY <1>1, <3>2 DEF Has
  <2> QED BY <2>1, <2>2
<1> QED BY <1>5, <1>6, <1>7

\* The message a pump takes is one nobody has seen.
LEMMA TakeKeeps ==
  ASSUME HandedInv, NEW p \in Pumps, Take(p)
  PROVE  VisitsRegistered' /\ OneHandEach' /\ ToVisitLacks' /\ HandedOnce'
<1>1. /\ UNCHANGED <<got, target>> /\ Registered' = Registered
      /\ todo' = [todo EXCEPT ![p] = Registered]
  BY DEF Take, recvVars, Registered
<1>2. TypeOK /\ taken \in Nat
  BY Counts DEF HandedInv
<1>3. \/ /\ taken' = taken + 1 /\ cur' = [cur EXCEPT ![p] = taken + 1]
         /\ pump' = [pump EXCEPT ![p] = "range"]
      \/ UNCHANGED <<taken, cur>> /\ pump' = [pump EXCEPT ![p] = "close"]
  BY DEF Take
<1>4. pump'[p] \in {"range", "close"} /\ todo'[p] = Registered
  BY <1>1, <1>2, <1>3 DEF TypeOK
<1>5. \A q \in Pumps \ {p} :
        pump'[q] = pump[q] /\ cur'[q] = cur[q] /\ todo'[q] = todo[q]
  BY <1>1, <1>2, <1>3 DEF TypeOK
<1>6. HandedOnce'
  BY <1>1 DEF HandedInv, HandedOnce
<1>7. VisitsRegistered'
  <2>1. ASSUME NEW q \in Pumps
        PROVE  /\ todo'[q] \subseteq Registered'
               /\ pump'[q] = "send" => target'[q] \in Registered' \ todo'[q]
    BY <1>1, <1>4, <1>5 DEF HandedInv, VisitsRegistered
  <2> QED BY <1>1, <2>1 DEF HandedInv, VisitsRegistered
<1>8. taken' \in Nat /\ taken <= taken'
  BY ONLY <1>2, <1>3
<1>9. \A s \in Receivers : \A i \in 1 .. Len(got[s]) : got[s][i] \in Nat /\ got[s][i] <= taken
  <2>1. \A s \in Receivers : \A i \in 1 .. Len(got[s]) : got[s][i] \in 1 .. MaxMsgs
    <3> SUFFICES ASSUME NEW s \in Receivers, NEW i \in 1 .. Len(got[s])
                 PROVE  got[s][i] \in 1 .. MaxMsgs
      OBVIOUS
    <3>1. got[s] \in Seq(1 .. MaxMsgs)
      BY <1>2 DEF TypeOK
    <3> QED BY ONLY <3>1, ElementOfSeq, Zenon
  <2>2. \A s \in Receivers : \A i \in 1 .. Len(got[s]) : got[s][i] <= taken
    BY DEF HandedInv, OneHandEach
  <2> QED BY <2>1, <2>2
<1>10. \A s \in Receivers : \A i \in 1 .. Len(got'[s]) : got'[s][i] <= taken'
  <2>1. SUFFICES ASSUME NEW s \in Receivers, NEW i \in 1 .. Len(got[s])
                 PROVE  got[s][i] <= taken'
    BY <1>1
  <2>2. got[s][i] \in Nat /\ got[s][i] <= taken
    BY <1>9
  <2> QED BY ONLY <1>2, <1>8, <2>2
<1>11. \A q \in Pumps : InHand(q) => cur[q] \in 1 .. taken
  BY DEF HandedInv, OneHandEach
<1>12. \A q \in Pumps, s \in Receivers :
         InHand(q) /\ (s \in todo[q] \/ (pump[q] = "send" /\ target[q] = s))
           => ~Has(s, cur[q])
  BY DEF HandedInv, ToVisitLacks, Owed
<1>13. CASE taken' = taken + 1 /\ cur' = [cur EXCEPT ![p] = taken + 1]
  <2>1. cur'[p] = taken + 1
    BY <1>2, <1>13 DEF TypeOK
  <2>2. ASSUME NEW q \in Pumps \ {p}, InHand(q)'
        PROVE  InHand(q) /\ cur'[q] \in 1 .. taken /\ cur'[q] # cur'[p] /\ cur'[q] \in 1 .. taken'
    <3>1. InHand(q) /\ cur'[q] = cur[q]
      BY <1>5, <2>2 DEF InHand
    <3>2. cur'[q] \in 1 .. taken
      BY <1>11, <3>1
    <3> QED BY ONLY <1>2, <1>13, <2>1, <3>1, <3>2
  <2>3. OneHandEach'
    <3>1. \A q \in Pumps : InHand(q)' => cur'[q] \in 1 .. taken'
      <4>1. cur'[p] \in 1 .. taken'
        BY ONLY <1>2, <1>13, <2>1
      <4> QED BY <2>2, <4>1
    <3>2. ASSUME NEW q \in Pumps, NEW o \in Pumps, InHand(q)', InHand(o)', q # o
          PROVE  cur'[q] # cur'[o]
      <4>1. CASE q # p /\ o # p
        <5>1. InHand(q) /\ InHand(o) /\ cur'[q] = cur[q] /\ cur'[o] = cur[o]
          BY <1>5, <2>2, <3>2, <4>1
        <5> QED BY <3>2, <5>1 DEF HandedInv, OneHandEach
      <4>2. CASE q = p \/ o = p
        BY <2>2, <3>2, <4>2
      <4> QED BY <4>1, <4>2
    <3> QED BY <1>10, <3>1, <3>2 DEF OneHandEach
  <2>4. ToVisitLacks'
    <3> SUFFICES ASSUME NEW q \in Pumps, NEW s \in Receivers, InHand(q)',
                        s \in todo'[q] \/ (pump'[q] = "send" /\ target'[q] = s)
                 PROVE  ~Has(s, cur[q])'
      BY DEF ToVisitLacks, Owed
    <3>1. CASE q = p
      <4>1. ASSUME NEW i \in 1 .. Len(got[s]) PROVE got[s][i] # taken + 1
        <5>1. got[s][i] \in Nat /\ got[s][i] <= taken
          BY <1>9
        <5> QED BY ONLY <1>2, <5>1
      <4> QED BY <1>1, <2>1, <3>1, <4>1 DEF Has
    <3>2. CASE q # p
      <4>1. InHand(q) /\ cur'[q] = cur[q]
            /\ (s \in todo[q] \/ (pump[q] = "send" /\ target[q] = s))
        BY <1>1, <1>5, <2>2, <3>2
      <4>2. ~Has(s, cur[q])
        BY <1>12, <4>1
      <4> QED BY <1>1, <4>1, <4>2 DEF Has
    <3> QED BY <3>1, <3>2
  <2> QED BY <1>6, <1>7, <2>3, <2>4
<1>14. CASE UNCHANGED <<taken, cur>> /\ pump' = [pump EXCEPT ![p] = "close"]
  <2>1. \A q \in Pumps : InHand(q)' => q # p /\ InHand(q)
    BY <1>2, <1>5, <1>14 DEF InHand, TypeOK
  <2>2. OneHandEach'
    BY <1>10, <1>14, <2>1 DEF HandedInv, OneHandEach
  <2>3. ToVisitLacks'
    <3> SUFFICES ASSUME NEW q \in Pumps, NEW s \in Receivers, InHand(q)',
                        s \in todo'[q] \/ (pump'[q] = "send" /\ target'[q] = s)
                 PROVE  ~Has(s, cur[q])'
      BY DEF ToVisitLacks, Owed
    <3>1. InHand(q) /\ (s \in todo[q] \/ (pump[q] = "send" /\ target[q] = s))
      BY <1>1, <1>5, <2>1
    <3>2. ~Has(s, cur[q])
      BY <1>12, <3>1
    <3> QED BY <1>1, <1>14, <3>2 DEF Has
  <2> QED BY <1>6, <1>7, <2>2, <2>3
<1> QED BY <1>3, <1>13, <1>14

\* The receiver a pump comes to is one it had yet to visit.
LEMMA VisitKeeps ==
  ASSUME HandedInv, NEW p \in Pumps, NEW r \in Receivers, Visit(p, r)
  PROVE  VisitsRegistered' /\ OneHandEach' /\ ToVisitLacks' /\ HandedOnce'
<1>1. /\ UNCHANGED <<got, taken, cur>> /\ Registered' = Registered
      /\ pump[p] = "range" /\ r \in todo[p]
  BY DEF Visit, recvVars, Registered
<1>2. pump'[p] = "send" /\ target'[p] = r /\ todo'[p] = todo[p] \ {r}
  BY DEF Visit, HandedInv, TypeOK
<1>3. \A q \in Pumps \ {p} :
        pump'[q] = pump[q] /\ target'[q] = target[q] /\ todo'[q] = todo[q]
  BY DEF Visit, HandedInv, TypeOK
<1>4. \A q \in Pumps : InHand(q)' <=> InHand(q)
  BY <1>1, <1>2, <1>3 DEF InHand
<1>5. HandedOnce' /\ OneHandEach'
  BY <1>1, <1>4 DEF HandedInv, HandedOnce, OneHandEach
<1>6. VisitsRegistered'
  <2>1. ASSUME NEW q \in Pumps
        PROVE  /\ todo'[q] \subseteq Registered'
               /\ pump'[q] = "send" => target'[q] \in Registered' \ todo'[q]
    BY <1>1, <1>2, <1>3 DEF HandedInv, VisitsRegistered
  <2> QED BY <1>1, <2>1 DEF HandedInv, VisitsRegistered
<1>7. ToVisitLacks'
  <2> SUFFICES ASSUME NEW q \in Pumps, NEW s \in Receivers, InHand(q)',
                      s \in todo'[q] \/ (pump'[q] = "send" /\ target'[q] = s)
               PROVE  ~Has(s, cur[q])'
    BY DEF ToVisitLacks, Owed
  <2>1. s \in todo[q] \/ (pump[q] = "send" /\ target[q] = s)
    BY <1>1, <1>2, <1>3
  <2>2. ~Has(s, cur[q])
    BY <1>4, <2>1 DEF HandedInv, ToVisitLacks, Owed
  <2> QED BY <1>1, <2>2 DEF Has
<1> QED BY <1>5, <1>6, <1>7

\* What the receivers hold once r is handed m.
LEMMA Appended ==
  ASSUME TypeOK, NEW r \in Receivers, NEW m \in 1 .. MaxMsgs,
         got' = [got EXCEPT ![r] = Append(@, m)]
  PROVE  /\ \A s \in Receivers \ {r} : got'[s] = got[s]
         /\ Len(got[r]) \in Nat /\ Len(got'[r]) = Len(got[r]) + 1
         /\ got'[r][Len(got[r]) + 1] = m
         /\ \A i \in 1 .. Len(got[r]) : got'[r][i] = got[r][i]
<1>1. got \in [Receivers -> Seq(1 .. MaxMsgs)]
  BY DEF TypeOK
<1>2. got[r] \in Seq(1 .. MaxMsgs)
  BY <1>1
<1>3. got'[r] = Append(got[r], m) /\ \A s \in Receivers \ {r} : got'[s] = got[s]
  BY <1>1
<1>4. /\ Len(Append(got[r], m)) = Len(got[r]) + 1
      /\ Append(got[r], m)[Len(got[r]) + 1] = m
      /\ \A i \in 1 .. Len(got[r]) : Append(got[r], m)[i] = got[r][i]
  <2>1. \A S, t, e : t \in Seq(S) /\ e \in S =>
          /\ Len(Append(t, e)) = Len(t) + 1
          /\ Append(t, e)[Len(t) + 1] = e
          /\ \A i \in 1 .. Len(t) : Append(t, e)[i] = t[i]
    BY SMT
  <2>2. m \in 1 .. MaxMsgs
    OBVIOUS
  <2> QED BY ONLY <1>2, <2>1, <2>2
<1>5. Len(got[r]) \in Nat
  BY <1>2, LenProperties, Zenon
<1> QED BY ONLY <1>3, <1>4, <1>5

\* The receiver did not have the message it is handed, and no other pump brings it that one.
LEMMA HandOverKeeps ==
  ASSUME HandedInv, NEW p \in Pumps, NEW r \in Receivers, HandOver(p, r),
         ~Die("send on closed")
  PROVE  VisitsRegistered' /\ OneHandEach' /\ ToVisitLacks' /\ HandedOnce'
<1>1. /\ pump[p] = "send" /\ target[p] = r
      /\ got' = [got EXCEPT ![r] = Append(@, cur[p])]
      /\ pump' = [pump EXCEPT ![p] = "range"]
      /\ UNCHANGED <<taken, cur, todo, target>> /\ Registered' = Registered
  BY DEF HandOver, Registered
<1>2. TypeOK /\ taken \in Nat /\ taken <= MaxMsgs /\ MaxMsgs \in Nat
  <2>1. TypeOK
    BY DEF HandedInv
  <2>2. /\ accepted \in Nat /\ taken \in Nat /\ MaxMsgs \in Nat
        /\ taken <= accepted /\ accepted <= MaxMsgs
    BY <2>1, Counts
  <2> QED BY ONLY <2>1, <2>2
<1>3. InHand(p) /\ cur[p] \in 1 .. taken /\ ~Has(r, cur[p])
  BY <1>1 DEF HandedInv, OneHandEach, ToVisitLacks, Owed, InHand
<1>4. cur[p] \in 1 .. MaxMsgs
  BY ONLY <1>2, <1>3
<1>5. /\ \A s \in Receivers \ {r} : got'[s] = got[s]
      /\ Len(got[r]) \in Nat /\ Len(got'[r]) = Len(got[r]) + 1
      /\ got'[r][Len(got[r]) + 1] = cur[p]
      /\ \A i \in 1 .. Len(got[r]) : got'[r][i] = got[r][i]
  BY <1>1, <1>2, <1>4, Appended
<1>6. pump'[p] = "range" /\ \A q \in Pumps \ {p} : pump'[q] = pump[q]
  BY <1>1, <1>2 DEF TypeOK
<1>7. \A q \in Pumps : InHand(q)' <=> InHand(q)
  BY <1>1, <1>6 DEF InHand
<1>8. \A i \in 1 .. Len(got[r]) : got[r][i] # cur[p]
  BY <1>3 DEF Has
<1>9. \A i \in 1 .. Len(got'[r]) : i \in 1 .. Len(got[r]) \/ i = Len(got[r]) + 1
  BY ONLY <1>5
<1>10. HandedOnce'
  <2> SUFFICES ASSUME NEW s \in Receivers,
                      NEW i \in 1 .. Len(got'[s]), NEW j \in 1 .. Len(got'[s]), i # j
               PROVE  got'[s][i] # got'[s][j]
    BY DEF HandedOnce
  <2>1. CASE s # r
    <3>1. got'[s] = got[s]
      BY <1>5, <2>1
    <3>2. i \in 1 .. Len(got[s]) /\ j \in 1 .. Len(got[s])
      BY <3>1, Zenon
    <3>3. got[s][i] # got[s][j]
      BY <3>2 DEF HandedInv, HandedOnce
    <3> QED BY <3>1, <3>3, Zenon
  <2>2. CASE s = r /\ i \in 1 .. Len(got[r]) /\ j \in 1 .. Len(got[r])
    <3>1. got[r][i] # got[r][j]
      BY <2>2 DEF HandedInv, HandedOnce
    <3> QED BY <1>5, <2>2, <3>1
  <2>3. CASE s = r /\ i = Len(got[r]) + 1 /\ j \in 1 .. Len(got[r])
    BY <1>5, <1>8, <2>3
  <2>4. CASE s = r /\ j = Len(got[r]) + 1 /\ i \in 1 .. Len(got[r])
    BY <1>5, <1>8, <2>4
  <2> QED BY <1>9, <2>1, <2>2, <2>3, <2>4
<1>11. VisitsRegistered'
  <2>1. r \in Registered
    BY <1>1 DEF HandedInv, VisitsRegistered
  <2>2. \A s \in Receivers \ Registered : got'[s] = <<>>
    BY <1>5, <2>1 DEF HandedInv, VisitsRegistered
  <2>3. ASSUME NEW q \in Pumps
        PROVE  /\ todo'[q] \subseteq Registered'
               /\ pump'[q] = "send" => target'[q] \in Registered' \ todo'[q]
    BY <1>1, <1>6 DEF HandedInv, VisitsRegistered
  <2> QED BY <1>1, <2>2, <2>3 DEF VisitsRegistered
<1>12. OneHandEach'
  <2>1. ASSUME NEW s \in Receivers, NEW i \in 1 .. Len(got'[s])
        PROVE  got'[s][i] <= taken
    <3>1. cur[p] <= taken
      BY ONLY <1>2, <1>3
    <3>2. CASE s = r /\ i = Len(got[r]) + 1
      BY <1>5, <3>1, <3>2
    <3>3. CASE s = r /\ i \in 1 .. Len(got[r])
      <4>1. got[r][i] <= taken
        BY <3>3 DEF HandedInv, OneHandEach
      <4> QED BY <1>5, <3>3, <4>1
    <3>4. CASE s # r
      BY <1>5, <3>4 DEF HandedInv, OneHandEach
    <3> QED BY <1>9, <3>2, <3>3, <3>4
  <2> QED BY <1>1, <1>7, <2>1 DEF HandedInv, OneHandEach
<1>13. ToVisitLacks'
  <2> SUFFICES ASSUME NEW q \in Pumps, NEW s \in Receivers, InHand(q)',
                      s \in todo'[q] \/ (pump'[q] = "send" /\ target'[q] = s)
               PROVE  ~Has(s, cur[q])'
    BY DEF ToVisitLacks, Owed
  <2>1. /\ InHand(q) /\ (s \in todo[q] \/ (pump[q] = "send" /\ target[q] = s))
        /\ q = p => s \in todo[p]
    BY <1>1, <1>6, <1>7
  <2>2. ~Has(s, cur[q])
    BY <2>1 DEF HandedInv, ToVisitLacks, Owed
  <2>3. CASE s # r
    BY <1>1, <1>5, <2>2, <2>3 DEF Has
  <2>4. CASE s = r
    <3>1. q # p
      BY <1>1, <2>1, <2>4 DEF HandedInv, VisitsRegistered
    <3>2. cur[q] # cur[p]
      BY <1>3, <2>1, <3>1 DEF HandedInv, OneHandEach
    <3>3. ASSUME NEW i \in 1 .. Len(got'[r]) PROVE got'[r][i] # cur[q]
      BY <1>5, <1>9, <2>2, <2>4, <3>2 DEF Has
    <3> QED BY <1>1, <2>4, <3>3 DEF Has
  <2> QED BY <2>3, <2>4
<1> QED BY <1>10, <1>11, <1>12, <1>13

\* Every step preserves the invariant.
LEMMA HandedStep == HandedInv /\ [Next]_vars => HandedInv'
<1> SUFFICES ASSUME HandedInv, [Next]_vars PROVE HandedInv'
  OBVIOUS
<1> DEFINE Handed == VisitsRegistered /\ OneHandEach /\ ToVisitLacks /\ HandedOnce
<1>1. CASE \E reason \in {"send on closed", "close of closed", "map race"} : Die(reason)
  BY <1>1, DeadKeeps
<1>2. CASE ~\E reason \in {"send on closed", "close of closed", "map race"} : Die(reason)
  <2> DEFINE Alone == /\ ~Die("send on closed") /\ ~Die("close of closed")
                      /\ ~Die("map race")
  <2>1. Alone
    BY <1>2
  <2>2. ASSUME UNCHANGED <<accepted, push>> PROVE Bounded'
    BY <2>2 DEF HandedInv, Bounded, Pushing
  <2> HIDE DEF Alone
  <2>3. CASE UNCHANGED vars
    <3>1. UNCHANGED <<accepted, taken, closed, started, sub, got, handler, rclosed, push,
                      pump, cur, todo, target, fatal>>
      BY <2>3 DEF vars
    <3>2. TypeOK'
      BY <3>1 DEF HandedInv, TypeOK
    <3>3. Handed'
      BY <3>1, QuietKeeps DEF Registered
    <3> QED BY <2>2, <3>1, <3>2, <3>3 DEF HandedInv
  <2>4. ASSUME NEW r \in Receivers, CallSub(r) \/ AddReceiver(r) \/ ReceiverNext(r)
        PROVE  HandedInv'
    <3>1. TypeOK'
      BY <2>4, ReceiverTypes
    <3>2. CASE CallSub(r)
      <4>1. UNCHANGED <<accepted, push, got, taken, pump, cur, todo, target>>
        BY <3>2 DEF CallSub, sendVars, pumpVars
      <4>2. Registered' = Registered
        BY <3>2 DEF CallSub, Registered, HandedInv, TypeOK
      <4>3. Handed'
        BY <4>1, <4>2, QuietKeeps
      <4> QED BY <2>2, <3>1, <4>1, <4>3 DEF HandedInv
    <3>3. CASE AddReceiver(r)
      <4>1. UNCHANGED <<accepted, push>>
        BY <2>1, <3>3 DEF AddReceiver, Alone, sendVars
      <4>2. Handed'
        BY <2>1, <3>3, JoinKeeps DEF Alone
      <4> QED BY <2>2, <3>1, <4>1, <4>2 DEF HandedInv
    <3>4. CASE ReceiverNext(r)
      <4>1. UNCHANGED <<accepted, push, sub, got, taken, pump, cur, todo, target>>
        BY <3>4 DEF ReceiverNext, HandlerReturns, HandlerEnds, sendVars, pumpVars
      <4>2. Handed'
        BY <4>1, QuietKeeps DEF Registered
      <4> QED BY <2>2, <3>1, <4>1, <4>2 DEF HandedInv
    <3> QED BY <2>4, <3>2, <3>3, <3>4
  <2>5. CASE (\E p \in Producers : BeginPush(p) \/ Send(p)) \/ Stop \/ ServiceStopping
    <3>1. TypeOK' /\ Bounded'
      BY <2>5, SenderTypes
    <3>2. UNCHANGED <<sub, got, taken, pump, cur, todo, target>>
      BY <2>1, <2>5 DEF BeginPush, Send, Stop, ServiceStopping, CloseSender, Alone,
                        recvVars, pumpVars
    <3>3. Handed'
      BY <3>2, QuietKeeps DEF Registered
    <3> QED BY <3>1, <3>3 DEF HandedInv
  <2>6. ASSUME NEW p \in Pumps, PumpNext(p) PROVE HandedInv'
    <3>1. TypeOK'
      BY <2>6, PumpTypes
    <3>2. CASE CallStart(p) \/ MarkStarted(p) \/ EndRange(p)
      <4>1. UNCHANGED <<accepted, push, sub, got, taken, cur, todo, target>>
        BY <3>2 DEF CallStart, MarkStarted, EndRange, sendVars, recvVars
      <4>2. \A q \in Pumps : pump'[q] \in {"range", "send"} => pump'[q] = pump[q]
        BY <3>2 DEF CallStart, MarkStarted, EndRange, HandedInv, TypeOK
      <4>3. Handed'
        BY <4>1, <4>2, QuietKeeps DEF Registered
      <4> QED BY <2>2, <3>1, <4>1, <4>3 DEF HandedInv
    <3>3. CASE Take(p)
      <4>1. Handed'
        BY <3>3, TakeKeeps
      <4>2. UNCHANGED <<accepted, push>>
        BY <3>3 DEF Take, sendVars
      <4> QED BY <2>2, <3>1, <4>1, <4>2 DEF HandedInv
    <3>4. ASSUME NEW r \in Receivers, Visit(p, r) PROVE HandedInv'
      <4>1. Handed'
        BY <3>4, VisitKeeps
      <4>2. UNCHANGED <<accepted, push>>
        BY <3>4 DEF Visit, sendVars
      <4> QED BY <2>2, <3>1, <4>1, <4>2 DEF HandedInv
    <3>5. ASSUME NEW r \in Receivers, HandOver(p, r) PROVE HandedInv'
      <4>1. Handed'
        BY <2>1, <3>5, HandOverKeeps DEF Alone
      <4>2. UNCHANGED <<accepted, push>>
        BY <2>1, <3>5 DEF HandOver, sendVars, Alone
      <4> QED BY <2>2, <3>1, <4>1, <4>2 DEF HandedInv
    <3>6. ASSUME NEW r \in Receivers, CloseReceiver(p, r) PROVE HandedInv'
      <4>1. /\ UNCHANGED <<accepted, push, sub, got, taken, pump, cur, target>>
            /\ todo' = [todo EXCEPT ![p] = @ \ {r}]
        BY <2>1, <3>6 DEF CloseReceiver, sendVars, Alone
      <4>2. \A q \in Pumps : todo'[q] \subseteq todo[q]
        BY <4>1 DEF HandedInv, TypeOK
      <4>3. Handed'
        BY <4>1, <4>2, QuietKeeps DEF Registered
      <4> QED BY <2>2, <3>1, <4>1, <4>3 DEF HandedInv
    <3> QED BY <2>6, <3>2, <3>3, <3>4, <3>5, <3>6 DEF PumpNext
  <2> QED BY <2>3, <2>4, <2>5, <2>6 DEF Next
<1> QED BY <1>1, <1>2

\* No receiver is handed the same message twice, however many Starts, late receivers and
\* pushes or closes during a close there are.
THEOREM NothingTwice == Spec => []HandedOnce
<1>1. HandedInv => HandedOnce
  BY DEF HandedInv
<1> QED BY <1>1, HandedInit, HandedStep, PTL DEF Spec

-----------------------------------------------------------------------------
(* Callers that keep to the order: Liberties = {}.                         *)

\* Nobody pushes into a closed channel.
QuietClose == closed => \A p \in Producers : ~push[p]

\* The map of receivers is complete before the adaptor is started.
AllJoined == \A p \in Pumps : pump[p] # "idle" => Registered = Receivers

\* The receivers' channels are open until the pump has drained the sender, and each is then
\* closed once.
OpenReceivers ==
  \A p \in Pumps :
    /\ pump[p] \notin {"close", "done"} => rclosed = {}
    /\ pump[p] = "close" => rclosed \cap todo[p] = {}

\* Every receiver has every message taken, but for the one in hand.
InStep ==
  /\ \A r \in Receivers : \A i \in 1 .. Len(got[r]) : got[r][i] = i
  /\ \A p \in Pumps : InHand(p) => cur[p] = taken
  /\ \A p \in Pumps, r \in Receivers :
       IF Owed(p, r) THEN Len(got[r]) + 1 = taken ELSE Len(got[r]) = taken

Orderly ==
  /\ HandedInv
  /\ NoPanic
  /\ QuietClose
  /\ AllJoined
  /\ OpenReceivers
  /\ InStep

\* With one Start there is one pump.
LEMMA OnePump == ASSUME Liberties = {} PROVE \E p \in Pumps : Pumps = {p}
BY OneStartAssumption DEF OneStartAssumption

LEMMA OrderlyInit == Init => Orderly
<1> SUFFICES ASSUME Init PROVE Orderly
  OBVIOUS
<1>1. HandedInv
  BY HandedInit
<1>2. \A r \in Receivers : Len(got[r]) = 0 /\ taken = 0
  BY DEF Init
<1>3. \A p \in Pumps : ~InHand(p) /\ \A r \in Receivers : ~Owed(p, r)
  BY DEF Init, Owed, InHand
<1>4. InStep
  <2>1. ASSUME NEW r \in Receivers PROVE 1 .. Len(got[r]) = {}
    <3>1. Len(got[r]) = 0
      BY <1>2
    <3> QED BY ONLY <3>1
  <2>2. \A r \in Receivers : \A i \in 1 .. Len(got[r]) : got[r][i] = i
    BY <2>1
  <2> QED BY <1>2, <1>3, <2>2 DEF InStep
<1> QED BY <1>1, <1>4 DEF Init, Orderly, NoPanic, QuietClose, AllJoined, OpenReceivers

\* No operation on a channel panics, and the range of no pump meets a writer of the map.
LEMMA NobodyDies ==
  ASSUME Orderly, Liberties = {}, Next
  PROVE  fatal' = "none"
<1>1. fatal = "none" /\ "none" \notin {"send on closed", "close of closed", "map race"}
  BY DEF Orderly, NoPanic
<1>2. ASSUME NEW r \in Receivers, CallSub(r) \/ ReceiverNext(r) PROVE fatal' = "none"
  BY <1>1, <1>2 DEF CallSub, ReceiverNext, HandlerReturns, HandlerEnds
<1>3. ASSUME NEW r \in Receivers, AddReceiver(r) PROVE fatal' = "none"
  <2>1. \A p \in Pumps : pump[p] = "idle"
    BY <1>3 DEF AddReceiver, SubAllowed
  <2> QED BY <1>1, <1>3, <2>1 DEF AddReceiver
<1>4. ASSUME NEW p \in Producers, BeginPush(p) \/ Send(p) PROVE fatal' = "none"
  BY <1>1, <1>4 DEF BeginPush, Send, Orderly, QuietClose
<1>5. CASE Stop \/ ServiceStopping
  BY <1>1, <1>5 DEF Stop, ServiceStopping, CloseAllowed, CloseSender
<1>6. ASSUME NEW p \in Pumps, PumpNext(p) PROVE fatal' = "none"
  <2>1. CASE CallStart(p) \/ MarkStarted(p) \/ Take(p) \/ EndRange(p)
    BY <1>1, <2>1 DEF CallStart, MarkStarted, Take, EndRange
  <2>2. ASSUME NEW r \in Receivers, Visit(p, r) PROVE fatal' = "none"
    BY <1>1, <2>2 DEF Visit
  <2>3. ASSUME NEW r \in Receivers, HandOver(p, r) PROVE fatal' = "none"
    <3>1. r \notin rclosed
      BY <2>3 DEF HandOver, Orderly, OpenReceivers
    <3> QED BY <1>1, <2>3, <3>1 DEF HandOver
  <2>4. ASSUME NEW r \in Receivers, CloseReceiver(p, r) PROVE fatal' = "none"
    <3>1. r \notin rclosed
      BY <2>4 DEF CloseReceiver, Orderly, OpenReceivers
    <3> QED BY <1>1, <2>4, <3>1 DEF CloseReceiver
  <2> QED BY <1>6, <2>1, <2>2, <2>3, <2>4 DEF PumpNext
<1> QED BY <1>2, <1>3, <1>4, <1>5, <1>6 DEF Next

\* Which step is taken, when nobody dies.
LEMMA DieIsFatal == Die("send on closed") \/ Die("close of closed") \/ Die("map race")
                      => fatal' # "none"
BY DEF Die

\* The order of the calls is kept.
LEMMA OrderStep ==
  ASSUME Orderly, Liberties = {}, Next, fatal' = "none"
  PROVE  QuietClose' /\ AllJoined' /\ OpenReceivers'
<1>1. /\ ~Die("send on closed") /\ ~Die("close of closed") /\ ~Die("map race")
      /\ TypeOK
  BY DieIsFatal DEF Orderly, HandedInv
<1>2. PICK s \in Pumps : Pumps = {s}
  BY OnePump
<1>3. ASSUME NEW r \in Receivers, CallSub(r) \/ AddReceiver(r)
      PROVE  QuietClose' /\ AllJoined' /\ OpenReceivers'
  <2>1. /\ UNCHANGED <<closed, push, pump, rclosed>>
        /\ \A p \in Pumps : pump[p] = "idle"
    BY <1>1, <1>3 DEF CallSub, AddReceiver, SubAllowed, sendVars, pumpVars
  <2> QED BY <2>1 DEF Orderly, QuietClose, AllJoined, OpenReceivers
<1>4. ASSUME NEW r \in Receivers, ReceiverNext(r)
      PROVE  QuietClose' /\ AllJoined' /\ OpenReceivers'
  <2>1. UNCHANGED <<closed, push, sub, pump, rclosed, todo>>
    BY <1>4 DEF ReceiverNext, HandlerReturns, HandlerEnds, sendVars, pumpVars
  <2> QED BY <2>1 DEF Orderly, QuietClose, AllJoined, OpenReceivers, Registered
<1>5. ASSUME NEW p \in Producers, BeginPush(p) \/ Send(p)
      PROVE  QuietClose' /\ AllJoined' /\ OpenReceivers'
  <2>1. ~closed /\ UNCHANGED <<closed, sub, pump, rclosed, todo>>
    BY <1>1, <1>5 DEF BeginPush, Send, Orderly, QuietClose, recvVars, pumpVars
  <2> QED BY <2>1 DEF Orderly, QuietClose, AllJoined, OpenReceivers, Registered
<1>6. CASE Stop \/ ServiceStopping
  <2>1. /\ \A p \in Producers : ~push[p]
        /\ UNCHANGED <<push, sub, pump, rclosed, todo>>
    BY <1>1, <1>6 DEF Stop, ServiceStopping, CloseAllowed, CloseSender, recvVars, pumpVars
  <2> QED BY <2>1 DEF Orderly, QuietClose, AllJoined, OpenReceivers, Registered
<1>7. ASSUME PumpNext(s) PROVE QuietClose' /\ AllJoined' /\ OpenReceivers'
  <2>1. UNCHANGED <<closed, push, sub>>
    BY <1>1, <1>7 DEF PumpNext, CallStart, MarkStarted, Take, EndRange, Visit, HandOver,
                      CloseReceiver, sendVars, recvVars
  <2>2. QuietClose' /\ Registered' = Registered
    BY <2>1 DEF Orderly, QuietClose, Registered
  <2>3. AllJoined'
    <3>1. CASE CallStart(s)
      BY <1>2, <2>2, <3>1 DEF CallStart, AllJoined
    <3>2. CASE ~CallStart(s)
      <4>1. pump[s] # "idle"
        BY <1>7, <3>2 DEF PumpNext, MarkStarted, Take, EndRange, Visit, HandOver,
                          CloseReceiver
      <4> QED BY <1>2, <2>2, <4>1 DEF Orderly, AllJoined
    <3> QED BY <3>1, <3>2
  <2>4. OpenReceivers'
    <3> SUFFICES /\ pump'[s] \notin {"close", "done"} => rclosed' = {}
                 /\ pump'[s] = "close" => rclosed' \cap todo'[s] = {}
      BY <1>2 DEF OpenReceivers
    <3>1. /\ pump[s] \notin {"close", "done"} => rclosed = {}
          /\ pump[s] = "close" => rclosed \cap todo[s] = {}
      BY DEF Orderly, OpenReceivers
    <3>2. CASE CallStart(s) \/ MarkStarted(s) \/ EndRange(s)
      <4>1. rclosed' = rclosed /\ (pump'[s] \notin {"close", "done"} =>
                                     pump[s] \notin {"close", "done"})
            /\ pump'[s] # "close"
        BY <1>1, <3>2 DEF CallStart, MarkStarted, EndRange, TypeOK, recvVars
      <4> QED BY <3>1, <4>1
    <3>3. CASE Take(s)
      <4>1. rclosed' = rclosed /\ pump[s] = "take"
        BY <3>3 DEF Take, recvVars
      <4> QED BY <3>1, <4>1
    <3>4. ASSUME NEW r \in Receivers, Visit(s, r) \/ HandOver(s, r)
          PROVE  rclosed' = {} /\ pump'[s] \in {"range", "send"}
      <4>1. rclosed' = rclosed /\ pump[s] \in {"range", "send"}
        BY <1>1, <3>4 DEF Visit, HandOver, recvVars
      <4>2. pump'[s] \in {"range", "send"}
        BY <1>1, <3>4 DEF Visit, HandOver, TypeOK
      <4> QED BY <3>1, <4>1, <4>2
    <3>5. ASSUME NEW r \in Receivers, CloseReceiver(s, r)
          PROVE  pump'[s] = "close" /\ rclosed' \cap todo'[s] = {}
      <4>1. /\ pump[s] = "close" /\ pump' = pump /\ rclosed' = rclosed \cup {r}
            /\ todo' = [todo EXCEPT ![s] = @ \ {r}]
        BY <1>1, <3>5 DEF CloseReceiver
      <4>2. todo'[s] = todo[s] \ {r}
        BY <1>1, <4>1 DEF TypeOK
      <4> QED BY <3>1, <4>1, <4>2
    <3> QED BY <1>7, <3>2, <3>3, <3>4, <3>5 DEF PumpNext
  <2> QED BY <2>2, <2>3, <2>4
<1> QED BY <1>2, <1>3, <1>4, <1>5, <1>6, <1>7 DEF Next

\* The receivers keep in step: a message is handed over at most once to each, and the next is
\* taken when all have it.  A step of the adaptor is a step of the broadcast, or a stutter.
LEMMA InStepStep ==
  ASSUME Orderly, Liberties = {}, Next, fatal' = "none", TypeOK'
  PROVE  InStep' /\ [Abstract!BNext]_(Abstract!bvars)
<1>1. /\ ~Die("send on closed") /\ ~Die("close of closed") /\ ~Die("map race")
      /\ TypeOK
  BY DieIsFatal DEF Orderly, HandedInv
<1>2. PICK s \in Pumps : Pumps = {s}
  BY OnePump
<1>3. /\ accepted \in Nat /\ taken \in Nat /\ taken <= accepted
      /\ \A r \in Receivers : got[r] \in Seq(1 .. MaxMsgs) /\ Len(got[r]) \in Nat
  <2>1. \A r \in Receivers : got[r] \in Seq(1 .. MaxMsgs)
    BY <1>1 DEF TypeOK
  <2>2. \A r \in Receivers : Len(got[r]) \in Nat
    BY <2>1, LenProperties, Zenon
  <2> QED BY <1>1, <2>1, <2>2, Counts
<1>4. /\ \A r \in Receivers : \A i \in 1 .. Len(got[r]) : got[r][i] = i
      /\ InHand(s) => cur[s] = taken
      /\ \A r \in Receivers :
           IF Owed(s, r) THEN Len(got[r]) + 1 = taken ELSE Len(got[r]) = taken
  BY DEF Orderly, InStep
<1>5. ASSUME UNCHANGED <<got, taken>>, InHand(s)' => cur'[s] = taken,
             \A r \in Receivers : Owed(s, r)' <=> Owed(s, r)
      PROVE  InStep'
  BY <1>2, <1>4, <1>5 DEF InStep
<1>6. ASSUME UNCHANGED <<accepted, got, closed>> PROVE [Abstract!BNext]_(Abstract!bvars)
  BY <1>6 DEF Abstract!bvars
<1>7. ASSUME NEW r \in Receivers, CallSub(r) \/ AddReceiver(r)
      PROVE  InStep' /\ [Abstract!BNext]_(Abstract!bvars)
  <2>1. /\ UNCHANGED <<accepted, closed, got, taken, cur, pump, target>>
        /\ \A p \in Pumps : pump[p] = "idle"
    BY <1>1, <1>7 DEF CallSub, AddReceiver, SubAllowed, sendVars, pumpVars
  <2>2. ~InHand(s)' /\ \A q \in Receivers : ~Owed(s, q) /\ ~Owed(s, q)'
    BY <2>1 DEF Owed, InHand
  <2> QED BY <1>5, <1>6, <2>1, <2>2
<1>8. ASSUME NEW r \in Receivers, ReceiverNext(r)
      PROVE  InStep' /\ [Abstract!BNext]_(Abstract!bvars)
  <2>1. UNCHANGED <<accepted, closed, got, taken, cur, pump, todo, target>>
    BY <1>8 DEF ReceiverNext, HandlerReturns, HandlerEnds, sendVars, pumpVars
  <2> QED BY <1>4, <1>5, <1>6, <2>1 DEF Owed, InHand
<1>9. CASE (\E p \in Producers : BeginPush(p) \/ Send(p)) \/ Stop \/ ServiceStopping
  <2>1. UNCHANGED <<got, taken, cur, pump, todo, target>>
    BY <1>1, <1>9 DEF BeginPush, Send, Stop, ServiceStopping, CloseSender, recvVars, pumpVars
  <2>2. InStep'
    BY <1>4, <1>5, <2>1 DEF Owed, InHand
  <2>3. ASSUME NEW p \in Producers, BeginPush(p) \/ Send(p)
        PROVE  [Abstract!BNext]_(Abstract!bvars)
    <3>1. CASE BeginPush(p)
      BY <1>6, <2>1, <3>1 DEF BeginPush
    <3>2. CASE Send(p)
      <4>1. ~closed /\ accepted' = accepted + 1 /\ closed' = closed
        BY <1>1, <3>2 DEF Send
      <4>2. accepted < MaxMsgs
        <5>1. accepted' \in Nat /\ MaxMsgs \in Nat /\ accepted' <= MaxMsgs
          <6>1. accepted' \in 0 .. MaxMsgs
            BY DEF TypeOK
          <6> QED BY <6>1, SizesAssumption DEF SizesAssumption
        <5> QED BY ONLY <1>3, <4>1, <5>1
      <4> QED BY <2>1, <4>1, <4>2 DEF Abstract!BNext, Abstract!Accept
    <3> QED BY <2>3, <3>1, <3>2
  <2>4. CASE Stop \/ ServiceStopping
    <3>1. ~closed /\ closed' = TRUE /\ accepted' = accepted
      BY <1>1, <2>4 DEF Stop, ServiceStopping, CloseSender
    <3>2. ~closed /\ (~closed') = FALSE
      BY <3>1, Zenon
    <3>3. Abstract!Shut
      BY <2>1, <3>1, <3>2, Zenon DEF Abstract!Shut
    <3> QED BY <2>2, <3>3, Zenon DEF Abstract!BNext
  <2> QED BY <1>9, <2>2, <2>3, <2>4
<1>10. CASE CallStart(s) \/ MarkStarted(s)
  <2>1. /\ UNCHANGED <<accepted, closed, got, taken, cur, todo, target>>
        /\ pump[s] \in {"idle", "check"} /\ pump'[s] \in {"check", "take", "done"}
    BY <1>1, <1>10 DEF CallStart, MarkStarted, sendVars, recvVars, TypeOK
  <2>2. ~InHand(s)' /\ \A q \in Receivers : ~Owed(s, q) /\ ~Owed(s, q)'
    BY <2>1 DEF Owed, InHand
  <2> QED BY <1>5, <1>6, <2>1, <2>2
<1>11. CASE EndRange(s)
  <2>1. /\ UNCHANGED <<accepted, closed, got, taken, cur, todo, target>>
        /\ pump[s] \in {"range", "close"} /\ pump'[s] \in {"take", "done"} /\ todo[s] = {}
    BY <1>1, <1>11 DEF EndRange, sendVars, recvVars, TypeOK
  <2>2. ~InHand(s)' /\ \A q \in Receivers : ~Owed(s, q) /\ ~Owed(s, q)'
    BY <2>1 DEF Owed, InHand
  <2> QED BY <1>5, <1>6, <2>1, <2>2
<1>12. ASSUME NEW r \in Receivers, CloseReceiver(s, r)
       PROVE  InStep' /\ [Abstract!BNext]_(Abstract!bvars)
  <2>1. /\ UNCHANGED <<accepted, closed, got, taken, cur, pump, target>>
        /\ pump[s] = "close"
    BY <1>1, <1>12 DEF CloseReceiver, sendVars
  <2>2. ~InHand(s)' /\ \A q \in Receivers : ~Owed(s, q) /\ ~Owed(s, q)'
    BY <2>1 DEF Owed, InHand
  <2> QED BY <1>5, <1>6, <2>1, <2>2
<1>13. ASSUME NEW r \in Receivers, Visit(s, r)
       PROVE  InStep' /\ [Abstract!BNext]_(Abstract!bvars)
  <2>1. /\ UNCHANGED <<accepted, closed, got, taken, cur>>
        /\ pump[s] = "range" /\ r \in todo[s]
    BY <1>13 DEF Visit, sendVars, recvVars
  <2>2. pump'[s] = "send" /\ target'[s] = r /\ todo'[s] = todo[s] \ {r}
    BY <1>1, <1>13 DEF Visit, TypeOK
  <2>3. \A q \in Receivers : Owed(s, q)' <=> Owed(s, q)
    BY <2>1, <2>2 DEF Owed, InHand
  <2>4. cur'[s] = taken
    BY <1>4, <2>1 DEF InHand
  <2> QED BY <1>5, <1>6, <2>1, <2>3, <2>4
<1>14. CASE Take(s)
  <2>1. /\ UNCHANGED <<accepted, closed, got>> /\ Registered' = Registered
        /\ pump[s] = "take"
        /\ todo'[s] = Registered
        /\ \/ taken' = taken + 1 /\ cur'[s] = taken + 1 /\ pump'[s] = "range"
           \/ taken' = taken /\ pump'[s] = "close"
    BY <1>1, <1>14 DEF Take, TypeOK, sendVars, recvVars, Registered
  <2>2. \A r \in Receivers : ~Owed(s, r) /\ Len(got[r]) = taken
    <3>1. \A r \in Receivers : ~Owed(s, r)
      BY <2>1 DEF Owed, InHand
    <3> QED BY <1>3, <1>4, <3>1
  <2>3. Registered = Receivers
    BY <2>1 DEF Orderly, AllJoined
  <2>4. CASE taken' = taken + 1 /\ cur'[s] = taken + 1 /\ pump'[s] = "range"
    <3>1. \A r \in Receivers : Owed(s, r)'
      BY <2>1, <2>3, <2>4 DEF Owed, InHand
    <3>2. \A r \in Receivers :
            IF Owed(s, r)' THEN Len(got'[r]) + 1 = taken' ELSE Len(got'[r]) = taken'
      BY <2>1, <2>2, <2>4, <3>1
    <3> QED BY <1>2, <1>4, <1>6, <2>1, <2>4, <3>2 DEF InStep
  <2>5. CASE taken' = taken /\ pump'[s] = "close"
    <3>1. ~InHand(s)' /\ \A r \in Receivers : ~Owed(s, r)'
      BY <2>5 DEF Owed, InHand
    <3> QED BY <1>5, <1>6, <2>1, <2>2, <2>5, <3>1
  <2> QED BY <2>1, <2>4, <2>5
<1>15. ASSUME NEW r \in Receivers, HandOver(s, r)
       PROVE  InStep' /\ [Abstract!BNext]_(Abstract!bvars)
  <2>1. /\ pump[s] = "send" /\ target[s] = r
        /\ got' = [got EXCEPT ![r] = Append(@, cur[s])]
        /\ UNCHANGED <<accepted, closed, taken, cur, todo, target>>
    BY <1>1, <1>15 DEF HandOver, sendVars
  <2>2. pump'[s] = "range"
    BY <1>1, <1>15, ZenonT(30) DEF HandOver, TypeOK
  <2>3. /\ Owed(s, r) /\ InHand(s) /\ r \notin todo[s]
        /\ cur[s] = taken /\ cur[s] \in 1 .. taken
    BY <1>4, <2>1 DEF Owed, InHand, Orderly, HandedInv, VisitsRegistered, OneHandEach
  <2>4. cur[s] \in 1 .. MaxMsgs
    <3>1. taken <= MaxMsgs /\ MaxMsgs \in Nat
      <4>1. taken <= accepted /\ accepted <= MaxMsgs /\ MaxMsgs \in Nat
        BY <1>1, Counts
      <4> QED BY ONLY <1>3, <4>1
    <3> QED BY ONLY <1>3, <2>3, <3>1
  <2>5. /\ \A q \in Receivers \ {r} : got'[q] = got[q]
        /\ Len(got[r]) \in Nat /\ Len(got'[r]) = Len(got[r]) + 1
        /\ got'[r][Len(got[r]) + 1] = cur[s]
        /\ \A i \in 1 .. Len(got[r]) : got'[r][i] = got[r][i]
    BY <1>1, <2>1, <2>4, Appended
  <2>6. Len(got[r]) + 1 = taken
    BY <1>4, <2>3
  <2>7. ~Owed(s, r)' /\ \A q \in Receivers \ {r} : Owed(s, q)' <=> Owed(s, q)
    BY <2>1, <2>2, <2>3 DEF Owed, InHand
  <2>8. ASSUME NEW q \in Receivers, NEW i \in 1 .. Len(got'[q]) PROVE got'[q][i] = i
    <3>1. CASE q # r
      <4>1. got'[q] = got[q] /\ i \in 1 .. Len(got[q])
        BY <2>5, <3>1, Zenon
      <4> QED BY <1>4, <4>1
    <3>2. CASE q = r
      <4>1. i \in 1 .. Len(got[r]) \/ i = Len(got[r]) + 1
        BY ONLY <2>5, <3>2, i \in 1 .. Len(got'[q])
      <4> QED BY <1>4, <2>3, <2>5, <2>6, <3>2, <4>1
    <3> QED BY <3>1, <3>2
  <2>9. \A q \in Receivers :
          IF Owed(s, q)' THEN Len(got'[q]) + 1 = taken' ELSE Len(got'[q]) = taken'
    <3>1. Len(got'[r]) = taken'
      BY ONLY <1>3, <2>1, <2>5, <2>6
    <3>2. \A q \in Receivers \ {r} :
            IF Owed(s, q)' THEN Len(got'[q]) + 1 = taken' ELSE Len(got'[q]) = taken'
      BY <1>4, <2>1, <2>5, <2>7
    <3> QED BY <2>7, <3>1, <3>2
  <2>10. InStep'
    BY <1>2, <2>1, <2>3, <2>8, <2>9 DEF InStep
  <2>11. Abstract!HandOver(r)
    <3>1. Len(got[r]) < accepted
      BY ONLY <1>3, <2>5, <2>6
    <3>2. \A q \in Receivers : Len(got[r]) <= Len(got[q])
      <4> SUFFICES ASSUME NEW q \in Receivers PROVE Len(got[r]) <= Len(got[q])
        OBVIOUS
      <4>1. /\ Len(got[q]) + 1 = taken \/ Len(got[q]) = taken
            /\ Len(got[q]) \in Nat
        BY <1>3, <1>4
      <4> QED BY ONLY <1>3, <2>5, <2>6, <4>1
    <3>3. got' = [got EXCEPT ![r] = Append(@, Len(@) + 1)]
      BY <2>1, <2>3, <2>6
    <3> QED BY <2>1, <3>1, <3>2, <3>3 DEF Abstract!HandOver
  <2> QED BY <2>10, <2>11 DEF Abstract!BNext
<1>16. CASE PumpNext(s)
  BY <1>10, <1>11, <1>12, <1>13, <1>14, <1>15, <1>16 DEF PumpNext
<1> QED BY <1>2, <1>7, <1>8, <1>9, <1>16 DEF Next

LEMMA OrderlyStep ==
  ASSUME Liberties = {}
  PROVE  Orderly /\ [Next]_vars => Orderly' /\ [Abstract!BNext]_(Abstract!bvars)
<1> SUFFICES ASSUME Orderly, [Next]_vars
             PROVE  Orderly' /\ [Abstract!BNext]_(Abstract!bvars)
  OBVIOUS
<1>1. HandedInv'
  BY HandedStep DEF Orderly
<1>2. CASE Next
  <2>1. fatal' = "none"
    BY <1>2, NobodyDies
  <2>2. QuietClose' /\ AllJoined' /\ OpenReceivers'
    BY <1>2, <2>1, OrderStep
  <2>3. InStep' /\ [Abstract!BNext]_(Abstract!bvars)
    BY <1>1, <1>2, <2>1, InStepStep DEF HandedInv
  <2> QED BY <1>1, <2>1, <2>2, <2>3 DEF Orderly, NoPanic
<1>3. CASE UNCHANGED vars
  <2>1. UNCHANGED <<accepted, taken, closed, started, sub, got, handler, rclosed, push,
                    pump, cur, todo, target, fatal>>
    BY <1>3 DEF vars
  <2>2. NoPanic' /\ QuietClose' /\ AllJoined' /\ OpenReceivers'
    BY <2>1 DEF Orderly, NoPanic, QuietClose, AllJoined, OpenReceivers, Registered
  <2>3. InStep'
    BY <2>1 DEF Orderly, InStep, InHand, Owed
  <2> QED BY <1>1, <2>1, <2>2, <2>3 DEF Orderly, Abstract!bvars
<1> QED BY <1>2, <1>3

\* As long as callers keep to one Start, one close and no Push during or after it, and every
\* receiver joins before the Start, no operation on a channel panics.
THEOREM OrderlyNeverPanics ==
  ASSUME Liberties = {}
  PROVE  Spec => []NoPanic
<1>1. Orderly => NoPanic
  BY DEF Orderly
<1>2. Orderly /\ [Next]_vars => Orderly'
  BY OrderlyStep
<1> QED BY <1>1, <1>2, OrderlyInit, PTL DEF Spec

\* For such callers the adaptor is the broadcast: every step is one of it or invisible to it,
\* so all receivers get the same messages, in the order of acceptance, in step.
THEOREM FanOutIsBroadcast ==
  ASSUME Liberties = {}
  PROVE  Spec => Abstract!BSafe
<1>1. Init => Abstract!BInit
  BY DEF Init, Abstract!BInit
<1>2. Orderly /\ [Next]_vars => Orderly'
  BY OrderlyStep
<1>3. Orderly /\ [Next]_vars => [Abstract!BNext]_(Abstract!bvars)
  BY OrderlyStep
<1> QED BY <1>1, <1>2, <1>3, OrderlyInit, PTL DEF Spec, Abstract!BSafe
=============================================================================
