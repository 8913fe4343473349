-------------------------- MODULE RedisStream_proofs --------------------------
(***************************************************************************)
(* At least once, for every set of consumers, every number of messages and *)
(* every MAXLEN: an entry leaves the list of pending entries only once it  *)
(* has been processed, abandoned or trimmed off the stream, whichever      *)
(* commands fail and whichever processes die between reading it and        *)
(* acknowledging it.                                                       *)
(***************************************************************************)
EXTENDS RedisStream, WellFoundedInduction, TLAPS

\* What a read loop acknowledges next has been processed.
HandsDone == \A c \in Consumers : hand[c] # NoMsg => hand[c] \in done

\* What the sweep acknowledges next has been processed, abandoned or trimmed.
SettleSettled == settle # NoMsg => Settled(settle)

IInv ==
  /\ TypeOK
  /\ HandsDone
  /\ SettleSettled
  /\ NothingForgotten

-----------------------------------------------------------------------------

\* A set of messages that is not empty has a least one.
LEMMA LeastIsLeast ==
  ASSUME NEW S \in SUBSET Msgs, S # {}
  PROVE  Least(S) \in S /\ \A k \in S : Least(S) <= k
<1> DEFINE Less == {ss \in Nat \X Nat : ss[1] < ss[2]}
<1>1. S \subseteq Nat
  BY StreamAssumption DEF Msgs
<1>2. IsWellFoundedOn(Less, Nat)
  BY NatLessThanWellFounded DEF OpToRel
<1>3. \A k, m \in Nat : k < m => <<k, m>> \in Less
  OBVIOUS
<1> HIDE DEF Less
<1>4. PICK m \in S : \A k \in S : ~(<<k, m>> \in Less)
  BY <1>1, <1>2, WFMin
<1>5. ASSUME NEW k \in S PROVE m <= k
  <2>1. k \in Nat /\ m \in Nat
    BY <1>1
  <2>2. ~(k < m)
    BY <1>3, <1>4, <2>1, Zenon
  <2> QED BY <2>1, <2>2
<1> QED BY <1>5 DEF Least

\* The invariant holds at the start.
LEMMA InvInit == Init => IInv
<1> SUFFICES ASSUME Init PROVE IInv
  OBVIOUS
<1>1. TypeOK
  <2>1. 0 \in 0 .. 0 /\ 0 \in 0 .. MaxMsgs
    BY StreamAssumption
  <2> QED BY <2>1 DEF Init, TypeOK
<1> QED BY <1>1 DEF Init, IInv, HandsDone, SettleSettled, NothingForgotten

\* Publishing, time and the read loops keep the types.
LEMMA LoopTypes ==
  ASSUME TypeOK,
         Pub \/ GrowOld \/ \E c \in Consumers :
           Sub(c) \/ Loop(c) \/ ReadLost(c) \/ AckError(c) \/ Crash(c)
  PROVE  TypeOK'
<1> USE StreamAssumption DEF TypeOK, Msgs, streamVars, loopVars, sweepVars
<1>1. CASE Pub  BY <1>1 DEF Pub
<1>2. CASE GrowOld  BY <1>2 DEF GrowOld
<1>3. ASSUME NEW c \in Consumers, Sub(c) PROVE TypeOK'
  BY <1>3 DEF Sub
<1>4. ASSUME NEW c \in Consumers, ReadNew(c) \/ ReadLost(c) PROVE TypeOK'
  <2>1. pel' \in [Msgs -> Consumers \cup {NoOne}] /\ delivered' \in 0 .. last
    BY <1>4, SMTT(30) DEF ReadNew, ReadLost, Deliver
  <2>2. batch' \in [Consumers -> SUBSET Msgs]
    BY <1>4 DEF ReadNew, ReadLost, Deliver, Undelivered
  <2> QED BY <1>4, <2>1, <2>2 DEF ReadNew, ReadLost, Deliver
<1>5. ASSUME NEW c \in Consumers, Handle(c) PROVE TypeOK'
  <2>1. Least(batch[c]) \in Msgs
    BY <1>5, LeastIsLeast DEF Handle
  <2> QED BY <1>5, <2>1, ZenonT(30) DEF Handle
<1>6. ASSUME NEW c \in Consumers, Ack(c) PROVE TypeOK'
  <2>1. hand[c] \in Msgs
    BY <1>6 DEF Ack
  <2> QED BY <1>6, <2>1 DEF Ack
<1>7. ASSUME NEW c \in Consumers, AckError(c) PROVE TypeOK'
  BY <1>7 DEF AckError
<1>8. ASSUME NEW c \in Consumers, Crash(c) PROVE TypeOK'
  BY <1>8 DEF Crash
<1> QED BY <1>1, <1>2, <1>3, <1>4, <1>5, <1>6, <1>7, <1>8 DEF Loop

\* So does the sweep.
LEMMA SweepTypes ==
  ASSUME TypeOK,
         Sweep \/ SweepAckError \/ AbortSweep \/ \E c \in Consumers : ListError(c)
  PROVE  TypeOK'
<1> USE StreamAssumption DEF TypeOK, Msgs, streamVars, loopVars, sweepVars
<1>1. CASE BeginSweep
  <2>1. upTo' \in 0 .. MaxMsgs /\ sweep' \in SUBSET Consumers
    BY <1>1 DEF BeginSweep
  <2> QED BY <1>1, <2>1 DEF BeginSweep
<1>2. ASSUME NEW c \in Consumers, ListPending(c) PROVE TypeOK'
  <2>1. items' \in SUBSET Msgs
    BY <1>2 DEF ListPending, PendingOf
  <2> QED BY <1>2, <2>1 DEF ListPending
<1>8. ASSUME NEW c \in Consumers, ListError(c) PROVE TypeOK'
  BY <1>8 DEF ListError
<1>3. CASE ReadBack
  <2> DEFINE found == After(Least(items))
  <2>1. found \subseteq Msgs
    BY DEF After, PendingOf
  <2>2. found # {} => Least(found) \in Msgs
    BY <2>1, LeastIsLeast
  <2> QED BY <1>3, <2>2 DEF ReadBack
<1>4. CASE Retry  BY <1>4 DEF Retry
<1>5. CASE SweepAck \/ SweepAckError  BY <1>5 DEF SweepAck, SweepAckError
<1>6. CASE EndConsumer  BY <1>6 DEF EndConsumer
<1>7. CASE AbortSweep  BY <1>7 DEF AbortSweep
<1> QED BY <1>1, <1>2, <1>3, <1>4, <1>5, <1>6, <1>7, <1>8 DEF Sweep

\* What is settled stays settled.
LEMMA SettledStays ==
  ASSUME TypeOK, [Next]_vars, NEW m \in Msgs, Settled(m)
  PROVE  Settled(m)'
<1> USE StreamAssumption DEF Msgs, TypeOK, Settled, vars, streamVars, loopVars, sweepVars
<1>1. CASE Pub  BY <1>1 DEF Pub
<1>2. CASE GrowOld  BY <1>2 DEF GrowOld
<1>3. ASSUME NEW c \in Consumers, Sub(c) \/ Loop(c) PROVE Settled(m)'
  BY <1>3 DEF Sub, Loop, ReadNew, Deliver, Handle, Ack
<1>4. CASE Sweep
  BY <1>4 DEF Sweep, BeginSweep, ListPending, ReadBack, Retry, SweepAck, EndConsumer
<1>5. CASE Failure
  BY <1>5 DEF Failure, SweepAckError, AbortSweep, ReadLost, Deliver, AckError, Crash, ListError
<1>6. CASE UNCHANGED vars  BY <1>6
<1> QED BY <1>1, <1>2, <1>3, <1>4, <1>5, <1>6 DEF Next

\* The read loops acknowledge what their processor has handled without an error.
LEMMA HandsStep == IInv /\ [Next]_vars => HandsDone'
<1> SUFFICES ASSUME IInv, [Next]_vars PROVE HandsDone'
  OBVIOUS
<1> USE DEF IInv, TypeOK, HandsDone, vars, streamVars, loopVars, sweepVars
<1>1. CASE Pub \/ GrowOld  BY <1>1 DEF Pub, GrowOld
<1>2. ASSUME NEW c \in Consumers, Sub(c) PROVE HandsDone'
  BY <1>2 DEF Sub
<1>3. ASSUME NEW c \in Consumers, ReadNew(c) \/ ReadLost(c) PROVE HandsDone'
  BY <1>3 DEF ReadNew, ReadLost, Deliver
<1>4. ASSUME NEW c \in Consumers, Handle(c) PROVE HandsDone'
  BY <1>4 DEF Handle
<1>5. ASSUME NEW c \in Consumers, Ack(c) \/ AckError(c) \/ Crash(c) PROVE HandsDone'
  BY <1>5 DEF Ack, AckError, Crash
<1>6. ASSUME NEW c \in Consumers, ListPending(c) \/ ListError(c) PROVE HandsDone'
  BY <1>6 DEF ListPending, ListError
<1>7. CASE BeginSweep \/ ReadBack \/ Retry \/ SweepAck \/ EndConsumer
  BY <1>7 DEF BeginSweep, ReadBack, Retry, SweepAck, EndConsumer
<1>8. CASE SweepAckError \/ AbortSweep  BY <1>8 DEF SweepAckError, AbortSweep
<1>9. CASE UNCHANGED vars  BY <1>9
<1> QED
  BY <1>1, <1>2, <1>3, <1>4, <1>5, <1>6, <1>7, <1>8, <1>9
     DEF Next, Sweep, Failure, Loop

\* The sweep acknowledges what it has handled or found trimmed; what it reads back
\* untrimmed it hands to the processor first.
LEMMA SettleStep == IInv /\ [Next]_vars => SettleSettled'
<1> SUFFICES ASSUME IInv, [Next]_vars, settle' # NoMsg PROVE Settled(settle)'
  BY DEF SettleSettled
<1>1. CASE settle' = settle
  <2>1. settle \in Msgs /\ Settled(settle)
    BY <1>1 DEF IInv, TypeOK, SettleSettled
  <2> QED BY <1>1, <2>1, SettledStays DEF IInv, Settled
<1>2. CASE ReadBack /\ settle' # settle
  BY <1>2 DEF ReadBack, Settled, streamVars
<1>3. CASE Retry /\ settle' # settle
  BY <1>3 DEF Retry, Settled
<1>4. settle' = settle \/ ReadBack \/ Retry
  BY DEF Next, Pub, GrowOld, Sub, Loop, ReadNew, Deliver, Handle, Ack, Sweep, BeginSweep,
         ListPending, SweepAck, EndConsumer, Failure, SweepAckError, AbortSweep, ReadLost,
         AckError, Crash, ListError, vars, sweepVars
<1> QED BY <1>1, <1>2, <1>3, <1>4

\* An entry is taken off the list of those pending by an XACK only.
LEMMA PelStep ==
  ASSUME TypeOK, [Next]_vars, NEW m \in Msgs, pel[m] # NoOne, pel'[m] = NoOne
  PROVE  (\E c \in Consumers : m = hand[c] /\ hand[c] # NoMsg) \/ (m = settle /\ settle # NoMsg)
<1> USE DEF TypeOK, vars, streamVars, loopVars, sweepVars
<1>1. ASSUME NEW c \in Consumers, Deliver(c) PROVE FALSE
  BY <1>1, StreamAssumption DEF Deliver
<1>2. ASSUME NEW c \in Consumers, Ack(c)
      PROVE  m = hand[c] /\ hand[c] # NoMsg
  BY <1>2 DEF Ack
<1>3. CASE SweepAck  BY <1>3 DEF SweepAck
<1>4. \/ pel' = pel \/ SweepAck
      \/ \E c \in Consumers : Deliver(c) \/ Ack(c)
  BY DEF Next, Pub, GrowOld, Sub, Loop, ReadNew, Handle, Sweep, BeginSweep, ReadBack, Retry,
         ListPending, EndConsumer, Failure, SweepAckError, AbortSweep, ReadLost,
         AckError, Crash, ListError
<1> QED BY <1>1, <1>2, <1>3, <1>4

\* Nothing is forgotten.  The group moves past a message only by making it pending for
\* the reader, unless it has been trimmed; a group that is made or reset begins with
\* nothing behind it; and an XACK is for what has been settled.
LEMMA ForgottenStep == IInv /\ [Next]_vars => NothingForgotten'
<1> SUFFICES ASSUME IInv, [Next]_vars, group', NEW m \in Msgs, m > start', m <= last'
             PROVE  m > delivered' \/ pel'[m] # NoOne \/ Settled(m)'
  BY DEF NothingForgotten, Settled
<1> USE DEF IInv, Msgs
<1>1. m \in Nat /\ last \in Nat /\ delivered \in 0 .. last /\ start \in 0 .. last
  BY StreamAssumption DEF TypeOK
<1>2. Settled(m) => Settled(m)'
  BY SettledStays
<1>3. CASE UNCHANGED streamVars
  <2>1. m > delivered \/ pel[m] # NoOne \/ Settled(m)
    BY <1>3 DEF streamVars, NothingForgotten
  <2>2. ASSUME pel[m] # NoOne, pel'[m] = NoOne PROVE Settled(m)
    BY <2>2, PelStep DEF HandsDone, SettleSettled, Settled
  <2> QED BY <1>2, <1>3, <2>1, <2>2 DEF streamVars
<1>4. CASE Pub
  <2>1. CASE m = last + 1
    BY <1>1, <1>4, <2>1 DEF Pub
  <2>2. CASE m # last + 1
    <3>1. m > delivered \/ pel[m] # NoOne \/ Settled(m)
      BY <1>1, <1>4, <2>2 DEF Pub, NothingForgotten
    <3> QED BY <1>2, <1>4, <3>1 DEF Pub
  <2> QED BY <2>1, <2>2
<1>5. ASSUME NEW c \in Consumers, Sub(c)
      PROVE  m > delivered' \/ pel'[m] # NoOne \/ Settled(m)'
  <2>1. CASE ResetTopic \/ ~group
    BY <1>1, <1>5, <2>1 DEF Sub
  <2>2. CASE ~ResetTopic /\ group
    <3>1. m > delivered \/ pel[m] # NoOne \/ Settled(m)
      BY <1>5, <2>2 DEF Sub, NothingForgotten
    <3> QED BY <1>2, <1>5, <2>2, <3>1 DEF Sub
  <2> QED BY <2>1, <2>2
<1>6. ASSUME NEW c \in Consumers, Deliver(c)
      PROVE  m > delivered' \/ pel'[m] # NoOne \/ Settled(m)'
  <2>1. CASE m \in Undelivered
    BY <1>6, <2>1, StreamAssumption DEF Deliver
  <2>2. CASE m \notin Undelivered
    <3>1. m <= delivered \/ m <= trimmed
      BY <1>1, <1>6, <2>2 DEF Deliver, Undelivered, TypeOK
    <3>2. pel[m] # NoOne \/ Settled(m)
      BY <1>1, <1>6, <3>1 DEF Deliver, NothingForgotten, Settled
    <3> QED BY <1>2, <1>6, <2>2, <3>2 DEF Deliver
  <2> QED BY <2>1, <2>2
<1>7. \/ Pub \/ UNCHANGED streamVars
      \/ \E c \in Consumers : Sub(c) \/ Deliver(c)
  BY DEF Next, GrowOld, Loop, ReadNew, Handle, Ack, Sweep, BeginSweep, ReadBack, Retry,
         ListPending, SweepAck, EndConsumer, Failure, SweepAckError, AbortSweep, ReadLost,
         AckError, Crash, ListError, vars, streamVars
<1> QED BY <1>3, <1>4, <1>5, <1>6, <1>7

\* The inductive invariant holds throughout.
LEMMA Invariance == Spec => []IInv
<1>1. TypeOK /\ [Next]_vars => TypeOK'
  <2> SUFFICES ASSUME TypeOK, [Next]_vars PROVE TypeOK'
    OBVIOUS
  <2>1. CASE UNCHANGED vars  BY <2>1 DEF TypeOK, vars
  <2>2. CASE Next  BY <2>2, LoopTypes, SweepTypes DEF Next, Failure
  <2> QED BY <2>1, <2>2
<1>2. IInv /\ [Next]_vars => IInv'
  BY <1>1, HandsStep, SettleStep, ForgottenStep DEF IInv
<1> QED BY <1>2, InvInit, PTL DEF Spec

\* The variables keep their types.
THEOREM StreamTypeCorrect == Spec => []TypeOK
<1>1. IInv => TypeOK  BY DEF IInv
<1> QED BY <1>1, Invariance, PTL

\* redisStreaming.go: a message published since the group exists is never lost between
\* delivery, processing, acknowledgement and the sweep of pending entries.
THEOREM AtLeastOnce == Spec => []NothingForgotten
<1>1. IInv => NothingForgotten  BY DEF IInv
<1> QED BY <1>1, Invariance, PTL

\* redisStreaming.go:94, 173: an entry that stops pending has been processed, abandoned or
\* trimmed: no step acknowledges a message whose processor failed.
THEOREM AcksSettledOnly ==
  Spec => [][\A m \in Msgs : pel[m] # NoOne /\ pel'[m] = NoOne => Settled(m)]_vars
<1>1. IInv /\ [Next]_vars =>
        [\A m \in Msgs : pel[m] # NoOne /\ pel'[m] = NoOne => Settled(m)]_vars
  BY PelStep DEF IInv, HandsDone, SettleSettled, Settled
<1> QED BY <1>1, Invariance, PTL DEF Spec
=============================================================================
