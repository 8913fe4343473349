---------------------------- MODULE Loops_proofs ----------------------------
(***************************************************************************)
(* Proofs about the components that owe somebody an answer: the blocking   *)
(* queue (BlockingQueue), the step runners (Steps), the table clean-up     *)
(* (Cleanup) and the writer of parquet files (ParquetWriter); those about  *)
(* the fan-out are in ChanAdaptor_proofs.  Each has its inductive invariant: *)
(* QueueInv, StepsInv, CleanupInv and WriterInv.  In the end the parts are *)
(* put together as the run does.                                           *)
(***************************************************************************)
EXTENDS MCLiveness, ChanAdaptor_proofs, WellFoundedInduction

-----------------------------------------------------------------------------
(* BlockingQueue                                                           *)

\* After Close the queue is empty and no Pop waits in it: Close wakes them all, and
\* whoever looks again finds closed set.
ClosedIsLeft == shut => data = <<>> /\ waiters = {}

\* The queue holds the last items pushed, in the order of the pushes and without a gap:
\* a Pop takes the oldest, Clear and Close all of them.
LatestInOrder == \A i \in 1 .. Len(data) : data[i] + Len(data) = pushed + i

QueueInv ==
  /\ QueueTypeOK
  /\ NoLostWakeup
  /\ ClosedIsLeft
  /\ LatestInOrder

-----------------------------------------------------------------------------

\* Sets of goroutines are finite, and counted one up when one is added and one down
\* when one is taken away.
LEMMA Goroutines ==
  ASSUME NEW S \in SUBSET Consumers, NEW c \in Consumers
  PROVE  /\ Cardinality(S) \in Nat
         /\ c \notin S => Cardinality(S \cup {c}) = Cardinality(S) + 1
         /\ c \in S => Cardinality(S \ {c}) = Cardinality(S) - 1
<1>1. IsFiniteSet(S)
  BY QueueAssumption, FS_Subset
<1> QED BY <1>1, FS_CardinalityType, FS_AddElement, FS_RemoveElement

\* The variables keep their types.
LEMMA QueueTypes == QueueTypeOK /\ [QueueNext]_queueVars => QueueTypeOK'
<1> SUFFICES ASSUME QueueTypeOK, [QueueNext]_queueVars PROVE QueueTypeOK'
  OBVIOUS
<1> USE QueueAssumption DEF QueueTypeOK
<1>1. CASE Push
  <2>1. data' \in Seq(1 .. MaxItems) /\ pushed' \in 0 .. MaxItems
    BY <1>1 DEF Push
  <2> QED BY <1>1, <2>1 DEF Push, Signal
<1>2. CASE Clear  BY <1>2 DEF Clear
<1>3. CASE Close  BY <1>3 DEF Close
<1>4. ASSUME NEW c \in Consumers, TakeOrWait(c)
      PROVE  /\ data' \in Seq(1 .. MaxItems) /\ caught' \in SUBSET Consumers
             /\ waiters' \in {waiters, waiters \cup {c}}
  <2>1. data' \in Seq(1 .. MaxItems)
    <3>1. data' = data \/ (data # <<>> /\ data' = Tail(data))
      BY <1>4 DEF TakeOrWait
    <3>2. data \in Seq(1 .. MaxItems)
      OBVIOUS
    <3> QED BY ONLY <3>1, <3>2
  <2>2. caught' \in SUBSET Consumers /\ waiters' \in {waiters, waiters \cup {c}}
    BY <1>4 DEF TakeOrWait
  <2> QED BY <2>1, <2>2
<1>5. ASSUME NEW c \in Consumers, EnterPop(c) PROVE QueueTypeOK'
  BY <1>4, <1>5 DEF EnterPop
<1>6. ASSUME NEW c \in Consumers, ResumePop(c) PROVE QueueTypeOK'
  BY <1>4, <1>6 DEF ResumePop
<1>7. CASE UNCHANGED queueVars  BY <1>7 DEF queueVars
<1> QED BY <1>1, <1>2, <1>3, <1>5, <1>6, <1>7 DEF QueueNext

\* An item that arrives while somebody waits wakes one more, and a Pop uses up its own
\* wake-up with the item it takes, or finds the queue empty.
LEMMA QueueWakes == QueueInv /\ [QueueNext]_queueVars => NoLostWakeup'
<1> SUFFICES ASSUME QueueInv, [QueueNext]_queueVars, waiters' # {}
             PROVE  Len(data') <= Cardinality(woken')
  BY DEF NoLostWakeup
<1> USE DEF QueueInv, QueueTypeOK
<1>1. woken' \in SUBSET Consumers
  BY QueueTypes
<1>2. data' = <<>> => Len(data') <= Cardinality(woken')
  <2>1. Cardinality(woken') \in Nat
    BY <1>1, Goroutines, QueueTypes
  <2> QED BY <2>1
<1>3. CASE Push
  <2>1. Len(data') = Len(data) + 1
    BY <1>3 DEF Push
  <2>2. PICK c \in waiters : woken' = woken \cup {c}
    BY <1>3 DEF Push, Signal
  <2>3. Len(data) <= Cardinality(woken)
    BY <2>2 DEF NoLostWakeup
  <2>4. Cardinality(woken') = Cardinality(woken) + 1 /\ Cardinality(woken) \in Nat
    BY <2>2, Goroutines
  <2> QED BY <2>1, <2>3, <2>4
<1>4. CASE Clear  BY <1>2, <1>4 DEF Clear
<1>5. CASE Close  BY <1>2, <1>5 DEF Close
<1>6. ASSUME NEW c \in Consumers, EnterPop(c) \/ ResumePop(c), data # <<>>
      PROVE  Len(data') <= Cardinality(woken')
  <2>1. Len(data') = Len(data) - 1 /\ waiters' = waiters
    BY <1>6 DEF EnterPop, ResumePop, TakeOrWait
  <2>2. Len(data) <= Cardinality(woken)
    BY <2>1 DEF NoLostWakeup
  <2>3. Cardinality(woken) \in Nat /\ Len(data) \in Nat
    <3>1. woken \in SUBSET Consumers  OBVIOUS
    <3>2. Cardinality(woken) \in Nat  BY <3>1, Goroutines
    <3>3. Len(data) \in Nat  OBVIOUS
    <3> QED BY <3>2, <3>3
  <2>4. CASE woken' = woken
    BY <2>1, <2>2, <2>3, <2>4
  <2>5. CASE c \in woken /\ woken' = woken \ {c}
    <3>1. Cardinality(woken') = Cardinality(woken) - 1
      BY <2>5, Goroutines
    <3> QED BY <2>1, <2>2, <2>3, <3>1
  <2> QED BY <1>6, <2>4, <2>5 DEF EnterPop, ResumePop
<1>7. ASSUME NEW c \in Consumers, EnterPop(c) \/ ResumePop(c), data = <<>>
      PROVE  Len(data') <= Cardinality(woken')
  BY <1>2, <1>7 DEF EnterPop, ResumePop, TakeOrWait
<1>8. CASE UNCHANGED queueVars  BY <1>8 DEF queueVars, NoLostWakeup
<1> QED BY <1>3, <1>4, <1>5, <1>6, <1>7, <1>8 DEF QueueNext

\* Nothing enters a closed queue, and no Pop begins to wait there.
LEMMA QueueCloses == QueueInv /\ [QueueNext]_queueVars => ClosedIsLeft'
<1> SUFFICES ASSUME QueueInv, [QueueNext]_queueVars PROVE ClosedIsLeft'
  OBVIOUS
<1> USE DEF QueueInv, ClosedIsLeft
<1>1. CASE Push  BY <1>1 DEF Push
<1>2. CASE Clear  BY <1>2 DEF Clear
<1>3. CASE Close  BY <1>3 DEF Close
<1>4. ASSUME NEW c \in Consumers, EnterPop(c) \/ ResumePop(c) PROVE ClosedIsLeft'
  BY <1>4 DEF EnterPop, ResumePop, TakeOrWait
<1>5. CASE UNCHANGED queueVars  BY <1>5 DEF queueVars
<1> QED BY <1>1, <1>2, <1>3, <1>4, <1>5 DEF QueueNext

\* Push appends the next number, a Pop takes the head off.
LEMMA QueueInOrder == QueueInv /\ [QueueNext]_queueVars => LatestInOrder'
<1> SUFFICES ASSUME QueueInv, [QueueNext]_queueVars PROVE LatestInOrder'
  OBVIOUS
<1> USE QueueAssumption DEF QueueInv, LatestInOrder, QueueTypeOK
<1>1. CASE Push
  <2>1. data' = Append(data, pushed + 1) /\ pushed' = pushed + 1
    BY <1>1 DEF Push
  <2> SUFFICES ASSUME NEW i \in 1 .. Len(data')
               PROVE  data'[i] + Len(data') = pushed' + i
    OBVIOUS
  <2>2. Len(data') = Len(data) + 1 /\ Len(data) \in Nat /\ pushed \in Nat
    BY <2>1
  <2>3. CASE i \in 1 .. Len(data)
    <3>1. data'[i] = data[i] /\ data[i] \in Nat  BY <2>1, <2>3
    <3>2. data[i] + Len(data) = pushed + i  BY <2>3
    <3>3. i \in Nat  BY <2>2, <2>3
    <3> QED BY ONLY <2>1, <2>2, <3>1, <3>2, <3>3, SMTT(30)
  <2>4. CASE i = Len(data) + 1
    <3>1. data'[i] = pushed + 1  BY <2>1, <2>4
    <3> QED BY <2>1, <2>2, <2>4, <3>1
  <2> QED BY <2>2, <2>3, <2>4
<1>2. CASE Clear  BY <1>2 DEF Clear
<1>3. CASE Close  BY <1>3 DEF Close
<1>4. ASSUME NEW c \in Consumers, EnterPop(c) \/ ResumePop(c) PROVE LatestInOrder'
  <2>1. pushed' = pushed
    BY <1>4 DEF EnterPop, ResumePop
  <2>2. CASE data' = data
    BY <2>1, <2>2
  <2>3. CASE data # <<>> /\ data' = Tail(data)
    <3>1. Len(data') = Len(data) - 1 /\ Len(data) \in Nat /\ pushed \in Nat
      BY <2>3
    <3>2. ASSUME NEW i \in 1 .. Len(data')
          PROVE  data'[i] + Len(data') = pushed' + i
      <4>1. data'[i] = data[i + 1] /\ i + 1 \in 1 .. Len(data)  BY <2>3, <3>1
      <4>2. data[i + 1] + Len(data) = pushed + (i + 1) /\ data[i + 1] \in Nat
        BY <4>1
      <4>3. i \in Nat  BY <3>1
      <4> QED BY ONLY <2>1, <3>1, <4>1, <4>2, <4>3
    <3> QED BY <3>2
  <2> QED BY <1>4, <2>2, <2>3 DEF EnterPop, ResumePop, TakeOrWait
<1>5. CASE UNCHANGED queueVars  BY <1>5 DEF queueVars
<1> QED BY <1>1, <1>2, <1>3, <1>4, <1>5 DEF QueueNext

\* The inductive invariant holds throughout.
LEMMA QueueAlways == QueueSpec => []QueueInv
<1>1. QueueInit => QueueInv
  <2> SUFFICES ASSUME QueueInit PROVE QueueInv
    OBVIOUS
  <2>1. <<>> \in Seq(1 .. MaxItems) /\ 0 \in 0 .. MaxItems
    BY QueueAssumption
  <2>2. QueueTypeOK
    BY <2>1 DEF QueueInit, QueueTypeOK
  <2> QED BY <2>2 DEF QueueInit, QueueInv, NoLostWakeup, ClosedIsLeft, LatestInOrder
<1>2. QueueInv /\ [QueueNext]_queueVars => QueueInv'
  BY QueueTypes, QueueWakes, QueueCloses, QueueInOrder DEF QueueInv
<1> QED BY <1>1, <1>2, PTL DEF QueueSpec

\* The variables keep their types.
THEOREM QueueTypeCorrect == QueueSpec => []QueueTypeOK
<1>1. QueueInv => QueueTypeOK  BY DEF QueueInv
<1> QED BY <1>1, QueueAlways, PTL

\* blockingQueue.go:38: with any number of consumers, as long as one of them waits there
\* is for every queued item a goroutine already on its way to it.
THEOREM NoWakeupLost == QueueSpec => []NoLostWakeup
<1>1. QueueInv => NoLostWakeup  BY DEF QueueInv
<1> QED BY <1>1, QueueAlways, PTL

\* blockingQueue.go:77: once the queue is closed nothing is in it and nobody waits.
THEOREM ClosedForAll == QueueSpec => []ClosedIsLeft
<1>1. QueueInv => ClosedIsLeft  BY DEF QueueInv
<1> QED BY <1>1, QueueAlways, PTL

\* blockingQueue.go:43-58: items leave in the order in which they were accepted, whichever
\* consumer gets the mutex, and none is skipped.
THEOREM FirstInFirstOut == QueueSpec => []LatestInOrder
<1>1. QueueInv => LatestInOrder  BY DEF QueueInv
<1> QED BY <1>1, QueueAlways, PTL

-----------------------------------------------------------------------------
(* Steps                                                                   *)

StepStates == {"new", "running", "stored", "ended", "counted", "skipped"}

\* The steps without a result, those the WaitGroup waits for, and those whose error is
\* among the joined ones.
Unfinished == {i \in 1 .. N : stepPc[i] \in {"new", "running"}}
Uncounted == {i \in 1 .. N : stepPc[i] \in {"new", "running", "stored", "ended"}}
Reported == {i \in Failing : stepPc[i] # "stored"}

\* The loop has come to the steps below loopAt, and those that are through have a result.
LoopComes ==
  \A i \in 1 .. N : /\ loopAt <= i <=> stepPc[i] = "new"
                    /\ results[i] = "none" <=> i \in Unfinished

\* The joined errors are the failing steps that have come to append them, each once.
ErrorsExact == ToSet(errs) = Reported /\ Len(errs) = Cardinality(Reported)

\* The WaitGroup counts the steps that have not told it.
GroupCounts == wg = IF async THEN Cardinality(Uncounted) ELSE 0

\* One after the other, only the step before loopAt may be on its way.
OneByOne ==
  ~async => /\ \A i \in 1 .. N : stepPc[i] \in {"running", "stored"} => i + 1 = loopAt
            /\ \A m, n \in 1 .. Len(errs) : m < n => errs[m] < errs[n]

\* Once a step is skipped, the loop skips.
SkipsOn ==
  \A i, k \in 1 .. N : stepPc[i] = "skipped" =>
    cancelled /\ (i < k /\ k < loopAt => stepPc[k] = "skipped")

\* What is returned is complete: nobody has a result to store or an error to append.
AllIn == returned => loopAt = N + 1 /\ \A i \in 1 .. N :
                                         stepPc[i] \notin {"new", "running", "stored"}

StepsInv ==
  /\ StepsTypeOK /\ LoopComes /\ ErrorsExact /\ GroupCounts /\ OneByOne /\ SkipsOn
  /\ AllIn

\* Sets of steps are finite, and have no more than N of them.
LEMMA StepSets ==
  ASSUME NEW S \in SUBSET (1 .. N)
  PROVE  IsFiniteSet(S) /\ Cardinality(S) \in 0 .. N
<1>1. N \in Nat
  BY StepsAssumption DEF StepsAssumption
<1>2. IsFiniteSet(1 .. N) /\ Cardinality(1 .. N) = N
  <2>1. 1 \in Int /\ N \in Int
    BY <1>1
  <2>2. /\ IsFiniteSet(1 .. N)
        /\ Cardinality(1 .. N) = IF 1 > N THEN 0 ELSE N - 1 + 1
    BY <2>1, FS_Interval
  <2> QED BY <1>1, <2>2
<1>3. IsFiniteSet(S) /\ Cardinality(S) <= Cardinality(1 .. N)
  BY <1>2, FS_Subset
<1>4. Cardinality(S) \in Nat
  BY <1>3, FS_CardinalityType
<1> QED BY <1>1, <1>2, <1>3, <1>4

\* The elements of a sequence that got one more.
LEMMA AppendedSet ==
  ASSUME NEW S, NEW s \in Seq(S), NEW m \in S
  PROVE  ToSet(Append(s, m)) = ToSet(s) \cup {m}
<1> DEFINE t == Append(s, m)
<1>1. /\ Len(t) = Len(s) + 1 /\ Len(s) \in Nat /\ t[Len(s) + 1] = m
      /\ DOMAIN s = 1 .. Len(s) /\ DOMAIN t = 1 .. Len(t)
      /\ \A i \in 1 .. Len(s) : t[i] = s[i]
  OBVIOUS
<1> HIDE DEF t
<1>2. /\ ToSet(s) = {s[i] : i \in 1 .. Len(s)}
      /\ ToSet(t) = {t[i] : i \in 1 .. Len(t)}
  BY <1>1 DEF ToSet
<1>3. \A i \in 1 .. Len(t) : i \in 1 .. Len(s) \/ i = Len(s) + 1
  BY <1>1
<1>4. Len(s) + 1 \in 1 .. Len(t) /\ \A i \in 1 .. Len(s) : i \in 1 .. Len(t)
  BY <1>1
<1>5. \A x \in ToSet(t) : x \in ToSet(s) \cup {m}
  BY <1>1, <1>2, <1>3
<1>6. \A x \in ToSet(s) : x \in ToSet(t)
  BY <1>1, <1>2, <1>4
<1>7. m \in ToSet(t)
  BY <1>1, <1>2, <1>4
<1> QED BY <1>5, <1>6, <1>7 DEF t

\* What Append does to a sequence of steps.
LEMMA ErrorAppended ==
  ASSUME NEW s \in Seq(1 .. N), NEW i \in 1 .. N
  PROVE  /\ Append(s, i) \in Seq(1 .. N)
         /\ Len(s) \in Nat /\ Len(Append(s, i)) = Len(s) + 1
         /\ Append(s, i)[Len(s) + 1] = i
         /\ \A m \in 1 .. Len(s) : Append(s, i)[m] = s[m]
         /\ ToSet(Append(s, i)) = ToSet(s) \cup {i}
<1>1. /\ Append(s, i) \in Seq(1 .. N)
      /\ Len(s) \in Nat /\ Len(Append(s, i)) = Len(s) + 1
      /\ Append(s, i)[Len(s) + 1] = i
      /\ \A m \in 1 .. Len(s) : Append(s, i)[m] = s[m]
  OBVIOUS
<1>2. PICK S : S = 1 .. N
  OBVIOUS
<1>3. s \in Seq(S) /\ i \in S
  BY <1>2
<1>4. ToSet(Append(s, i)) = ToSet(s) \cup {i}
  BY ONLY <1>3, AppendedSet
<1> QED BY <1>1, <1>4

\* The steps among the errors are through.
LEMMA ErrorsBehind ==
  ASSUME StepsInv, NEW m \in 1 .. Len(errs)
  PROVE  errs[m] \in Reported /\ errs[m] \in 1 .. N /\ errs[m] < loopAt
<1>1. errs \in Seq(1 .. N) /\ loopAt \in 1 .. N + 1 /\ N \in Nat /\ ToSet(errs) = Reported
  BY StepsAssumption DEF StepsInv, StepsTypeOK, StepsAssumption, ErrorsExact
<1>2. errs[m] \in 1 .. N
  BY <1>1, ElementOfSeq, Zenon
<1>3. DOMAIN errs = 1 .. Len(errs)
  BY <1>1
<1>4. errs[m] \in Reported
  BY <1>1, <1>3, Zenon DEF ToSet
<1>5. errs[m] \notin Unfinished
  BY <1>2, <1>4 DEF Reported, Failing, StepsInv, LoopComes
<1>6. ~(loopAt <= errs[m])
  BY <1>2, <1>5 DEF StepsInv, LoopComes, Unfinished
<1> QED BY ONLY <1>1, <1>2, <1>4, <1>6

LEMMA StepsBegin == StepsInit => StepsInv
<1> SUFFICES ASSUME StepsInit PROVE StepsInv
  OBVIOUS
<1>1. N \in Nat /\ N # 0
  BY StepsAssumption DEF StepsAssumption
<1>2. errs = <<>> /\ Len(errs) = 0 /\ errs \in Seq(1 .. N) /\ loopAt = 1
  BY DEF StepsInit
<1>3. /\ Unfinished = 1 .. N /\ Uncounted = 1 .. N /\ Reported = {}
      /\ Cardinality(Reported) = 0
  <2>1. Unfinished = 1 .. N /\ Uncounted = 1 .. N /\ Reported = {}
    BY DEF StepsInit, Unfinished, Uncounted, Reported, Failing
  <2> QED BY <2>1, FS_EmptySet
<1>4. Cardinality(1 .. N) = N
  <2>1. Cardinality(1 .. N) = IF 1 > N THEN 0 ELSE N - 1 + 1
    BY <1>1, FS_Interval
  <2> QED BY <1>1, <2>1
<1>5. StepsTypeOK
  <2>1. 1 \in 1 .. N + 1 /\ 0 \in 0 .. N /\ N \in 0 .. N
    BY <1>1
  <2>2. wg \in 0 .. N
    BY <2>1 DEF StepsInit
  <2> QED BY <1>2, <2>1, <2>2 DEF StepsInit, StepsTypeOK, Outcomes
<1>6. LoopComes
  <2>1. \A i \in 1 .. N : 1 <= i
    BY <1>1
  <2> QED BY <1>2, <1>3, <2>1 DEF StepsInit, LoopComes
<1>7. ErrorsExact
  <2>1. ToSet(errs) = {}
    BY <1>2 DEF ToSet
  <2> QED BY <1>2, <1>3, <2>1 DEF ErrorsExact
<1>8. GroupCounts
  BY <1>3, <1>4 DEF StepsInit, GroupCounts
<1>9. OneByOne /\ SkipsOn /\ AllIn
  <2>1. 1 .. Len(errs) = {}
    BY <1>2
  <2> QED BY <2>1 DEF StepsInit, OneByOne, SkipsOn, AllIn
<1> QED BY <1>5, <1>6, <1>7, <1>8, <1>9 DEF StepsInv

\* An outcome is reported: the errors follow, and stay in the order of the steps where
\* one runs after the other.
LEMMA OutcomeReported ==
  ASSUME StepsInv, NEW i \in 1 .. N, NEW o,
         i \notin Reported, ~async => i + 1 = loopAt \/ i = loopAt,
         errs' = IF o = "ok" THEN errs ELSE Append(errs, i),
         Reported' = IF o = "ok" THEN Reported ELSE Reported \cup {i}
  PROVE  /\ errs' \in Seq(1 .. N) /\ ErrorsExact'
         /\ ~async => \A m, n \in 1 .. Len(errs') : m < n => errs'[m] < errs'[n]
<1>1. /\ errs \in Seq(1 .. N) /\ loopAt \in 1 .. N + 1 /\ N \in Nat
      /\ Reported \in SUBSET (1 .. N)
  BY StepsAssumption DEF StepsInv, StepsTypeOK, StepsAssumption, Reported, Failing
<1>2. ToSet(errs) = Reported /\ Len(errs) = Cardinality(Reported)
  BY DEF StepsInv, ErrorsExact
<1>3. ~async => \A m, n \in 1 .. Len(errs) : m < n => errs[m] < errs[n]
  BY DEF StepsInv, OneByOne
<1>4. CASE o = "ok"
  BY <1>1, <1>2, <1>3, <1>4 DEF ErrorsExact
<1>5. CASE o # "ok"
  <2>1. errs' = Append(errs, i)
    BY <1>5
  <2>2. i \in 1 .. N /\ errs \in Seq(1 .. N)
    BY <1>1
  <2>3. errs' \in Seq(1 .. N) /\ Len(errs') = Len(errs) + 1
    BY ONLY <2>1, <2>2, ErrorAppended
  <2>4. ToSet(errs') = ToSet(errs) \cup {i}
    BY ONLY <2>1, <2>2, ErrorAppended
  <2>5. Cardinality(Reported \cup {i}) = Cardinality(Reported) + 1
    BY <1>1, StepSets, FS_AddElement
  <2>6. ErrorsExact'
    BY <1>2, <1>5, <2>3, <2>4, <2>5 DEF ErrorsExact
  <2>7. ASSUME ~async PROVE \A m, n \in 1 .. Len(errs') : m < n => errs'[m] < errs'[n]
    <3>1. ASSUME NEW m \in 1 .. Len(errs) PROVE errs[m] \in 1 .. N /\ errs[m] < i
      <4>1. errs[m] \in Reported /\ errs[m] \in 1 .. N /\ errs[m] < loopAt
        BY <3>1, ErrorsBehind
      <4>2. errs[m] # i /\ (i + 1 = loopAt \/ i = loopAt)
        BY <2>7, <4>1
      <4>3. errs[m] \in Int /\ i \in Int /\ loopAt \in Int
        BY ONLY <1>1, <2>2, <4>1
      <4> QED BY ONLY <4>1, <4>2, <4>3
    <3>2. Len(errs) \in Nat /\ Len(errs') = Len(errs) + 1 /\ errs'[Len(errs) + 1] = i
          /\ \A m \in 1 .. Len(errs) : errs'[m] = errs[m]
      BY ONLY <2>1, <2>2, ErrorAppended
    <3> SUFFICES ASSUME NEW m \in 1 .. Len(errs'), NEW n \in 1 .. Len(errs'), m < n
                 PROVE  errs'[m] < errs'[n]
      OBVIOUS
    <3>3. m \in 1 .. Len(errs) /\ (n \in 1 .. Len(errs) \/ n = Len(errs) + 1)
      BY <3>2
    <3> QED BY <1>3, <2>7, <3>1, <3>2, <3>3
  <2> QED BY <2>3, <2>6, <2>7
<1> QED BY <1>4, <1>5

\* The WaitGroup is told of a step it waited for.
LEMMA GroupTold ==
  ASSUME StepsInv, NEW i \in Uncounted, Uncounted' = Uncounted \ {i}, async' = async,
         wg' = IF async THEN wg - 1 ELSE wg
  PROVE  GroupCounts' /\ wg' \in 0 .. N
<1>1. Uncounted \in SUBSET (1 .. N) /\ Uncounted' \in SUBSET (1 .. N) /\ N \in Nat
      /\ wg \in 0 .. N
  BY StepsAssumption DEF StepsInv, StepsTypeOK, StepsAssumption, Uncounted
<1>2. Cardinality(Uncounted \ {i}) = Cardinality(Uncounted) - 1
  BY <1>1, StepSets, FS_RemoveElement
<1>3. Cardinality(Uncounted') \in 0 .. N /\ Cardinality(Uncounted) \in 0 .. N
  BY <1>1, StepSets
<1>4. CASE async
  BY <1>2, <1>3, <1>4 DEF StepsInv, GroupCounts
<1>5. CASE ~async
  BY <1>1, <1>5 DEF StepsInv, GroupCounts
<1> QED BY <1>4, <1>5

LEMMA SkipKeeps ==
  ASSUME StepsInv, SkipStep
  PROVE  StepsInv'
<1>1. /\ stepPc \in [1 .. N -> StepStates] /\ results \in [1 .. N -> Outcomes]
      /\ loopAt \in 1 .. N + 1 /\ N \in Nat
      /\ async \in BOOLEAN /\ cancelled \in BOOLEAN /\ returned \in BOOLEAN
  BY StepsAssumption DEF StepsInv, StepsTypeOK, StepStates, StepsAssumption
<1>2. /\ loopAt <= N /\ cancelled /\ loopAt' = loopAt + 1
      /\ \A i \in 1 .. N : async \/ stepPc[i] \notin {"running", "stored"}
      /\ stepPc' = [stepPc EXCEPT ![loopAt] = "skipped"]
      /\ results' = [results EXCEPT ![loopAt] = "cancelled"]
      /\ errs' = Append(errs, loopAt) /\ wg' = IF async THEN wg - 1 ELSE wg
      /\ UNCHANGED <<async, cancelled, returned>>
  BY DEF SkipStep, Looping, Waiting
<1>3. loopAt \in 1 .. N /\ loopAt' \in 1 .. N + 1
  BY <1>1, <1>2
<1>4. stepPc[loopAt] = "new" /\ results[loopAt] = "none"
  BY <1>1, <1>3 DEF StepsInv, LoopComes, Unfinished
<1>5. /\ \A k \in 1 .. N : stepPc'[k] = IF k = loopAt THEN "skipped" ELSE stepPc[k]
      /\ \A k \in 1 .. N : results'[k] = IF k = loopAt THEN "cancelled" ELSE results[k]
      /\ stepPc' \in [1 .. N -> StepStates] /\ results' \in [1 .. N -> Outcomes]
  BY <1>1, <1>2 DEF StepStates, Outcomes
<1>6. /\ loopAt \notin Reported /\ Reported' = Reported \cup {loopAt}
      /\ Unfinished' = Unfinished \ {loopAt}
      /\ loopAt \in Uncounted /\ Uncounted' = Uncounted \ {loopAt}
  BY <1>3, <1>4, <1>5 DEF Reported, Failing, Unfinished, Uncounted
<1>7. /\ errs' \in Seq(1 .. N) /\ ErrorsExact'
      /\ ~async => \A m, n \in 1 .. Len(errs') : m < n => errs'[m] < errs'[n]
  <2>1. errs' = IF "cancelled" = "ok" THEN errs ELSE Append(errs, loopAt)
    BY <1>2
  <2>2. Reported' = IF "cancelled" = "ok" THEN Reported ELSE Reported \cup {loopAt}
    BY <1>6
  <2> QED BY <1>3, <1>6, <2>1, <2>2, OutcomeReported
<1>8. GroupCounts' /\ wg' \in 0 .. N
  BY <1>2, <1>6, GroupTold
<1>9. LoopComes'
  <2>1. ASSUME NEW k \in 1 .. N PROVE loopAt' <= k <=> stepPc'[k] = "new"
    <3>1. loopAt <= k <=> stepPc[k] = "new"
      BY DEF StepsInv, LoopComes
    <3> QED BY <1>1, <1>2, <1>5, <3>1
  <2>2. \A k \in 1 .. N : results[k] = "none" <=> k \in Unfinished
    BY DEF StepsInv, LoopComes
  <2> QED BY <1>5, <1>6, <2>1, <2>2 DEF LoopComes
<1>10. OneByOne'
  <2>1. ~async => \A k \in 1 .. N : stepPc'[k] \notin {"running", "stored"}
    BY <1>2, <1>5
  <2> QED BY <1>2, <1>7, <2>1 DEF OneByOne
<1>11. SkipsOn'
  <2>1. ASSUME NEW i \in 1 .. N, NEW k \in 1 .. N, stepPc'[i] = "skipped", i < k, k < loopAt'
        PROVE  stepPc'[k] = "skipped"
    <3>1. CASE k = loopAt
      BY <1>5, <3>1
    <3>2. CASE k # loopAt
      <4>1. k < loopAt /\ i # loopAt
        BY <1>1, <1>2, <2>1, <3>2
      <4> QED BY <1>5, <2>1, <3>2, <4>1 DEF StepsInv, SkipsOn
    <3> QED BY <3>1, <3>2
  <2> QED BY <1>2, <2>1 DEF SkipsOn
<1>12. StepsTypeOK'
  BY <1>1, <1>2, <1>3, <1>5, <1>7, <1>8 DEF StepsTypeOK, StepStates
<1>13. AllIn'
  BY <1>1, <1>2 DEF StepsInv, AllIn
<1> QED BY <1>7, <1>8, <1>9, <1>10, <1>11, <1>12, <1>13 DEF StepsInv

LEMMA StartKeeps ==
  ASSUME StepsInv, StartStep
  PROVE  StepsInv'
<1>1. /\ stepPc \in [1 .. N -> StepStates] /\ loopAt \in 1 .. N + 1 /\ N \in Nat
      /\ async \in BOOLEAN
  BY StepsAssumption DEF StepsInv, StepsTypeOK, StepStates, StepsAssumption
<1>2. /\ loopAt <= N /\ ~cancelled /\ loopAt' = loopAt + 1
      /\ \A i \in 1 .. N : async \/ stepPc[i] \notin {"running", "stored"}
      /\ stepPc' = [stepPc EXCEPT ![loopAt] = "running"]
      /\ UNCHANGED <<async, cancelled, results, errs, wg, returned>>
  BY DEF StartStep, Looping, Waiting
<1>3. loopAt \in 1 .. N /\ loopAt' \in 1 .. N + 1 /\ loopAt < loopAt'
  BY <1>1, <1>2
<1>4. \A k \in 1 .. N : stepPc'[k] = IF k = loopAt THEN "running" ELSE stepPc[k]
  BY <1>1, <1>2
<1>5. stepPc[loopAt] = "new" /\ results[loopAt] = "none"
  BY <1>1, <1>3 DEF StepsInv, LoopComes, Unfinished
<1>6. Unfinished' = Unfinished /\ Uncounted' = Uncounted /\ Reported' = Reported
  BY <1>2, <1>4, <1>5 DEF Unfinished, Uncounted, Reported, Failing
<1>7. LoopComes'
  <2>1. ASSUME NEW k \in 1 .. N PROVE loopAt' <= k <=> stepPc'[k] = "new"
    <3>1. loopAt <= k <=> stepPc[k] = "new"
      BY DEF StepsInv, LoopComes
    <3> QED BY <1>1, <1>2, <1>4, <3>1
  <2> QED BY <1>2, <1>6, <2>1 DEF StepsInv, LoopComes
<1>8. OneByOne' /\ ErrorsExact' /\ GroupCounts'
  <2>1. ~async => \A k \in 1 .. N : stepPc'[k] \in {"running", "stored"} => k + 1 = loopAt'
    BY <1>2, <1>4
  <2> QED BY <1>2, <1>6, <2>1 DEF StepsInv, OneByOne, ErrorsExact, GroupCounts
<1>9. SkipsOn'
  BY <1>2, <1>4 DEF StepsInv, SkipsOn
<1>10. StepsTypeOK'
  BY <1>1, <1>2, <1>3 DEF StepsInv, StepsTypeOK, StepStates
<1>11. AllIn'
  BY <1>1, <1>2 DEF StepsInv, AllIn
<1> QED BY <1>7, <1>8, <1>9, <1>10, <1>11 DEF StepsInv

\* A step moves on by itself, from one point to the next: neither the loop nor the
\* steps that are skipped notice.
LEMMA MovesOn ==
  ASSUME StepsInv, NEW i \in 1 .. N, NEW s \in {"stored", "ended", "counted"},
         stepPc[i] \in {"running", "stored", "ended"},
         stepPc' = [stepPc EXCEPT ![i] = s],
         UNCHANGED <<async, cancelled, loopAt, returned>>
  PROVE  /\ \A k \in 1 .. N : stepPc'[k] = IF k = i THEN s ELSE stepPc[k]
         /\ stepPc' \in [1 .. N -> StepStates]
         /\ \A k \in 1 .. N : loopAt' <= k <=> stepPc'[k] = "new"
         /\ SkipsOn'
<1>1. stepPc \in [1 .. N -> StepStates]
  BY DEF StepsInv, StepsTypeOK, StepStates
<1>2. \A k \in 1 .. N : stepPc'[k] = IF k = i THEN s ELSE stepPc[k]
  BY <1>1
<1>3. stepPc' \in [1 .. N -> StepStates]
  BY <1>1 DEF StepStates
<1>4. \A k \in 1 .. N : loopAt' <= k <=> stepPc'[k] = "new"
  BY <1>2 DEF StepsInv, LoopComes
<1>5. SkipsOn'
  <2>1. \A a, k \in 1 .. N : stepPc[a] = "skipped" =>
          cancelled /\ (a < k /\ k < loopAt => stepPc[k] = "skipped")
    BY DEF StepsInv, SkipsOn
  <2>2. \A a \in 1 .. N : stepPc'[a] = "skipped" <=> stepPc[a] = "skipped"
    BY <1>2
  <2> QED BY <2>1, <2>2 DEF SkipsOn
<1> QED BY <1>2, <1>3, <1>4, <1>5

LEMMA EndKeeps ==
  ASSUME StepsInv, NEW i \in 1 .. N, EndStep(i)
  PROVE  StepsInv'
<1>1. results \in [1 .. N -> Outcomes]
  BY DEF StepsInv, StepsTypeOK
<1>2. PICK o \in {"nilFunction", "ok", "failed", "panic"} : results' = [results EXCEPT ![i] = o]
  BY DEF EndStep
<1>3. /\ stepPc[i] = "running" /\ stepPc' = [stepPc EXCEPT ![i] = "stored"]
      /\ UNCHANGED <<async, cancelled, loopAt, returned>> /\ UNCHANGED <<errs, wg>>
  BY DEF EndStep
<1>4. /\ \A k \in 1 .. N : stepPc'[k] = IF k = i THEN "stored" ELSE stepPc[k]
      /\ stepPc' \in [1 .. N -> StepStates]
      /\ \A k \in 1 .. N : loopAt' <= k <=> stepPc'[k] = "new"
      /\ SkipsOn'
  BY <1>3, MovesOn
<1>5. /\ \A k \in 1 .. N : results'[k] = IF k = i THEN o ELSE results[k]
      /\ results' \in [1 .. N -> Outcomes] /\ o # "none"
  BY <1>1, <1>2 DEF Outcomes
<1>6. results[i] = "none"
  BY <1>3 DEF StepsInv, LoopComes, Unfinished
<1>7. Unfinished' = Unfinished \ {i} /\ Uncounted' = Uncounted /\ Reported' = Reported
  BY <1>3, <1>4, <1>5, <1>6 DEF Unfinished, Uncounted, Reported, Failing
<1>8. LoopComes'
  <2>1. \A k \in 1 .. N : results[k] = "none" <=> k \in Unfinished
    BY DEF StepsInv, LoopComes
  <2> QED BY <1>4, <1>5, <1>7, <2>1 DEF LoopComes
<1>9. ErrorsExact' /\ GroupCounts' /\ OneByOne'
  BY <1>3, <1>4, <1>7 DEF StepsInv, ErrorsExact, GroupCounts, OneByOne
<1>10. StepsTypeOK'
  BY <1>3, <1>4, <1>5 DEF StepsInv, StepsTypeOK, StepStates
<1>11. AllIn'
  BY <1>3 DEF StepsInv, AllIn
<1> QED BY <1>4, <1>8, <1>9, <1>10, <1>11 DEF StepsInv

LEMMA AppendKeeps ==
  ASSUME StepsInv, NEW i \in 1 .. N, AppendError(i)
  PROVE  StepsInv'
<1>1. /\ stepPc[i] = "stored" /\ stepPc' = [stepPc EXCEPT ![i] = "ended"]
      /\ UNCHANGED <<async, cancelled, loopAt, returned>> /\ UNCHANGED <<results, wg>>
      /\ errs' = IF results[i] = "ok" THEN errs ELSE Append(errs, i)
  BY DEF AppendError
<1>2. /\ \A k \in 1 .. N : stepPc'[k] = IF k = i THEN "ended" ELSE stepPc[k]
      /\ stepPc' \in [1 .. N -> StepStates]
      /\ \A k \in 1 .. N : loopAt' <= k <=> stepPc'[k] = "new"
      /\ SkipsOn'
  BY <1>1, MovesOn
<1>3. results[i] # "none"
  BY <1>1 DEF StepsInv, LoopComes, Unfinished
<1>4. /\ Unfinished' = Unfinished /\ Uncounted' = Uncounted /\ i \notin Reported
      /\ Reported' = IF results[i] = "ok" THEN Reported ELSE Reported \cup {i}
  BY <1>1, <1>2, <1>3 DEF Unfinished, Uncounted, Reported, Failing
<1>5. ~async => i + 1 = loopAt
  BY <1>1 DEF StepsInv, OneByOne
<1>6. /\ errs' \in Seq(1 .. N) /\ ErrorsExact'
      /\ ~async => \A m, n \in 1 .. Len(errs') : m < n => errs'[m] < errs'[n]
  BY <1>1, <1>4, <1>5, OutcomeReported
<1>7. LoopComes' /\ GroupCounts'
  BY <1>1, <1>2, <1>4 DEF StepsInv, LoopComes, GroupCounts
<1>8. OneByOne'
  BY <1>1, <1>2, <1>6 DEF StepsInv, OneByOne
<1>9. StepsTypeOK'
  BY <1>1, <1>2, <1>6 DEF StepsInv, StepsTypeOK, StepStates
<1>10. AllIn'
  BY <1>1 DEF StepsInv, AllIn
<1> QED BY <1>2, <1>6, <1>7, <1>8, <1>9, <1>10 DEF StepsInv

LEMMA DoneKeeps ==
  ASSUME StepsInv, NEW i \in 1 .. N, StepDone(i)
  PROVE  StepsInv'
<1>1. /\ stepPc[i] = "ended" /\ stepPc' = [stepPc EXCEPT ![i] = "counted"]
      /\ UNCHANGED <<async, cancelled, loopAt, returned>> /\ UNCHANGED <<results, errs>>
      /\ async /\ wg' = IF async THEN wg - 1 ELSE wg
  BY DEF StepDone
<1>2. /\ \A k \in 1 .. N : stepPc'[k] = IF k = i THEN "counted" ELSE stepPc[k]
      /\ stepPc' \in [1 .. N -> StepStates]
      /\ \A k \in 1 .. N : loopAt' <= k <=> stepPc'[k] = "new"
      /\ SkipsOn'
  BY <1>1, MovesOn
<1>3. /\ Unfinished' = Unfinished /\ Reported' = Reported
      /\ i \in Uncounted /\ Uncounted' = Uncounted \ {i}
  BY <1>1, <1>2 DEF Unfinished, Uncounted, Reported, Failing
<1>4. GroupCounts' /\ wg' \in 0 .. N
  BY <1>1, <1>3, GroupTold
<1>5. LoopComes' /\ ErrorsExact' /\ OneByOne'
  BY <1>1, <1>2, <1>3 DEF StepsInv, LoopComes, ErrorsExact, OneByOne
<1>6. StepsTypeOK'
  BY <1>1, <1>2, <1>4 DEF StepsInv, StepsTypeOK, StepStates
<1>7. AllIn'
  BY <1>1, <1>2 DEF StepsInv, AllIn
<1> QED BY <1>2, <1>4, <1>5, <1>6, <1>7 DEF StepsInv

LEMMA StepsStep == StepsInv /\ [StepsNext]_stepVars => StepsInv'
<1> SUFFICES ASSUME StepsInv, [StepsNext]_stepVars PROVE StepsInv'
  OBVIOUS
<1>1. CASE CancelSteps
  <2>1. cancelled' = TRUE /\ UNCHANGED <<async, loopAt, stepPc, results, errs, wg, returned>>
    BY <1>1 DEF CancelSteps
  <2>2. Unfinished' = Unfinished /\ Uncounted' = Uncounted /\ Reported' = Reported
    BY <2>1 DEF Unfinished, Uncounted, Reported, Failing
  <2> QED BY <2>1, <2>2 DEF StepsInv, StepsTypeOK, LoopComes, ErrorsExact, GroupCounts,
                            OneByOne, SkipsOn, AllIn
<1>2. CASE ReturnResults
  <2>1. returned' = TRUE /\ loopAt = N + 1
        /\ UNCHANGED <<async, cancelled, loopAt, stepPc, results, errs, wg>>
    BY <1>2 DEF ReturnResults
  <2>2. Unfinished' = Unfinished /\ Uncounted' = Uncounted /\ Reported' = Reported
    BY <2>1 DEF Unfinished, Uncounted, Reported, Failing
  <2>3. N \in Nat /\ Uncounted \in SUBSET (1 .. N)
    BY StepsAssumption DEF StepsAssumption, Uncounted
  <2>4. \A i \in 1 .. N : stepPc[i] \notin {"new", "running", "stored"}
    <3>1. CASE async
      <4>1. Cardinality(Uncounted) = 0
        BY <1>2, <3>1 DEF ReturnResults, StepsInv, GroupCounts
      <4>2. Uncounted = {}
        BY <2>3, <4>1, StepSets, FS_EmptySet
      <4> QED BY <4>2 DEF Uncounted
    <3>2. CASE ~async
      <4>1. \A i \in 1 .. N : stepPc[i] \notin {"running", "stored"}
        BY <1>2, <3>2 DEF ReturnResults, Waiting
      <4>2. \A i \in 1 .. N : ~(loopAt <= i)
        BY <2>1, <2>3
      <4> QED BY <4>1, <4>2 DEF StepsInv, LoopComes
    <3> QED BY <3>1, <3>2
  <2>5. StepsTypeOK' /\ LoopComes' /\ ErrorsExact' /\ GroupCounts' /\ OneByOne' /\ SkipsOn'
    BY <2>1, <2>2 DEF StepsInv, StepsTypeOK, LoopComes, ErrorsExact, GroupCounts,
                      OneByOne, SkipsOn
  <2> QED BY <2>1, <2>4, <2>5 DEF StepsInv, AllIn
<1>3. CASE UNCHANGED stepVars
  <2>1. UNCHANGED <<async, cancelled, loopAt, stepPc, results, errs, wg, returned>>
    BY <1>3 DEF stepVars
  <2>2. Unfinished' = Unfinished /\ Uncounted' = Uncounted /\ Reported' = Reported
    BY <2>1 DEF Unfinished, Uncounted, Reported, Failing
  <2> QED BY <2>1, <2>2 DEF StepsInv, StepsTypeOK, LoopComes, ErrorsExact, GroupCounts,
                            OneByOne, SkipsOn, AllIn
<1> QED BY <1>1, <1>2, <1>3, SkipKeeps, StartKeeps, EndKeeps, AppendKeeps, DoneKeeps
        DEF StepsNext, StepNext

\* What the caller of a step runner gets accounts for every step, whichever runner it is,
\* for any number of steps and wherever they fail or are cancelled (steps.go).
THEOREM EveryStepAccounted == StepsSpec => []StepsAccounted
<1>1. StepsInit => StepsInv
  BY StepsBegin
<1>2. StepsInv /\ [StepsNext]_stepVars => StepsInv'
  BY StepsStep
<1>3. StepsInv => StepsAccounted
  <2> SUFFICES ASSUME StepsInv, returned PROVE
        /\ \A i \in 1 .. N : results[i] # "none"
        /\ ToSet(errs) = Failing /\ Len(errs) = Cardinality(Failing)
        /\ ~async => \A m, n \in 1 .. Len(errs) : m < n => errs[m] < errs[n]
        /\ \A i, k \in 1 .. N : i < k /\ stepPc[i] = "skipped" => stepPc[k] = "skipped"
    BY DEF StepsAccounted
  <2>1. /\ loopAt = N + 1 /\ N \in Nat
        /\ \A i \in 1 .. N : stepPc[i] \notin {"new", "running", "stored"}
    BY StepsAssumption DEF StepsInv, StepsAssumption, AllIn
  <2>2. \A k \in 1 .. N : k < loopAt
    BY <2>1
  <2>3. Reported = Failing /\ Unfinished = {}
    BY <2>1 DEF Reported, Failing, Unfinished
  <2> QED BY <2>2, <2>3 DEF StepsInv, LoopComes, ErrorsExact, OneByOne, SkipsOn
<1> QED BY <1>1, <1>2, <1>3, PTL DEF StepsSpec

-----------------------------------------------------------------------------
(* Cleanup                                                                 *)

\* What is old, or gone, was old at the beginning, and the loop leaves nothing behind it.
CleanupInv ==
  /\ CleanupTypeOK
  /\ \A t \in 1 .. NTables, r \in Rows : rows[t][r] \in {"old", "gone"} => r \in begun[t]
  /\ \A t \in 1 .. NTables : t < tableAt => Old(t) = {}
  /\ cleanup = "done" => tableAt = NTables + 1
  /\ report = "ok" /\ request.set /\ request.caller = "command" => cleanup = "done"

\* Where the tables, or what was old in them, do not change.
LEMMA TablesRest ==
  ASSUME CleanupInv, UNCHANGED <<rows, begun, tableAt, request>>,
         cleanup' \in {"idle", "deleting", "done", "failed"},
         report' \in {"none", "ok", "error"},
         cleanup' = "done" => tableAt = NTables + 1,
         report' = "ok" /\ request.set /\ request.caller = "command" => cleanup' = "done"
  PROVE  CleanupInv'
<1>1. \A t : Old(t)' = Old(t)
  BY DEF Old
<1>2. CleanupTypeOK'
  BY DEF CleanupInv, CleanupTypeOK
<1>3. \A t \in 1 .. NTables : t < tableAt' => Old(t)' = {}
  BY DEF CleanupInv, Old
<1> QED BY <1>2, <1>3 DEF CleanupInv

LEMMA BatchKeeps ==
  ASSUME CleanupInv, DeleteBatch
  PROVE  CleanupInv'
<1>1. /\ rows \in [1 .. NTables -> [Rows -> RowStates]] /\ tableAt \in 1 .. NTables + 1
      /\ NTables \in Nat /\ Batch \in Nat
  BY CleanupAssumption DEF CleanupInv, CleanupTypeOK, CleanupAssumption
<1>2. /\ cleanup = "deleting" /\ tableAt <= NTables
      /\ UNCHANGED <<request, begun, cleanup, report>>
  BY DEF DeleteBatch
<1>3. PICK some \in SUBSET Old(tableAt) :
        /\ \/ Cardinality(some) = Batch
           \/ some = Old(tableAt) /\ Cardinality(some) < Batch
        /\ rows' = [rows EXCEPT ![tableAt] = [r \in Rows |-> IF r \in some THEN "gone" ELSE @[r]]]
        /\ tableAt' = IF Cardinality(some) < Batch THEN tableAt + 1 ELSE tableAt
  BY DEF DeleteBatch
<1>4. tableAt \in 1 .. NTables /\ tableAt + 1 \in 1 .. NTables + 1
  BY <1>1, <1>2
<1>5. \A r \in some : r \in Rows /\ rows[tableAt][r] = "old"
  BY DEF Old
<1>6. /\ rows'[tableAt] = [r \in Rows |-> IF r \in some THEN "gone" ELSE rows[tableAt][r]]
      /\ \A t \in 1 .. NTables : t # tableAt => rows'[t] = rows[t]
      /\ rows' \in [1 .. NTables -> [Rows -> RowStates]]
  <2> DEFINE new == [r \in Rows |-> IF r \in some THEN "gone" ELSE rows[tableAt][r]]
  <2>1. new \in [Rows -> RowStates]
    <3>1. \A r \in Rows : rows[tableAt][r] \in RowStates
      BY <1>1, <1>4
    <3> QED BY <3>1 DEF RowStates
  <2>2. rows' = [rows EXCEPT ![tableAt] = new]
    BY <1>3
  <2> HIDE DEF new
  <2>3. rows'[tableAt] = new /\ rows' \in [1 .. NTables -> [Rows -> RowStates]]
        /\ \A t \in 1 .. NTables : t # tableAt => rows'[t] = rows[t]
    BY <1>1, <1>4, <2>1, <2>2
  <2> QED BY <2>3 DEF new
<1>7. \A r \in Rows : rows'[tableAt][r] = IF r \in some THEN "gone" ELSE rows[tableAt][r]
  BY <1>6
<1>8. ASSUME NEW t \in 1 .. NTables, NEW r \in Rows, rows'[t][r] \in {"old", "gone"}
      PROVE  rows[t][r] \in {"old", "gone"} /\ r \in begun'[t]
  <2>1. rows[t][r] \in {"old", "gone"}
    <3>1. CASE t = tableAt
      BY <1>5, <1>7, <1>8, <3>1
    <3>2. CASE t # tableAt
      BY <1>6, <1>8, <3>2
    <3> QED BY <3>1, <3>2
  <2> QED BY <1>2, <2>1 DEF CleanupInv
<1>9. ASSUME NEW t \in 1 .. NTables, t < tableAt' PROVE Old(t)' = {}
  <2>1. CASE t = tableAt
    <3>1. Cardinality(some) < Batch
      BY <1>1, <1>3, <1>4, <1>9, <2>1
    <3>2. some = Old(tableAt)
      BY <1>1, <1>3, <3>1
    <3>3. \A r \in Rows : rows'[t][r] # "old"
      BY <1>7, <2>1, <3>2 DEF Old
    <3> QED BY <3>3 DEF Old
  <2>2. CASE t # tableAt
    <3>1. t < tableAt
      BY <1>1, <1>3, <1>9, <2>2
    <3>2. Old(t) = {} /\ rows'[t] = rows[t]
      BY <1>6, <2>2, <3>1 DEF CleanupInv
    <3> QED BY <3>2 DEF Old
  <2> QED BY <2>1, <2>2
<1>10. tableAt' \in 1 .. NTables + 1
  BY <1>1, <1>3, <1>4
<1>11. CleanupTypeOK'
  BY <1>2, <1>6, <1>10 DEF CleanupInv, CleanupTypeOK
<1> QED BY <1>2, <1>8, <1>9, <1>11 DEF CleanupInv

LEMMA UseKeeps ==
  ASSUME CleanupInv, NEW t \in 1 .. NTables, NEW r \in Rows, Use(t, r)
  PROVE  CleanupInv'
<1>1. /\ rows \in [1 .. NTables -> [Rows -> RowStates]]
      /\ cleanup = "deleting" /\ UNCHANGED <<request, begun, tableAt, cleanup, report>>
  BY DEF CleanupInv, CleanupTypeOK, Use
<1>2. PICK s \in {"recent", "live"} : rows' = [rows EXCEPT ![t][r] = s]
  BY DEF Use
<1>3. /\ rows' \in [1 .. NTables -> [Rows -> RowStates]]
      /\ \A u \in 1 .. NTables, q \in Rows :
           rows'[u][q] = IF u = t /\ q = r THEN s ELSE rows[u][q]
  <2> DEFINE new == [rows[t] EXCEPT ![r] = s]
  <2>1. rows[t] \in [Rows -> RowStates] /\ s \in RowStates
    BY <1>1 DEF RowStates
  <2>2. new \in [Rows -> RowStates] /\ \A q \in Rows : new[q] = IF q = r THEN s ELSE rows[t][q]
    BY <2>1
  <2>3. rows' = [rows EXCEPT ![t] = new]
    BY <1>2
  <2> HIDE DEF new
  <2> QED BY <1>1, <2>2, <2>3
<1>4. \A u \in 1 .. NTables, q \in Rows :
        rows'[u][q] \in {"old", "gone"} => rows'[u][q] = rows[u][q]
  BY <1>3
<1>5. \A u \in 1 .. NTables : u < tableAt' => Old(u)' = {}
  <2>1. \A u \in 1 .. NTables : Old(u)' \subseteq Old(u)
    BY <1>4 DEF Old
  <2> QED BY <1>1, <2>1 DEF CleanupInv
<1>6. CleanupTypeOK'
  BY <1>1, <1>3 DEF CleanupInv, CleanupTypeOK
<1> QED BY <1>1, <1>4, <1>5, <1>6 DEF CleanupInv

LEMMA CleanupBegins == CleanupInit => CleanupInv
<1> SUFFICES ASSUME CleanupInit PROVE CleanupInv
  OBVIOUS
<1>1. NTables \in Nat /\ 1 \in 1 .. NTables + 1
  BY CleanupAssumption DEF CleanupAssumption
<1>2. rows \in [1 .. NTables -> [Rows -> {"live", "recent", "old"}]]
  BY DEF CleanupInit
<1>3. \A t \in 1 .. NTables : rows[t] \in [Rows -> {"live", "recent", "old"}]
  BY <1>2
<1>4. \A t \in 1 .. NTables : rows[t] \in [Rows -> RowStates]
  BY <1>3 DEF RowStates
<1>5. rows \in [1 .. NTables -> [Rows -> RowStates]]
  BY <1>2, <1>4
<1>6. CleanupTypeOK
  BY <1>1, <1>5 DEF CleanupInit, CleanupTypeOK
<1>7. \A t \in 1 .. NTables, r \in Rows : rows[t][r] \in {"old", "gone"} => r \in begun[t]
  <2>1. \A t \in 1 .. NTables, r \in Rows : rows[t][r] # "gone"
    BY <1>3
  <2>2. \A t \in 1 .. NTables : begun[t] = Old(t)
    BY DEF CleanupInit
  <2> QED BY <2>1, <2>2 DEF Old
<1>8. \A t \in 1 .. NTables : ~(t < tableAt)
  BY <1>1 DEF CleanupInit
<1>9. cleanup = "idle" /\ report = "none"
  BY DEF CleanupInit
<1> QED BY <1>6, <1>7, <1>8, <1>9 DEF CleanupInv

LEMMA CleanupStep == CleanupInv /\ [CleanupNext]_cleanupVars => CleanupInv'
<1> SUFFICES ASSUME CleanupInv, [CleanupNext]_cleanupVars PROVE CleanupInv'
  OBVIOUS
<1>1. /\ cleanup \in {"idle", "deleting", "done", "failed"} /\ report \in {"none", "ok", "error"}
      /\ cleanup = "done" => tableAt = NTables + 1
      /\ report = "ok" /\ request.set /\ request.caller = "command" => cleanup = "done"
  BY DEF CleanupInv, CleanupTypeOK
<1>2. CASE NotConfigured
  <2>1. /\ report' = "ok" /\ ~request.set
        /\ UNCHANGED <<request, rows, begun, tableAt, cleanup>>
    BY <1>2 DEF NotConfigured
  <2> QED BY <1>1, <2>1, TablesRest
<1>3. CASE CallCleanup
  <2>1. /\ cleanup = "idle" /\ cleanup' \in {"deleting", "failed"}
        /\ UNCHANGED <<request, rows, begun, tableAt, report>>
    BY <1>3 DEF CallCleanup
  <2> QED BY <1>1, <2>1, TablesRest
<1>4. CASE DeleteFails
  <2>1. /\ cleanup = "deleting" /\ cleanup' = "failed"
        /\ UNCHANGED <<request, rows, begun, tableAt, report>>
    BY <1>4 DEF DeleteFails
  <2> QED BY <1>1, <2>1, TablesRest
<1>5. CASE CleanupDone
  <2>1. /\ cleanup = "deleting" /\ tableAt = NTables + 1 /\ cleanup' = "done"
        /\ UNCHANGED <<request, rows, begun, tableAt, report>>
    BY <1>5 DEF CleanupDone
  <2> QED BY <1>1, <2>1, TablesRest
<1>6. CASE Report
  <2>1. /\ cleanup \in {"done", "failed"}
        /\ report' = IF cleanup = "failed" /\ request.caller = "command" THEN "error" ELSE "ok"
        /\ UNCHANGED <<request, rows, begun, tableAt, cleanup>>
    BY <1>6 DEF Report
  <2> QED BY <1>1, <2>1, TablesRest
<1>7. CASE UNCHANGED cleanupVars
  <2>1. UNCHANGED <<request, rows, begun, tableAt, cleanup, report>>
    BY <1>7 DEF cleanupVars
  <2> QED BY <1>1, <2>1, TablesRest
<1> QED BY <1>2, <1>3, <1>4, <1>5, <1>6, <1>7, BatchKeeps, UseKeeps DEF CleanupNext

\* A clean-up deletes only what was old when it began, and reports success to the command
\* only when it has left none of it, for any tables, rows and batches (Cleanup, cleanup.go).
THEOREM CleanupIsExact == CleanupSpec => []CleanupExact
<1>1. CleanupInv => CleanupExact
  <2> SUFFICES ASSUME CleanupInv PROVE CleanupExact
    OBVIOUS
  <2>1. NTables \in Nat /\ \A t \in 1 .. NTables : t < NTables + 1
    BY CleanupAssumption DEF CleanupAssumption
  <2> QED BY <2>1 DEF CleanupInv, CleanupExact
<1> QED BY <1>1, CleanupBegins, CleanupStep, PTL DEF CleanupSpec

-----------------------------------------------------------------------------
(* ParquetWriter: the filter                                               *)

\* A set of numbers that is not empty has a least one: what holds at first and passes
\* from each number to the next is shown by the least one it does not hold for.
LEMMA LeastNumber ==
  ASSUME NEW T, T \subseteq Nat, T # {}
  PROVE  \E m \in T : \A k \in T : m <= k
<1> DEFINE less == {ss \in Nat \X Nat : ss[1] < ss[2]}
<1>1. IsWellFoundedOn(less, Nat)
  BY NatLessThanWellFounded DEF OpToRel
<1>2. PICK m \in T : \A k \in T : ~(<<k, m>> \in less)
  <2> HIDE DEF less
  <2> QED BY <1>1, WFMin
<1>3. \A k \in T : ~(k < m)
  BY <1>2
<1> QED BY <1>3

Rising(s) == \A i, j \in 1 .. Len(s) : i < j => s[i] < s[j]

\* A message behind the last one.
LEMMA RisesOn ==
  ASSUME NEW s \in Seq(Nat), Rising(s), NEW m \in Nat, \A x \in ToSet(s) : x < m
  PROVE  /\ Append(s, m) \in Seq(Nat) /\ Rising(Append(s, m))
         /\ ToSet(Append(s, m)) = ToSet(s) \cup {m}
<1> DEFINE t == Append(s, m)
<1>1. /\ t \in Seq(Nat) /\ Len(t) = Len(s) + 1 /\ Len(s) \in Nat /\ t[Len(s) + 1] = m
      /\ \A i \in 1 .. Len(s) : t[i] = s[i]
  OBVIOUS
<1>2. ToSet(s) = {s[i] : i \in 1 .. Len(s)}
  BY DEF ToSet
<1> HIDE DEF t
<1>3. \A i \in 1 .. Len(t) : i \in 1 .. Len(s) \/ i = Len(s) + 1
  BY <1>1
<1>4. ToSet(t) = ToSet(s) \cup {m}
  BY AppendedSet DEF t
<1>5. Rising(t)
  <2> SUFFICES ASSUME NEW i \in 1 .. Len(t), NEW j \in 1 .. Len(t), i < j
               PROVE  t[i] < t[j]
    BY DEF Rising
  <2>1. i \in 1 .. Len(s)
    BY <1>1
  <2>2. CASE j \in 1 .. Len(s)
    BY <1>1, <2>1, <2>2 DEF Rising
  <2>3. CASE j = Len(s) + 1
    BY <1>1, <1>2, <2>1, <2>3
  <2> QED BY <1>3, <2>2, <2>3
<1> QED BY <1>1, <1>4, <1>5 DEF t

\* The recursion of the filter has a solution.
LEMMA FilterRuns ==
  ASSUME NEW s \in Seq(Nat), NEW L \in Nat, NEW S \in SUBSET Nat
  PROVE  \E f, V : /\ f \in [0 .. L -> V]
                   /\ \A i \in 0 .. L :
                        f[i] = IF i = 0 THEN <<>>
                               ELSE IF s[i] \in S THEN Append(f[i - 1], s[i])
                                    ELSE f[i - 1]
<1> DEFINE Runs(m) == \E f : f = [i \in 0 .. m |->
                       IF i = 0 THEN <<>>
                       ELSE IF s[i] \in S THEN Append(f[i - 1], s[i]) ELSE f[i - 1]]
           T == {m \in 0 .. L : ~Runs(m)}
<1>1. T = {} => Runs(L)
  <2>1. L \in 0 .. L
    OBVIOUS
  <2> HIDE DEF Runs
  <2> QED BY <2>1
<1>1a. ASSUME Runs(L)
      PROVE  \E f, V : /\ f \in [0 .. L -> V]
                       /\ \A i \in 0 .. L :
                            f[i] = IF i = 0 THEN <<>>
                                   ELSE IF s[i] \in S THEN Append(f[i - 1], s[i])
                                        ELSE f[i - 1]
  <2>1. PICK f : f = [i \in 0 .. L |->
                       IF i = 0 THEN <<>>
                       ELSE IF s[i] \in S THEN Append(f[i - 1], s[i]) ELSE f[i - 1]]
    BY <1>1a
  <2>2. f \in [0 .. L -> {f[i] : i \in 0 .. L}]
    BY <2>1
  <2>3. \A i \in 0 .. L :
          f[i] = IF i = 0 THEN <<>>
                 ELSE IF s[i] \in S THEN Append(f[i - 1], s[i]) ELSE f[i - 1]
    BY <2>1
  <2> QED BY <2>2, <2>3
<1> SUFFICES ASSUME T # {} PROVE FALSE
  <2> HIDE DEF T, Runs
  <2> QED BY <1>1, <1>1a
<1>2. PICK m \in T : \A j \in T : m <= j
  <2>1. T \subseteq Nat
    OBVIOUS
  <2> HIDE DEF T
  <2> QED BY <2>1, LeastNumber
<1>3. CASE m = 0
  <2> DEFINE f == [i \in 0 .. 0 |-> <<>>]
  <2>1. f = [i \in 0 .. 0 |-> IF i = 0 THEN <<>>
                              ELSE IF s[i] \in S THEN Append(f[i - 1], s[i]) ELSE f[i - 1]]
    OBVIOUS
  <2>2. Runs(0)
    BY <2>1
  <2> QED BY <1>3, <2>2
<1>4. CASE m # 0
  <2>1. m \in Nat /\ m - 1 \in 0 .. L /\ m - 1 \notin T
    <3>1. m \in Nat /\ m - 1 \in 0 .. L
      BY <1>4
    <3>2. ~(m <= m - 1)
      BY <3>1
    <3> QED BY <1>2, <3>1, <3>2
  <2>2. PICK g : g = [i \in 0 .. m - 1 |-> IF i = 0 THEN <<>>
                        ELSE IF s[i] \in S THEN Append(g[i - 1], s[i]) ELSE g[i - 1]]
    BY <2>1
  <2> DEFINE last == IF s[m] \in S THEN Append(g[m - 1], s[m]) ELSE g[m - 1]
             f == [i \in 0 .. m |-> IF i = m THEN last ELSE g[i]]
  <2> HIDE DEF last
  <2>3. \A i \in 0 .. m : f[i] = IF i = 0 THEN <<>>
                            ELSE IF s[i] \in S THEN Append(f[i - 1], s[i]) ELSE f[i - 1]
    <3> SUFFICES ASSUME NEW i \in 0 .. m
                 PROVE  f[i] = IF i = 0 THEN <<>>
                            ELSE IF s[i] \in S THEN Append(f[i - 1], s[i]) ELSE f[i - 1]
      OBVIOUS
    <3>1. CASE i = m
      <4>1. m - 1 \in 0 .. m /\ m - 1 # m
        BY <1>4, <2>1
      <4>2. f[m] = last /\ f[m - 1] = g[m - 1]
        BY <2>1, <4>1
      <4> HIDE DEF f
      <4> QED BY <1>4, <3>1, <4>2 DEF last
    <3>2. CASE i # m
      <4>1. i \in 0 .. m - 1
        BY <2>1, <3>2
      <4>2. f[i] = g[i] /\ g[i] = IF i = 0 THEN <<>>
                            ELSE IF s[i] \in S THEN Append(g[i - 1], s[i]) ELSE g[i - 1]
        BY <2>2, <3>2, <4>1
      <4>3. i # 0 => i - 1 \in 0 .. m /\ i - 1 # m /\ f[i - 1] = g[i - 1]
        BY <2>1, <4>1
      <4> HIDE DEF f
      <4> QED BY <4>2, <4>3
    <3> QED BY <3>1, <3>2
  <2>4. f = [i \in 0 .. m |-> f[i]]
    OBVIOUS
  <2> HIDE DEF f
  <2>5. f = [i \in 0 .. m |-> IF i = 0 THEN <<>>
                            ELSE IF s[i] \in S THEN Append(f[i - 1], s[i]) ELSE f[i - 1]]
    BY <2>3, <2>4
  <2>6. Runs(m)
    BY <2>5
  <2> QED BY <2>6
<1> QED BY <1>3, <1>4

\* A sequence through the filter: what is let through, in its order.
LEMMA FilteredIs ==
  ASSUME NEW s \in Seq(Nat), Rising(s), filter \subseteq Nat
  PROVE  /\ Filtered(s) \in Seq(Nat) /\ Rising(Filtered(s))
         /\ ToSet(Filtered(s)) = ToSet(s) \cap filter
<1> DEFINE L == Len(s)
           F == CHOOSE f : f = [i \in 0 .. L |->
                  IF i = 0 THEN <<>>
                  ELSE IF s[i] \in filter THEN Append(f[i - 1], s[i]) ELSE f[i - 1]]
           Before(n) == {s[i] : i \in 1 .. n} \cap filter
           Good(n) == F[n] \in Seq(Nat) /\ Rising(F[n]) /\ ToSet(F[n]) = Before(n)
           T == {n \in 0 .. L : ~Good(n)}
<1>1. Filtered(s) = F[L]
  BY DEF Filtered
<1>2. L \in Nat
  OBVIOUS
<1>3. F = [i \in 0 .. L |-> IF i = 0 THEN <<>>
             ELSE IF s[i] \in filter THEN Append(F[i - 1], s[i]) ELSE F[i - 1]]
  <2> HIDE DEF L
  <2>1. \E f : f = [i \in 0 .. L |->
                IF i = 0 THEN <<>>
                ELSE IF s[i] \in filter THEN Append(f[i - 1], s[i]) ELSE f[i - 1]]
    <3>1. PICK S \in SUBSET Nat : S = filter
      OBVIOUS
    <3>2. PICK f, V : /\ f \in [0 .. L -> V]
                      /\ \A i \in 0 .. L :
                           f[i] = IF i = 0 THEN <<>>
                                  ELSE IF s[i] \in S THEN Append(f[i - 1], s[i])
                                       ELSE f[i - 1]
      BY ONLY <1>2, FilterRuns, SMTT(30)
    <3>3. f = [i \in 0 .. L |-> IF i = 0 THEN <<>>
                ELSE IF s[i] \in filter THEN Append(f[i - 1], s[i]) ELSE f[i - 1]]
      BY <3>1, <3>2
    <3> QED BY <3>3
  <2> QED BY <2>1
<1>4. ToSet(s) = {s[i] : i \in 1 .. L}
  BY DEF ToSet
<1>5. \A i \in 1 .. L : s[i] \in Nat
  OBVIOUS
<1> HIDE DEF F, L
<1>6. (T = {}) => Good(L)
  <2>1. L \in 0 .. L
    BY <1>2
  <2> HIDE DEF Good
  <2> QED BY <2>1
<1>7. T = {}
  <2> SUFFICES ASSUME T # {} PROVE FALSE
    OBVIOUS
  <2>1. PICK m \in T : \A j \in T : m <= j
    <3>1. T \subseteq Nat
      BY <1>2
    <3> HIDE DEF T
    <3> QED BY <3>1, LeastNumber
  <2>2. m \in 0 .. L /\ ~Good(m)
    OBVIOUS
  <2>3. m # 0
    <3>1. F[0] = <<>>
      BY <1>2, <1>3
    <3>2. <<>> \in Seq(Nat) /\ Rising(<<>>) /\ ToSet(<<>>) = {}
      BY DEF Rising, ToSet
    <3>3. Before(0) = {}
      OBVIOUS
    <3>4. Good(0)
      BY <3>1, <3>2, <3>3
    <3> QED BY <2>2, <3>4
  <2>4. m \in Nat /\ m - 1 \in 0 .. L /\ m \in 1 .. L /\ m - 1 \in Nat
    BY <1>2, <2>2, <2>3
  <2>5. Good(m - 1)
    <3>1. ~(m <= m - 1)
      BY <2>4
    <3> HIDE DEF Good
    <3> QED BY <2>1, <2>4, <3>1
  <2>6. F[m] = IF s[m] \in filter THEN Append(F[m - 1], s[m]) ELSE F[m - 1]
    BY <1>3, <2>3, <2>4
  <2>7. 1 .. m = (1 .. m - 1) \cup {m}
    BY <2>4
  <2>8. {s[i] : i \in 1 .. m} = {s[i] : i \in 1 .. m - 1} \cup {s[m]}
    BY <2>7
  <2>9. CASE s[m] \in filter
    <3>1. Before(m) = Before(m - 1) \cup {s[m]}
      BY <2>8, <2>9
    <3>2. \A x \in Before(m - 1) : x < s[m]
      <4> SUFFICES ASSUME NEW i \in 1 .. m - 1 PROVE s[i] < s[m]
        OBVIOUS
      <4>1. i \in 1 .. Len(s) /\ m \in 1 .. Len(s) /\ i < m
        BY <2>4 DEF L
      <4> QED BY <4>1 DEF Rising
    <3> HIDE DEF Before
    <3>3. \A x \in ToSet(F[m - 1]) : x < s[m]
      BY <2>5, <3>2
    <3>4. F[m] = Append(F[m - 1], s[m]) /\ s[m] \in Nat
      BY <1>5, <2>4, <2>6, <2>9
    <3>5. Good(m)
      BY <2>5, <3>1, <3>3, <3>4, RisesOn
    <3> QED BY <2>2, <3>5
  <2>10. CASE s[m] \notin filter
    <3>1. Before(m) = Before(m - 1) /\ F[m] = F[m - 1]
      BY <2>6, <2>8, <2>10
    <3> HIDE DEF Before
    <3>2. Good(m)
      BY <2>5, <3>1
    <3> QED BY <2>2, <3>2
  <2> QED BY <2>9, <2>10
<1> QED BY <1>1, <1>4, <1>6, <1>7

-----------------------------------------------------------------------------
(* ParquetWriter: where a message is                                       *)

Taken == produced - (IF bridge = "send" THEN 1 ELSE 0)

\* Five sets that share 1 .. n among them.
Share(a, b, c, d, e, n) ==
  /\ a \cup b \cup c \cup d \cup e = 1 .. n
  /\ a \cap b = {} /\ a \cap c = {} /\ a \cap d = {} /\ a \cap e = {} /\ b \cap c = {}
  /\ b \cap d = {} /\ b \cap e = {} /\ c \cap d = {} /\ c \cap e = {} /\ d \cap e = {}

\* The messages in hand are in their order, and behind all that are stored; between two
\* batches there are none.
WriterInv ==
  /\ filter \subseteq Nat /\ produced \in Nat /\ bridge \in {"recv", "send"}
  /\ bridge = "send" => produced # 0
  /\ batch \in Seq(Nat) /\ files \in Seq(Seq(Nat))
  /\ Rising(batch) /\ (writer = "top" => batch = <<>>)
  /\ \A x \in Stored, m \in ToSet(batch) : x < m
  /\ InFileOrder
  /\ Share(Stored, ToSet(batch), filtered, dropped, abandoned, Taken)

LEMMA ShareIs ==
  ASSUME NEW a, NEW b, NEW c, NEW d, NEW e, NEW n
  PROVE  LET fates == <<a, b, c, d, e>>
         IN  (/\ UNION ToSet(fates) = 1 .. n
              /\ \A i, j \in 1 .. 5 : i # j => fates[i] \cap fates[j] = {})
             <=> Share(a, b, c, d, e, n)
<1> DEFINE fates == <<a, b, c, d, e>>
<1>1. /\ fates[1] = a /\ fates[2] = b /\ fates[3] = c /\ fates[4] = d /\ fates[5] = e
      /\ Len(fates) = 5
  OBVIOUS
<1>2. ToSet(fates) = {fates[i] : i \in 1 .. 5}
  BY <1>1 DEF ToSet
<1>3. 1 .. 5 = {1, 2, 3, 4, 5}
  OBVIOUS
<1> HIDE DEF fates
<1>4. ToSet(fates) = {a, b, c, d, e}
  BY <1>1, <1>2, <1>3
<1>5. UNION {a, b, c, d, e} = a \cup b \cup c \cup d \cup e
  OBVIOUS
<1>6. (\A i, j \in 1 .. 5 : i # j => fates[i] \cap fates[j] = {})
      <=> /\ a \cap b = {} /\ a \cap c = {} /\ a \cap d = {} /\ a \cap e = {} /\ b \cap c = {}
          /\ b \cap d = {} /\ b \cap e = {} /\ c \cap d = {} /\ c \cap e = {} /\ d \cap e = {}
  <2>1. ASSUME \A i, j \in 1 .. 5 : i # j => fates[i] \cap fates[j] = {}
        PROVE  /\ a \cap b = {} /\ a \cap c = {} /\ a \cap d = {} /\ a \cap e = {} /\ b \cap c = {}
               /\ b \cap d = {} /\ b \cap e = {} /\ c \cap d = {} /\ c \cap e = {} /\ d \cap e = {}
    <3>1. /\ fates[1] \cap fates[2] = {} /\ fates[1] \cap fates[3] = {}
          /\ fates[1] \cap fates[4] = {} /\ fates[1] \cap fates[5] = {}
          /\ fates[2] \cap fates[3] = {} /\ fates[2] \cap fates[4] = {}
          /\ fates[2] \cap fates[5] = {} /\ fates[3] \cap fates[4] = {}
          /\ fates[3] \cap fates[5] = {} /\ fates[4] \cap fates[5] = {}
      BY <1>3, <2>1
    <3> QED BY <1>1, <3>1
  <2>2. ASSUME /\ a \cap b = {} /\ a \cap c = {} /\ a \cap d = {} /\ a \cap e = {}
               /\ b \cap c = {} /\ b \cap d = {} /\ b \cap e = {} /\ c \cap d = {}
               /\ c \cap e = {} /\ d \cap e = {},
               NEW i \in 1 .. 5, NEW j \in 1 .. 5, i # j
        PROVE  fates[i] \cap fates[j] = {}
    <3>1. \A x, y : x \cap y = {} => y \cap x = {}
      OBVIOUS
    <3> QED BY <1>1, <1>3, <2>2, <3>1
  <2> QED BY <2>1, <2>2
<1> QED BY <1>4, <1>5, <1>6 DEF Share, fates

LEMMA WriterExact == WriterInv => ParquetExact
BY ShareIs DEF WriterInv, ParquetExact, Taken

\* Nothing before a message that is taken is behind it.
LEMMA BelowNext ==
  ASSUME WriterInv, bridge = "send"
  PROVE  /\ produced \in Nat /\ Taken = produced - 1 /\ 1 .. produced = (1 .. Taken) \cup {produced}
         /\ \A x \in 1 .. Taken : x < produced
<1>1. produced \in Nat /\ produced # 0 /\ Taken = produced - 1
  BY DEF WriterInv, Taken
<1> QED BY ONLY <1>1

LEMMA WriterInit == ParquetInit => WriterInv
<1> SUFFICES ASSUME ParquetInit PROVE WriterInv
  OBVIOUS
<1>1. /\ filter \in Filters /\ produced = 0 /\ bridge = "recv" /\ batch = <<>> /\ files = <<>>
      /\ dropped = {} /\ filtered = {} /\ abandoned = {}
  BY DEF ParquetInit
<1>2. filter \subseteq Nat
  BY <1>1, ParquetAssumption DEF ParquetAssumption
<1>3. ToSet(batch) = {} /\ Stored = {} /\ Rising(batch) /\ InFileOrder
  BY <1>1 DEF ToSet, Stored, Rising, InFileOrder
<1>4. Taken = 0 /\ 1 .. 0 = {}
  BY <1>1 DEF Taken
<1>5. <<>> \in Seq(Nat) /\ <<>> \in Seq(Seq(Nat))
  OBVIOUS
<1> QED BY <1>1, <1>2, <1>3, <1>4, <1>5 DEF WriterInv, Share

\* What moves no message.
LEMMA WriterRests ==
  ASSUME WriterInv, UNCHANGED <<filter, files, dropped, filtered, abandoned>>,
         \/ UNCHANGED <<batch, produced, bridge>> /\ (writer' = "top" => writer = "top")
         \/ UNCHANGED <<batch, writer>> /\ bridge = "recv" /\ bridge' = "send"
                /\ produced' = produced + 1
         \/ UNCHANGED <<produced, bridge>> /\ writer = "top" /\ batch' = <<>>
  PROVE  WriterInv'
<1>1. Stored' = Stored /\ InFileOrder' = InFileOrder
  BY DEF Stored, InFileOrder
<1>2. batch' = batch
  BY DEF WriterInv
<1>3. Rising(batch)' = Rising(batch) /\ ToSet(batch)' = ToSet(batch)
  BY <1>2 DEF Rising
<1>4. /\ Taken' = Taken /\ produced' \in Nat /\ bridge' \in {"recv", "send"}
      /\ bridge' = "send" => produced' # 0
  BY DEF WriterInv, Taken
<1>5. writer' = "top" => batch' = <<>>
  BY <1>2 DEF WriterInv
<1> QED BY <1>1, <1>2, <1>3, <1>4, <1>5 DEF WriterInv

LEMMA FeedKeeps ==
  ASSUME WriterInv, Feed
  PROVE  WriterInv'
<1>1. /\ bridge = "send" /\ bridge' = "recv" /\ batch' = Append(batch, produced)
      /\ writer \in {"buffer", "drain"}
      /\ UNCHANGED <<filter, produced, writer, files, dropped, filtered, abandoned>>
  BY DEF Feed, stopVars, fateVars
<1>2. /\ produced \in Nat /\ 1 .. produced = (1 .. Taken) \cup {produced}
      /\ \A x \in 1 .. Taken : x < produced
  BY <1>1, BelowNext
<1>3. Stored' = Stored /\ InFileOrder' = InFileOrder
  BY <1>1 DEF Stored, InFileOrder
<1>4. Stored \cup ToSet(batch) \subseteq 1 .. Taken
  BY DEF WriterInv, Share
<1>5. /\ batch' \in Seq(Nat) /\ Rising(batch)' /\ ToSet(batch)' = ToSet(batch) \cup {produced}
  BY <1>1, <1>2, <1>4, RisesOn DEF WriterInv
<1>6. \A x \in Stored', m \in ToSet(batch)' : x < m
  BY <1>2, <1>3, <1>4, <1>5 DEF WriterInv
<1>7. Taken' = produced /\ produced \notin 1 .. Taken
  BY <1>1, <1>2 DEF Taken
<1>8. Share(Stored, ToSet(batch), filtered, dropped, abandoned, Taken)'
  <2>1. Share(Stored, ToSet(batch) \cup {produced}, filtered, dropped, abandoned, produced)
    BY <1>2, <1>7 DEF WriterInv, Share
  <2> QED BY <1>1, <1>3, <1>5, <1>7, <2>1
<1> QED BY <1>1, <1>3, <1>5, <1>6, <1>8 DEF WriterInv

\* The filter moves messages from the batch to those it removed.
LEMMA CollectedKeeps ==
  ASSUME WriterInv, NEW ok, NEW where, NEW otherwise, Collected(ok, where, otherwise),
         where # "top", UNCHANGED <<filter, feedVars, files, dropped, abandoned>>
  PROVE  WriterInv'
<1>1. /\ batch' = Filtered(batch) /\ filtered' = filtered \cup (ToSet(batch) \ filter)
      /\ writer' = IF batch' = <<>> THEN otherwise ELSE where
      /\ UNCHANGED <<produced, bridge>>
  BY DEF Collected, feedVars
<1>2. /\ batch' \in Seq(Nat) /\ Rising(batch)' /\ ToSet(batch)' = ToSet(batch) \cap filter
  BY <1>1, FilteredIs DEF WriterInv
<1>3. Stored' = Stored /\ InFileOrder' = InFileOrder /\ Taken' = Taken
  BY <1>1 DEF Stored, InFileOrder, Taken
<1>4. \A x \in Stored', m \in ToSet(batch)' : x < m
  BY <1>2, <1>3 DEF WriterInv
<1>5. Share(Stored, ToSet(batch), filtered, dropped, abandoned, Taken)'
  <2>1. Share(Stored, ToSet(batch) \cap filter, filtered \cup (ToSet(batch) \ filter),
              dropped, abandoned, Taken)
    BY DEF WriterInv, Share
  <2> QED BY <1>1, <1>2, <1>3, <2>1
<1> QED BY <1>1, <1>2, <1>3, <1>4, <1>5 DEF WriterInv

LEMMA WriteFileKeeps ==
  ASSUME WriterInv, WriteFile
  PROVE  WriterInv'
<1>1. /\ files' = Append(files, batch) /\ batch' = <<>>
      /\ UNCHANGED <<filter, produced, bridge, dropped, filtered, abandoned>>
  BY DEF WriteFile, feedVars
<1> DEFINE n == Len(files)
<1>2. /\ n \in Nat /\ batch \in Seq(Nat) /\ files \in Seq(Seq(Nat)) /\ files' \in Seq(Seq(Nat))
      /\ Len(files') = n + 1 /\ files'[n + 1] = batch
      /\ \A a \in 1 .. n : files'[a] = files[a]
  BY <1>1 DEF WriterInv
<1>3. /\ ToSet(files) = {files[a] : a \in 1 .. n}
      /\ ToSet(files') = {files'[a] : a \in 1 .. n + 1}
      /\ ToSet(batch) = {batch[i] : i \in 1 .. Len(batch)}
  <2>1. DOMAIN files = 1 .. n
    BY <1>2
  <2>2. DOMAIN files' = 1 .. n + 1
    BY <1>2
  <2>3. DOMAIN batch = 1 .. Len(batch)
    BY <1>2
  <2> HIDE DEF n
  <2>4. ToSet(files) = {files[a] : a \in 1 .. n}
    BY <2>1 DEF ToSet
  <2>5. ToSet(files') = {files'[a] : a \in 1 .. n + 1}
    BY <2>2 DEF ToSet
  <2>6. ToSet(batch) = {batch[i] : i \in 1 .. Len(batch)}
    BY <2>3 DEF ToSet
  <2> QED BY <2>4, <2>5, <2>6
<1> HIDE DEF n
<1>4. \A a \in 1 .. n + 1 : a \in 1 .. n \/ a = n + 1
  BY <1>2
<1>5. ToSet(files') = ToSet(files) \cup {batch}
  <2>1. \A a \in 1 .. n : a \in 1 .. n + 1
    BY <1>2
  <2>2. n + 1 \in 1 .. n + 1
    BY <1>2
  <2>3. \A f \in ToSet(files') : f \in ToSet(files) \cup {batch}
    BY <1>2, <1>3, <1>4
  <2>4. \A f \in ToSet(files) : f \in ToSet(files')
    BY <1>2, <1>3, <2>1
  <2>5. batch \in ToSet(files')
    BY <1>2, <1>3, <2>2
  <2> QED BY <2>3, <2>4, <2>5
<1>6. Stored' = Stored \cup ToSet(batch)
  BY <1>5 DEF Stored
<1>7. ToSet(batch)' = {} /\ Rising(batch)' /\ Taken' = Taken
  BY <1>1 DEF ToSet, Rising, Taken
<1>8. InFileOrder'
  <2> SUFFICES ASSUME NEW a \in 1 .. n + 1, NEW b \in 1 .. n + 1,
                      NEW i \in 1 .. Len(files'[a]), NEW j \in 1 .. Len(files'[b]),
                      a < b \/ (a = b /\ i < j)
               PROVE  files'[a][i] < files'[b][j]
    BY <1>2 DEF InFileOrder
  <2>1. CASE a \in 1 .. n /\ b \in 1 .. n
    BY <1>2, <2>1 DEF WriterInv, InFileOrder, n
  <2>2. CASE a \in 1 .. n /\ b = n + 1
    <3>1. files[a] \in ToSet(files)
      BY <1>3, <2>2
    <3>2. i \in 1 .. Len(files[a])
      BY <1>2, <2>2
    <3>3. files[a][i] \in ToSet(files[a])
      BY <3>2 DEF ToSet
    <3>4. files[a][i] \in Stored
      BY <3>1, <3>3 DEF Stored
    <3>5. batch[j] \in ToSet(batch)
      BY <1>2, <1>3, <2>2
    <3> QED BY <1>2, <2>2, <3>4, <3>5 DEF WriterInv
  <2>3. CASE a = n + 1
    <3>1. b = n + 1 /\ i < j
      BY <1>2, <1>4, <2>3
    <3> QED BY <1>2, <2>3, <3>1 DEF WriterInv, Rising
  <2> QED BY <1>4, <2>1, <2>2, <2>3
<1>9. Share(Stored, ToSet(batch), filtered, dropped, abandoned, Taken)'
  <2>1. Share(Stored \cup ToSet(batch), {}, filtered, dropped, abandoned, Taken)
    BY DEF WriterInv, Share
  <2> QED BY <1>1, <1>6, <1>7, <2>1
<1>10. batch' \in Seq(Nat)
  BY <1>1
<1> QED BY <1>1, <1>2, <1>7, <1>8, <1>9, <1>10 DEF WriterInv

\* A batch that is not written is lost, or abandoned.
LEMMA BatchGone ==
  ASSUME WriterInv, batch' = <<>>, UNCHANGED <<filter, produced, bridge, files, filtered>>,
         \/ dropped' = dropped \cup ToSet(batch) /\ UNCHANGED abandoned
         \/ abandoned' = abandoned \cup ToSet(batch) /\ UNCHANGED dropped
  PROVE  WriterInv'
<1>1. ToSet(batch)' = {} /\ Rising(batch)' /\ Taken' = Taken
  BY DEF ToSet, Rising, Taken
<1>2. Stored' = Stored /\ InFileOrder' = InFileOrder
  BY DEF Stored, InFileOrder
<1>3. Share(Stored, ToSet(batch), filtered, dropped, abandoned, Taken)'
  <2>1. /\ Share(Stored, {}, filtered, dropped \cup ToSet(batch), abandoned, Taken)
        /\ Share(Stored, {}, filtered, dropped, abandoned \cup ToSet(batch), Taken)
    BY DEF WriterInv, Share
  <2> QED BY <1>1, <1>2, <2>1
<1>4. batch' \in Seq(Nat)
  OBVIOUS
<1> QED BY <1>1, <1>2, <1>3, <1>4 DEF WriterInv

LEMMA WriterKept == WriterInv /\ [ParquetNext]_parquetVars => WriterInv'
<1> SUFFICES ASSUME WriterInv, [ParquetNext]_parquetVars PROVE WriterInv'
  OBVIOUS
<1>1. CASE Receive \/ Top
  <2>1. /\ UNCHANGED <<filter, files, dropped, filtered, abandoned>>
        /\ \/ UNCHANGED <<batch, writer>> /\ bridge = "recv" /\ bridge' = "send"
                 /\ produced' = produced + 1
           \/ UNCHANGED <<produced, bridge>> /\ writer = "top" /\ batch' = <<>>
    BY <1>1 DEF Receive, Top, feedVars, stopVars, fateVars
  <2> QED BY <2>1, WriterRests
<1>2. CASE FeedPanics \/ CloseRaw \/ CancelWriter \/ CloseAbandoned \/ WritePanics
             \/ UNCHANGED parquetVars
  <2>1. /\ UNCHANGED <<filter, files, dropped, filtered, abandoned>>
        /\ UNCHANGED <<batch, produced, bridge>> /\ (writer' = "top" => writer = "top")
    BY <1>2 DEF FeedPanics, CloseRaw, CancelWriter, CloseAbandoned, WritePanics, parquetVars,
                feedVars, stopVars, fateVars
  <2> QED BY <2>1, WriterRests
<1>3. CASE Feed
  BY <1>3, FeedKeeps
<1>4. CASE Buffered \/ Drained
  <2>1. PICK ok, otherwise :
             /\ Collected(ok, "write", otherwise)
             /\ UNCHANGED <<filter, feedVars, files, dropped, abandoned>>
    BY <1>4 DEF Buffered, Drained
  <2> QED BY <2>1, CollectedKeeps
<1>5. CASE WriteFile
  BY <1>5, WriteFileKeeps
<1>6. CASE WriteFails
  <2>1. /\ batch' = <<>> /\ dropped' = dropped \cup ToSet(batch)
        /\ UNCHANGED <<filter, produced, bridge, files, filtered, abandoned>>
    BY <1>6 DEF WriteFails, feedVars
  <2> QED BY <2>1, BatchGone
<1>7. CASE Abandon
  <2>1. UNCHANGED <<filter, produced, bridge, files, filtered, dropped>>
    BY <1>7 DEF Abandon, feedVars
  <2>2. CASE abandonOpen
    <3>1. batch' = <<>> /\ abandoned' = abandoned \cup ToSet(batch)
      BY <1>7, <2>2 DEF Abandon
    <3> QED BY <2>1, <3>1, BatchGone
  <2>3. CASE ~abandonOpen
    <3>1. UNCHANGED <<batch, abandoned, writer>>
      BY <1>7, <2>3 DEF Abandon
    <3> QED BY <2>1, <3>1, WriterRests
  <2> QED BY <2>2, <2>3
<1> QED BY <1>1, <1>2, <1>3, <1>4, <1>5, <1>6, <1>7 DEF ParquetNext, WriterNext

\* No cut between batches, by size, by time, by the close of the channel or by the cancel,
\* loses a message or stores one twice or out of order, for any buffer size, any filter and
\* any order of the stopping handlers (Start, parquetPoolService.go).
THEOREM NothingLostBetweenBatches == ParquetSpec => []ParquetExact
<1> QED BY WriterInit, WriterKept, WriterExact, PTL DEF ParquetSpec

-----------------------------------------------------------------------------
(* Steps, Cleanup, ParquetWriter: types                                    *)

\* The variables of the step runners keep their types: the WaitGroup is never negative.
THEOREM StepsTypeCorrect == StepsSpec => []StepsTypeOK
<1>1. StepsInv => StepsTypeOK
  BY DEF StepsInv
<1> QED BY <1>1, StepsBegin, StepsStep, PTL DEF StepsSpec

\* The variables of the clean-up keep their types.
THEOREM CleanupTypeCorrect == CleanupSpec => []CleanupTypeOK
<1>1. CleanupInv => CleanupTypeOK
  BY DEF CleanupInv
<1> QED BY <1>1, CleanupBegins, CleanupStep, PTL DEF CleanupSpec

\* What the places of the messages, which WriterInv bounds, do not say.
WriterTyped ==
  /\ filter \in Filters /\ produced \in 0 .. MaxSent
  /\ rawOpen \in BOOLEAN /\ stopped \in BOOLEAN /\ abandonOpen \in BOOLEAN
  /\ more \in BOOLEAN /\ final \in BOOLEAN /\ died \in BOOLEAN
  /\ writer \in {"top", "buffer", "write", "abandon", "drain", "flush", "ended"}

LEMMA WriterTypes == WriterTyped /\ [ParquetNext]_parquetVars => WriterTyped'
<1> SUFFICES ASSUME WriterTyped, [ParquetNext]_parquetVars PROVE WriterTyped'
  OBVIOUS
<1> USE DEF WriterTyped
<1>1. CASE Receive
  <2>1. produced < MaxSent /\ produced' = produced + 1 /\ MaxSent \in Nat
    BY <1>1, ParquetAssumption DEF Receive, ParquetAssumption
  <2>2. produced' \in 0 .. MaxSent
    BY <2>1
  <2> QED BY <1>1, <2>2 DEF Receive, stopVars
<1>2. CASE Feed  BY <1>2 DEF Feed, stopVars
<1>3. CASE FeedPanics  BY <1>3 DEF FeedPanics, feedVars, stopVars
<1>4. CASE CloseRaw \/ CancelWriter \/ CloseAbandoned
  BY <1>4 DEF CloseRaw, CancelWriter, CloseAbandoned, feedVars
<1>5. CASE Top  BY <1>5 DEF Top, feedVars, stopVars
<1>6. CASE Buffered  BY <1>6 DEF Buffered, Collected, feedVars, stopVars
<1>7. CASE Drained  BY <1>7 DEF Drained, Collected, feedVars, stopVars
<1>8. CASE WriteFile  BY <1>8 DEF WriteFile, Onward, feedVars, stopVars
<1>9. CASE WriteFails  BY <1>9 DEF WriteFails, feedVars, stopVars
<1>10. CASE WritePanics  BY <1>10 DEF WritePanics, feedVars, stopVars
<1>11. CASE Abandon  BY <1>11 DEF Abandon, Onward, feedVars, stopVars
<1>12. CASE UNCHANGED parquetVars  BY <1>12 DEF parquetVars
<1> QED BY <1>1, <1>2, <1>3, <1>4, <1>5, <1>6, <1>7, <1>8, <1>9, <1>10, <1>11, <1>12
        DEF ParquetNext, WriterNext

\* Where every message is some message that was taken, none is beyond the bound.
LEMMA WriterBounded == WriterInv /\ WriterTyped => ParquetTypeOK
<1> SUFFICES ASSUME WriterInv, WriterTyped PROVE ParquetTypeOK
  OBVIOUS
<1>1. MaxSent \in Nat /\ produced \in 0 .. MaxSent /\ bridge \in {"recv", "send"}
      /\ batch \in Seq(Nat) /\ files \in Seq(Seq(Nat))
  BY ParquetAssumption DEF ParquetAssumption, WriterInv, WriterTyped
<1>2. Stored \cup ToSet(batch) \cup filtered \cup dropped \cup abandoned \subseteq 1 .. MaxSent
  <2>1. Taken <= MaxSent /\ Taken \in Int
    BY <1>1 DEF Taken
  <2>2. 1 .. Taken \subseteq 1 .. MaxSent
    BY <1>1, <2>1
  <2> QED BY <2>2 DEF WriterInv, Share
<1>3. ASSUME NEW s \in Seq(Nat), ToSet(s) \subseteq 1 .. MaxSent
      PROVE  s \in Seq(1 .. MaxSent)
  <2>1. PICK S : S = 1 .. MaxSent
    OBVIOUS
  <2>2. \A i \in 1 .. Len(s) : s[i] \in S
    BY <1>3, <2>1 DEF ToSet
  <2>3. s \in Seq(S)
    BY ONLY <2>2, s \in Seq(Nat)
  <2> QED BY <2>1, <2>3
<1>4. batch \in Seq(1 .. MaxSent)
  BY <1>1, <1>2, <1>3
<1>5. files \in Seq(Seq(1 .. MaxSent))
  <2>1. DOMAIN files = 1 .. Len(files) /\ Len(files) \in Nat
    BY <1>1
  <2>2. ASSUME NEW a \in 1 .. Len(files)
        PROVE  files[a] \in Seq(1 .. MaxSent)
    <3>1. files[a] \in Seq(Nat)
      BY <1>1
    <3>2. files[a] \in ToSet(files)
      BY <2>1 DEF ToSet
    <3>3. ToSet(files[a]) \subseteq 1 .. MaxSent
      BY <1>2, <3>2 DEF Stored
    <3> QED BY <1>3, <3>1, <3>3
  <2> QED BY <1>1, <2>1, <2>2
<1>6. {rawOpen, stopped, abandonOpen, more, final, died} \subseteq BOOLEAN
  <2>1. \A a, b, c, d, e, f \in BOOLEAN : {a, b, c, d, e, f} \subseteq BOOLEAN
    OBVIOUS
  <2> QED BY <2>1 DEF WriterTyped
<1> QED BY <1>1, <1>2, <1>4, <1>5, <1>6 DEF ParquetTypeOK, WriterTyped

\* The variables of the parquet writer keep their types: no file, and no message that is
\* lost, is of anything but messages the service has received.
THEOREM ParquetTypeCorrect == ParquetSpec => []ParquetTypeOK
<1>1. ParquetInit => WriterTyped
  <2> SUFFICES ASSUME ParquetInit PROVE WriterTyped
    OBVIOUS
  <2>1. 0 \in 0 .. MaxSent
    BY ParquetAssumption DEF ParquetAssumption
  <2> QED BY <2>1 DEF ParquetInit, WriterTyped
<1> QED BY <1>1, WriterInit, WriterKept, WriterTypes, WriterBounded, PTL DEF ParquetSpec

-----------------------------------------------------------------------------
(* The parts together                                                      *)

\* Every behaviour of the run is a behaviour of each of its parts, so that what is proved
\* of a part holds of the run, fair or not.
THEOREM LiveParts ==
  LiveSpec => StepsSpec /\ CleanupSpec /\ ParquetSpec /\ QueueSpec /\ Spec
<1>1. LiveInit => StepsInit /\ CleanupInit /\ ParquetInit /\ QueueInit /\ Init
  BY DEF LiveInit
<1>2. [LiveNext]_liveVars =>
        /\ [StepsNext]_stepVars /\ [CleanupNext]_cleanupVars /\ [ParquetNext]_parquetVars
        /\ [QueueNext]_queueVars /\ [Next]_vars
  BY DEF LiveNext, Alone, liveVars, notSteps, notCleanup, notParquet, notQueue, notChan
<1>3. LiveSpec => LiveInit /\ [][LiveNext]_liveVars
  BY DEF LiveSpec
<1> QED BY <1>1, <1>2, <1>3, PTL
        DEF StepsSpec, CleanupSpec, ParquetSpec, QueueSpec, Spec

\* All parts keep the types of their variables.
THEOREM LiveTypeCorrect == LiveSpec => []PartsTypeOK
<1>1. Spec => []TypeOK
  <2>1. HandedInv => TypeOK
    BY DEF HandedInv
  <2> QED BY <2>1, HandedInit, HandedStep, PTL DEF Spec
<1>2. StepsTypeOK /\ CleanupTypeOK /\ ParquetTypeOK /\ QueueTypeOK /\ TypeOK => PartsTypeOK
  BY DEF PartsTypeOK
<1> QED BY <1>1, <1>2, LiveParts, StepsTypeCorrect, CleanupTypeCorrect, ParquetTypeCorrect,
           QueueTypeCorrect, PTL
=============================================================================
