----------------------------- MODULE RedisStream -----------------------------
(***************************************************************************)
(* One topic and one consumer group of pkg/messaging/redisStreaming.go: a  *)
(* redis stream, the group's position and its list of pending entries      *)
(* (PEL), the read loop of every consumer process, and ProcessPendings,    *)
(* the job that retries what was read and never acknowledged.              *)
(*                                                                         *)
(* A message is its number in the stream.  Time matters only to the dead   *)
(* letter: messages up to number oldest are past DefaultDeadLetterDurtion. *)
(***************************************************************************)
EXTENDS Naturals, FiniteSets

CONSTANTS
  Consumers,    \* ConsumerName of each process
  NoOne,        \* owner of an entry that is not pending
  NoMsg,        \* no message in hand
  MaxMsgs,      \* bound on the messages published
  MaxLen,       \* XADD MAXLEN
  ResetTopic,   \* the topic is in ResetTopics
  RedisFails    \* redis commands may fail

ASSUME StreamAssumption ==
  /\ MaxMsgs \in Nat /\ MaxLen \in Nat \ {0}
  /\ ResetTopic \in BOOLEAN /\ RedisFails \in BOOLEAN
  /\ NoOne \notin Consumers /\ NoMsg \notin 1 .. MaxMsgs

Msgs == 1 .. MaxMsgs

VARIABLES
  last,        \* the last message published
  trimmed,     \* messages up to this one have been trimmed off the stream
  group,       \* the consumer group exists
  start,       \* the message the group was created after
  delivered,   \* the group's last-delivered-id
  pel,         \* per message: the consumer it is pending for, or NoOne
  up,          \* per consumer: Sub has returned and the read loop runs
  batch,       \* per consumer: what it has read and not handled yet
  hand,        \* per consumer: processed, its XACK still to come
  sweep,       \* the consumers ProcessPendings has still to look at
  upTo,        \* the highest ID in the summary it started from
  whose,       \* the consumer it is looking at
  items,       \* what XPENDING returned for it and is still to be visited
  retry,       \* the entry it has read back and is handling
  settle,      \* handled: the entry whose XACK is still to come
  oldest,      \* messages up to this one are older than the dead letter limit
  done,        \* the messages processed without error (history)
  abandoned    \* the messages sent to AbandonedChan (history)

streamVars == <<last, trimmed, group, start, delivered>>
loopVars   == <<up, batch, hand>>
sweepVars  == <<sweep, upTo, whose, items, retry, settle>>
vars == <<last, trimmed, group, start, delivered, pel, up, batch, hand,
          sweep, upTo, whose, items, retry, settle, oldest, done, abandoned>>

TypeOK ==
  /\ last \in 0 .. MaxMsgs /\ trimmed \in 0 .. last
  /\ group \in BOOLEAN /\ start \in 0 .. last /\ delivered \in 0 .. last
  /\ pel \in [Msgs -> Consumers \cup {NoOne}]
  /\ up \in [Consumers -> BOOLEAN]
  /\ batch \in [Consumers -> SUBSET Msgs]
  /\ hand \in [Consumers -> Msgs \cup {NoMsg}]
  /\ sweep \in SUBSET Consumers /\ upTo \in 0 .. MaxMsgs /\ whose \in Consumers \cup {NoOne}
  /\ items \in SUBSET Msgs
  /\ retry \in Msgs \cup {NoMsg} /\ settle \in Msgs \cup {NoMsg}
  /\ oldest \in 0 .. last
  /\ done \in SUBSET Msgs /\ abandoned \in SUBSET Msgs

Init ==
  /\ last = 0 /\ trimmed = 0
  /\ group = FALSE /\ start = 0 /\ delivered = 0
  /\ pel = [m \in Msgs |-> NoOne]
  /\ up = [c \in Consumers |-> FALSE]
  /\ batch = [c \in Consumers |-> {}]
  /\ hand = [c \in Consumers |-> NoMsg]
  /\ sweep = {} /\ upTo = 0 /\ whose = NoOne /\ items = {} /\ retry = NoMsg /\ settle = NoMsg
  /\ oldest = 0
  /\ done = {} /\ abandoned = {}

Least(S) == CHOOSE m \in S : \A k \in S : m <= k

PendingOf(c) == {m \in Msgs : pel[m] = c}

-----------------------------------------------------------------------------
(* Publishing and time *)

\* XADD MAXLEN: the stream never holds more than MaxLen messages.
Pub ==
  /\ last < MaxMsgs
  /\ last' = last + 1
  /\ trimmed' = IF last + 1 > trimmed + MaxLen THEN trimmed + 1 ELSE trimmed
  /\ UNCHANGED <<group, start, delivered, pel, loopVars, sweepVars, oldest,
                 done, abandoned>>

\* Eight hours have passed since the next message was published.
GrowOld ==
  /\ oldest < last
  /\ oldest' = oldest + 1
  /\ UNCHANGED <<streamVars, pel, loopVars, sweepVars, done, abandoned>>

-----------------------------------------------------------------------------
(* Sub and its read loop *)

\* Slip: the group starts behind the message that is published next.
SubBehind(c) ==
  /\ ~up[c]
  /\ up' = [up EXCEPT ![c] = TRUE]
  /\ group' = TRUE
  /\ start' = IF group THEN start ELSE last
  /\ delivered' = IF group THEN delivered ELSE last + 1
  /\ UNCHANGED <<last, trimmed, pel, batch, hand, sweepVars, oldest, done, abandoned>>

\* checkAndCreate makes the group at "$", unless it is there; ResetTopics moves it
\* back to the beginning every time a process subscribes.
Sub(c) ==
  /\ ~up[c]
  /\ up' = [up EXCEPT ![c] = TRUE]
  /\ group' = TRUE
  /\ start' = IF ResetTopic THEN 0 ELSE IF group THEN start ELSE last
  /\ delivered' = IF ResetTopic THEN 0 ELSE IF group THEN delivered ELSE last
  /\ UNCHANGED <<last, trimmed, pel, batch, hand, sweepVars, oldest, done, abandoned>>

Undelivered == {m \in Msgs : m > delivered /\ m > trimmed /\ m <= last}

Idle(c) == up[c] /\ batch[c] = {} /\ hand[c] = NoMsg

\* XREADGROUP >: everything not delivered yet becomes pending for c.
Deliver(c) ==
  /\ Idle(c) /\ Undelivered # {}
  /\ delivered' = last
  /\ pel' = [m \in Msgs |-> IF m \in Undelivered THEN c ELSE pel[m]]
  /\ UNCHANGED <<last, trimmed, group, start, up, hand, sweepVars, oldest,
                 done, abandoned>>

ReadNew(c) ==
  Deliver(c) /\ batch' = [batch EXCEPT ![c] = Undelivered]

\* The reply is lost: the entries are pending for c, which never sees them.
ReadLost(c) ==
  RedisFails /\ Deliver(c) /\ UNCHANGED batch

\* Slip: a message whose processor failed is acknowledged.
HandleAndAck(c) ==
  /\ up[c] /\ hand[c] = NoMsg /\ batch[c] # {}
  /\ batch' = [batch EXCEPT ![c] = @ \ {Least(@)}]
  /\ hand' = [hand EXCEPT ![c] = Least(batch[c])]
  /\ done' \in {done, done \cup {Least(batch[c])}}
  /\ UNCHANGED <<streamVars, pel, up, sweepVars, oldest, abandoned>>

\* handleMessage: the processor succeeds and the XACK is next; or it fails, the
\* error is dropped by the loop, and the entry stays pending.
Handle(c) ==
  /\ up[c] /\ hand[c] = NoMsg /\ batch[c] # {}
  /\ batch' = [batch EXCEPT ![c] = @ \ {Least(@)}]
  /\ \/ /\ hand' = [hand EXCEPT ![c] = Least(batch[c])]
        /\ done' = done \cup {Least(batch[c])}
     \/ UNCHANGED <<hand, done>>
  /\ UNCHANGED <<streamVars, pel, up, sweepVars, oldest, abandoned>>

\* XACK
Ack(c) ==
  /\ hand[c] # NoMsg
  /\ hand' = [hand EXCEPT ![c] = NoMsg]
  /\ pel' = [pel EXCEPT ![hand[c]] = NoOne]
  /\ UNCHANGED <<streamVars, up, batch, sweepVars, oldest, done, abandoned>>

\* The XACK of an entry that is pending fails: its error is logged and dropped.
AckError(c) ==
  /\ RedisFails /\ hand[c] # NoMsg /\ pel[hand[c]] # NoOne
  /\ hand' = [hand EXCEPT ![c] = NoMsg]
  /\ UNCHANGED <<streamVars, pel, up, batch, sweepVars, oldest, done, abandoned>>

\* The process dies: what it has read and not acknowledged stays pending.
Crash(c) ==
  /\ up[c]
  /\ up' = [up EXCEPT ![c] = FALSE]
  /\ batch' = [batch EXCEPT ![c] = {}]
  /\ hand' = [hand EXCEPT ![c] = NoMsg]
  /\ UNCHANGED <<streamVars, pel, sweepVars, oldest, done, abandoned>>

-----------------------------------------------------------------------------
(* ProcessPendings, on the process that leads the schedule *)

SweepIdle == sweep = {} /\ whose = NoOne

\* XPENDING: which consumers have anything pending, and the highest such ID.
BeginSweep ==
  /\ SweepIdle
  /\ \E top \in Msgs :
       /\ pel[top] # NoOne /\ \A m \in Msgs : pel[m] # NoOne => m <= top
       /\ upTo' = top
  /\ sweep' = {c \in Consumers : PendingOf(c) # {}}
  /\ UNCHANGED <<streamVars, pel, loopVars, whose, items, retry, settle, oldest,
                 done, abandoned>>

\* XPENDING of one consumer, in map order, up to that ID.
ListPending(c) ==
  /\ whose = NoOne /\ c \in sweep
  /\ sweep' = sweep \ {c}
  /\ whose' = c
  /\ items' = {m \in PendingOf(c) : m <= upTo}
  /\ UNCHANGED <<streamVars, pel, loopVars, upTo, retry, settle, oldest, done, abandoned>>

\* That XPENDING fails: on to the next consumer.
ListError(c) ==
  /\ RedisFails /\ whose = NoOne /\ c \in sweep
  /\ sweep' = sweep \ {c}
  /\ upTo' = IF sweep = {c} THEN 0 ELSE upTo
  /\ UNCHANGED <<streamVars, pel, loopVars, whose, items, retry, settle, oldest,
                 done, abandoned>>

Between == whose # NoOne /\ retry = NoMsg /\ settle = NoMsg

\* XREADGROUP with the ID of a pending item returns, COUNT 1, the first entry
\* pending for that consumer AFTER that ID; a trimmed one comes back empty and is
\* acknowledged unprocessed.
After(m) == {k \in PendingOf(whose) : k > m}

ReadBack ==
  /\ Between /\ items # {}
  /\ items' = items \ {Least(items)}
  /\ LET found == After(Least(items)) IN
       \/ found = {} /\ UNCHANGED <<retry, settle>>
       \/ /\ found # {} /\ Least(found) > trimmed
          /\ retry' = Least(found) /\ UNCHANGED settle
       \/ /\ found # {} /\ Least(found) <= trimmed
          /\ settle' = Least(found) /\ UNCHANGED retry
  /\ UNCHANGED <<streamVars, pel, loopVars, sweep, upTo, whose, oldest, done, abandoned>>

\* Slip: no dead letter.
RetryForEver ==
  /\ retry # NoMsg
  /\ retry' = NoMsg
  /\ \/ done' = done \cup {retry} /\ settle' = retry
     \/ UNCHANGED <<done, settle>>
  /\ UNCHANGED <<streamVars, pel, loopVars, sweep, upTo, whose, items, oldest, abandoned>>

\* handleMessage on a retry; after a failure a message past the limit goes to
\* AbandonedChan and is acknowledged.
Retry ==
  /\ retry # NoMsg
  /\ retry' = NoMsg
  /\ \/ done' = done \cup {retry} /\ settle' = retry /\ UNCHANGED abandoned
     \/ /\ retry <= oldest
        /\ abandoned' = abandoned \cup {retry} /\ settle' = retry /\ UNCHANGED done
     \/ retry > oldest /\ UNCHANGED <<done, abandoned, settle>>
  /\ UNCHANGED <<streamVars, pel, loopVars, sweep, upTo, whose, items, oldest>>

SweepAck ==
  /\ settle # NoMsg
  /\ settle' = NoMsg
  /\ pel' = [pel EXCEPT ![settle] = NoOne]
  /\ UNCHANGED <<streamVars, loopVars, sweep, upTo, whose, items, retry, oldest,
                 done, abandoned>>

\* The XACK fails: its error is logged and dropped here too.
SweepAckError ==
  /\ RedisFails /\ settle # NoMsg /\ pel[settle] # NoOne
  /\ settle' = NoMsg
  /\ UNCHANGED <<streamVars, pel, loopVars, sweep, upTo, whose, items, retry, oldest,
                 done, abandoned>>

EndConsumer ==
  /\ Between /\ items = {}
  /\ whose' = NoOne
  /\ upTo' = IF sweep = {} THEN 0 ELSE upTo
  /\ UNCHANGED <<streamVars, pel, loopVars, sweep, items, retry, settle, oldest,
                 done, abandoned>>

\* A failed XREADGROUP ends the sweep, and so does the death of the process that
\* runs it, with work left to do.
AbortSweep ==
  /\ sweep # {} \/ items # {} \/ retry # NoMsg \/ settle # NoMsg
  /\ sweep' = {} /\ upTo' = 0 /\ whose' = NoOne /\ items' = {} /\ retry' = NoMsg /\ settle' = NoMsg
  /\ UNCHANGED <<streamVars, pel, loopVars, oldest, done, abandoned>>

Sweep ==
  \/ BeginSweep \/ ReadBack \/ Retry \/ SweepAck \/ EndConsumer
  \/ \E c \in Consumers : ListPending(c)

-----------------------------------------------------------------------------

Loop(c) == ReadNew(c) \/ Handle(c) \/ Ack(c)

Failure ==
  \/ SweepAckError \/ AbortSweep
  \/ \E c \in Consumers : ReadLost(c) \/ AckError(c) \/ Crash(c) \/ ListError(c)

Next ==
  \/ Pub \/ GrowOld \/ Sweep \/ Failure
  \/ \E c \in Consumers : Sub(c) \/ Loop(c)

Spec == Init /\ [][Next]_vars

\* Time passes, the loops of live processes run, the sweep is scheduled for ever.
Fairness ==
  /\ WF_vars(GrowOld) /\ WF_vars(Sweep)
  /\ \A c \in Consumers : WF_vars(Sub(c)) /\ WF_vars(Loop(c))

FairSpec == Spec /\ Fairness

-----------------------------------------------------------------------------
(* Properties *)

Settled(m) == m \in done \/ m \in abandoned \/ m <= trimmed

\* At least once: a message published since the group exists is still to be
\* delivered, or pending, or has been processed, abandoned or trimmed away.  No
\* crash, failed processor or lost reply makes one fall in between.
NothingForgotten ==
  group => \A m \in Msgs :
    m > start /\ m <= last => m > delivered \/ pel[m] # NoOne \/ Settled(m)

\* What the sweep does achieve, once failures stop: no entry is for ever pending
\* behind another of the same consumer, however often its processor fails.
LaterPendingsSettle ==
  <>[][~Failure]_vars =>
    \A m \in Msgs, c \in Consumers :
      []<>~(pel[m] = c /\ \E k \in Msgs : k < m /\ pel[k] = c)

\* redisStreaming.go:31, "if messaging pending for more than this duration, will be
\* put to dead letter": once failures stop, no entry is pending for ever.
PendingsSettle ==
  <>[][~Failure]_vars => \A m \in Msgs : pel[m] # NoOne ~> pel[m] = NoOne
=============================================================================
