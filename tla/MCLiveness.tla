----------------------------- MODULE MCLiveness -----------------------------
(***************************************************************************)
(* The components that owe somebody an answer, for TLC: the step runners,  *)
(* the table clean-up, the parquet writer, the blocking queue and the      *)
(* fan-out, the last without liberties: one Start, one close, no late Push.*)
(* They have no variable in common, so one behaviour runs the one that     *)
(* part names while the others stay at one initial state: the states of    *)
(* the run are the sum of theirs, not the product.                         *)
(***************************************************************************)
EXTENDS Steps, Cleanup, ParquetWriter, BlockingQueue, ChanAdaptor

VARIABLE part

Parts == {"steps", "cleanup", "parquet", "queue", "chan"}

notSteps   == <<part, cleanupVars, parquetVars, queueVars, vars>>
notCleanup == <<part, stepVars, parquetVars, queueVars, vars>>
notParquet == <<part, stepVars, cleanupVars, queueVars, vars>>
notQueue   == <<part, stepVars, cleanupVars, parquetVars, vars>>
notChan    == <<part, stepVars, cleanupVars, parquetVars, queueVars>>
liveVars   == <<notChan, vars>>

Alone(p, Action, others) == part = p /\ Action /\ UNCHANGED others

LiveInit ==
  /\ part \in Parts
  /\ StepsInit /\ (part # "steps" => async)
  /\ CleanupInit
  /\ part # "cleanup" =>
       /\ request = CHOOSE r \in Requests : TRUE
       /\ \A t \in DOMAIN rows, r \in Rows : rows[t][r] = "live"
  /\ ParquetInit /\ (part # "parquet" => filter = CHOOSE f \in Filters : TRUE)
  /\ QueueInit /\ Init

LiveNext ==
  \/ Alone("steps", StepsNext, notSteps)
  \/ Alone("cleanup", CleanupNext, notCleanup)
  \/ Alone("parquet", ParquetNext, notParquet)
  \/ Alone("queue", QueueNext, notQueue)
  \/ Alone("chan", Next, notChan)

\* Steps return, batches are deleted, timeouts expire, writes return, AbandonedChan has
\* its reader, and a closed channel is always ready, so that a timeout cannot be
\* preferred to it for ever; a goroutine that was woken gets the mutex; receivers are
\* registered, the adaptor is started and handlers return.  Nobody owes a cancel, a
\* push or a close.  part never changes, so that a disjunction over parts is fair to each.
LiveFairness ==
  /\ WF_liveVars(\/ Alone("steps", SkipStep \/ StartStep, notSteps)
                 \/ Alone("cleanup", CallCleanup \/ DeleteBatch \/ CleanupDone, notCleanup)
                 \/ Alone("parquet", WriterNext, notParquet))
  /\ WF_liveVars(Alone("steps", ReturnResults, notSteps))
  /\ \A i \in 1 .. N : WF_liveVars(Alone("steps", StepNext(i), notSteps))
  /\ SF_liveVars(Alone("parquet", Buffered /\ ~more', notParquet))
  /\ \A c \in Consumers : WF_liveVars(Alone("queue", ResumePop(c), notQueue))
  /\ \A r \in Receivers :
       /\ WF_liveVars(Alone("chan", CallSub(r) \/ AddReceiver(r), notChan))
       /\ WF_liveVars(Alone("chan", ReceiverNext(r), notChan))
  /\ \A p \in Pumps : WF_liveVars(Alone("chan", PumpNext(p), notChan))
  /\ \A p \in Producers : WF_liveVars(Alone("chan", Send(p), notChan))

LiveSpec == LiveInit /\ [][LiveNext]_liveVars /\ LiveFairness

-----------------------------------------------------------------------------
PartsTypeOK == StepsTypeOK /\ CleanupTypeOK /\ ParquetTypeOK /\ QueueTypeOK /\ TypeOK

\* Every loop comes to its end: the caller of the step runners gets its results,
\* however the steps end and whenever they are cancelled (steps.go:214); a clean-up
\* that began is done or has failed (cleanup.go:66-86); and the parquet writer ends
\* after a close or a cancel, even if every write fails (parquetPoolService.go:412-448).
LoopsEnd ==
  /\ part = "steps" ~> returned
  /\ CleanupEnds
  /\ ParquetEnds
=============================================================================
