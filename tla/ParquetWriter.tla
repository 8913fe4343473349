---------------------------- MODULE ParquetWriter ----------------------------
(***************************************************************************)
(* ParquetDataService (pkg/parquet/parquetPoolService.go): Start collects  *)
(* the messages of a channel into batches, by size or by time, and writes  *)
(* each batch to a file of its own; the goroutine of ToAnyChan             *)
(* (pkg/core/util.go) feeds the channel, which is unbuffered, and its      *)
(* stopping handler closes it.  A message is its number.                   *)
(***************************************************************************)
EXTENDS Naturals, Sequences, FiniteSets, SequencesExt

CONSTANTS
  BufferSize,
  MaxSent,      \* bound on the messages
  Filters       \* the filters there may be: sets of the messages each lets through

ASSUME ParquetAssumption ==
  BufferSize \in Nat \ {0} /\ MaxSent \in Nat /\ Filters \subseteq SUBSET (1 .. MaxSent)

VARIABLES
  filter,       \* Filter
  produced,     \* messages the goroutine of ToAnyChan has received
  bridge,       \* it: "recv" or "send", blocked in output <- val
  rawOpen,      \* Raw is not closed
  stopped,      \* ctx.Done()
  abandonOpen,  \* AbandonedChan is not closed
  writer,       \* Start: "top", "buffer", "write", "abandon", "drain", "flush" or "ended"
  batch,        \* the messages it has in hand
  more,         \* ok of BufferWithTimeout
  final,        \* the batch is the one drained after a cancel
  files,        \* the files, in order
  dropped,      \* messages lost to a failed write (history)
  filtered,     \* messages Filter removed (history)
  abandoned,    \* messages sent to AbandonedChan
  died          \* the process panicked

parquetVars == <<filter, produced, bridge, rawOpen, stopped, abandonOpen, writer, batch, more,
                 final, files, dropped, filtered, abandoned, died>>

feedVars == <<produced, bridge>>
stopVars == <<rawOpen, stopped, abandonOpen>>
fateVars == <<files, dropped, filtered, abandoned>>

ParquetTypeOK ==
  /\ filter \in Filters /\ produced \in 0 .. MaxSent /\ bridge \in {"recv", "send"}
  /\ {rawOpen, stopped, abandonOpen, more, final, died} \subseteq BOOLEAN
  /\ writer \in {"top", "buffer", "write", "abandon", "drain", "flush", "ended"}
  /\ batch \in Seq(1 .. MaxSent) /\ files \in Seq(Seq(1 .. MaxSent))
  /\ dropped \cup filtered \cup abandoned \subseteq 1 .. MaxSent

ParquetInit ==
  /\ filter \in Filters /\ produced = 0 /\ bridge = "recv"
  /\ rawOpen = TRUE /\ stopped = FALSE /\ abandonOpen = TRUE
  /\ writer = "top" /\ batch = <<>> /\ more = TRUE /\ final = FALSE
  /\ files = <<>> /\ dropped = {} /\ filtered = {} /\ abandoned = {} /\ died = FALSE

-----------------------------------------------------------------------------
(* ToAnyChan: for val := range input { output <- val }                     *)

Receive ==
  /\ ~died /\ bridge = "recv" /\ produced < MaxSent
  /\ produced' = produced + 1 /\ bridge' = "send"
  /\ UNCHANGED <<filter, stopVars, writer, batch, more, final, fateVars, died>>

\* The value goes to BufferWithTimeout as long as it has room, or to drainRemaining.
Feed ==
  /\ ~died /\ bridge = "send" /\ rawOpen
  /\ (writer = "buffer" /\ Len(batch) < BufferSize) \/ writer = "drain"
  /\ batch' = Append(batch, produced) /\ bridge' = "recv"
  /\ UNCHANGED <<filter, produced, stopVars, writer, more, final, fateVars, died>>

\* A send that is blocked when the channel closes, or begun afterwards, panics.
FeedPanics ==
  /\ ~died /\ bridge = "send" /\ ~rawOpen /\ died' = TRUE
  /\ UNCHANGED <<filter, feedVars, stopVars, writer, batch, more, final, fateVars>>

-----------------------------------------------------------------------------
(* The stopping handlers, in whatever order: ToAnyChan's, RootCtx's and that of the file *)
(* behind AbandonedChan. *)

CloseRaw ==
  /\ ~died /\ rawOpen /\ rawOpen' = FALSE
  /\ UNCHANGED <<filter, feedVars, stopped, abandonOpen, writer, batch, more, final, fateVars, died>>

CancelWriter ==
  /\ ~died /\ ~stopped /\ stopped' = TRUE
  /\ UNCHANGED <<filter, feedVars, rawOpen, abandonOpen, writer, batch, more, final, fateVars, died>>

CloseAbandoned ==
  /\ ~died /\ abandonOpen /\ abandonOpen' = FALSE
  /\ UNCHANGED <<filter, feedVars, rawOpen, stopped, writer, batch, more, final, fateVars, died>>

-----------------------------------------------------------------------------
(* Start *)

\* The top of the loop, the only place where the context counts.
Top ==
  /\ ~died /\ writer = "top" /\ batch' = <<>>
  /\ writer' = IF stopped THEN "drain" ELSE "buffer"
  /\ UNCHANGED <<filter, feedVars, stopVars, more, final, fateVars, died>>

Filtered(msgs) ==
  LET kept[n \in 0 .. Len(msgs)] ==
        IF n = 0 THEN <<>>
        ELSE IF msgs[n] \in filter THEN Append(kept[n - 1], msgs[n]) ELSE kept[n - 1]
  IN  kept[Len(msgs)]

\* The batch through the filter, on to where it is written, if anything is left.
Collected(ok, where, otherwise) ==
  /\ batch' = Filtered(batch)
  /\ filtered' = filtered \cup (ToSet(batch) \ filter)
  /\ more' = ok
  /\ writer' = IF batch' = <<>> THEN otherwise ELSE where

\* Slip: a batch cut short by the end of the channel is not looked at.
BufferedFullOnly ==
  /\ ~died /\ writer = "buffer"
  /\ \/ Collected(TRUE, "write", "top")
     \/ ~rawOpen /\ batch' = <<>> /\ more' = FALSE /\ writer' = "ended" /\ UNCHANGED filtered
  /\ UNCHANGED <<filter, feedVars, stopVars, final, files, dropped, abandoned, died>>

\* BufferWithTimeout returns: with BufferSize messages or after BufferDur, or because the
\* channel is closed.
Buffered ==
  /\ ~died /\ writer = "buffer"
  /\ \/ Collected(TRUE, "write", "top")
     \/ ~rawOpen /\ Collected(FALSE, "write", "ended")
  /\ UNCHANGED <<filter, feedVars, stopVars, final, files, dropped, abandoned, died>>

\* drainRemaining: nothing for a while, or the channel is closed.
Drained ==
  /\ ~died /\ writer = "drain"
  /\ Collected(more, "write", "ended") /\ final' = TRUE
  /\ UNCHANGED <<filter, feedVars, stopVars, files, dropped, abandoned, died>>

\* After a batch: the batch of a closed channel or of a drain is the final one.
Onward == IF final \/ ~more THEN "ended" ELSE "top"

\* WriteMessages: the file is complete, ...
WriteFile ==
  /\ ~died /\ writer = "write"
  /\ files' = Append(files, batch) /\ batch' = <<>> /\ writer' = Onward
  /\ UNCHANGED <<filter, feedVars, stopVars, more, final, dropped, filtered, abandoned, died>>

\* ... or there is an error, the batch is gone and Start goes on, ...
WriteFails ==
  /\ ~died /\ writer = "write"
  /\ dropped' = dropped \cup ToSet(batch) /\ batch' = <<>>
  /\ writer' = IF final THEN "ended" ELSE "top"
  /\ UNCHANGED <<filter, feedVars, stopVars, more, final, files, filtered, abandoned, died>>

\* ... or the writer panics and the deferred function abandons the batch.
WritePanics ==
  /\ ~died /\ writer = "write" /\ writer' = "abandon"
  /\ UNCHANGED <<filter, feedVars, stopVars, batch, more, final, fateVars, died>>

Abandon ==
  /\ ~died /\ writer = "abandon"
  /\ IF abandonOpen
     THEN /\ abandoned' = abandoned \cup ToSet(batch) /\ batch' = <<>> /\ writer' = Onward
          /\ UNCHANGED died
     ELSE died' = TRUE /\ UNCHANGED <<abandoned, batch, writer>>
  /\ UNCHANGED <<filter, feedVars, stopVars, more, final, files, dropped, filtered>>

WriterNext ==
  Top \/ Buffered \/ Drained \/ WriteFile \/ WriteFails \/ WritePanics \/ Abandon

ParquetNext ==
  \/ Receive \/ Feed \/ FeedPanics
  \/ CloseRaw \/ CancelWriter \/ CloseAbandoned
  \/ WriterNext

ParquetSpec == ParquetInit /\ [][ParquetNext]_parquetVars

-----------------------------------------------------------------------------
(* Properties *)

Stored == UNION {ToSet(file) : file \in ToSet(files)}

InFileOrder ==
  \A a, b \in 1 .. Len(files) : \A i \in 1 .. Len(files[a]), j \in 1 .. Len(files[b]) :
    a < b \/ (a = b /\ i < j) => files[a][i] < files[b][j]

\* The files hold the messages in their order and none twice; and every message the
\* service has taken is in a file, in hand, filtered out, lost with a write that failed or
\* abandoned by one that panicked, in exactly one of these: no cut between batches, by
\* size, by time, by the close or by the cancel, loses or repeats one.
ParquetExact ==
  LET taken == produced - (IF bridge = "send" THEN 1 ELSE 0)
      fates == <<Stored, ToSet(batch), filtered, dropped, abandoned>>
  IN  /\ InFileOrder
      /\ UNION ToSet(fates) = 1 .. taken
      /\ \A i, j \in 1 .. 5 : i # j => fates[i] \cap fates[j] = {}

\* Once the channel is closed or the context cancelled, the service ends, even if
\* every write fails: the cancel is noticed at the latest when a batch is full or its
\* time is over (Start, parquetPoolService.go:412-448).
ParquetEnds == (stopped \/ ~rawOpen) ~> (writer = "ended" \/ died)
=============================================================================
