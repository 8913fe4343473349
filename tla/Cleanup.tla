------------------------------- MODULE Cleanup -------------------------------
(***************************************************************************)
(* CleanupService.Cleanup of pkg/schedule/cleanup.go: for each table of    *)
(* the request, delete the rows soft-deleted before a moment fixed at the  *)
(* start, a batch at a time, until a batch comes back short.  The service  *)
(* goes on using the tables meanwhile.                                     *)
(*                                                                         *)
(* A row is a number; it is live, soft-deleted since ("recent") or before  *)
(* ("old") the moment, or gone.                                            *)
(***************************************************************************)
EXTENDS Naturals, Sequences, FiniteSets

CONSTANTS
  NTables,   \* number of tables in req.Tables
  Rows,      \* row numbers of each table
  Batch      \* req.Batch

ASSUME CleanupAssumption == NTables \in Nat /\ Batch \in Nat \ {0}

VARIABLES
  request,     \* who asks and with what: see Requests
  rows,        \* per table and row: its state
  begun,       \* the rows that were old when the clean-up began, per table (history)
  tableAt,     \* the table the loop is at
  cleanup,     \* "idle", "deleting", "done" or "failed"
  report       \* what the caller is told

cleanupVars == <<request, rows, begun, tableAt, cleanup, report>>

\* The scheduled job or the command; are there settings (and, for the job, a schedule);
\* is the connection registered; does the duration parse.
Requests == [caller : {"job", "command"}, set : BOOLEAN, known : BOOLEAN, parses : BOOLEAN]

RowStates == {"live", "recent", "old", "gone"}

CleanupTypeOK ==
  /\ rows \in [1 .. NTables -> [Rows -> RowStates]]
  /\ tableAt \in 1 .. NTables + 1
  /\ cleanup \in {"idle", "deleting", "done", "failed"}
  /\ request \in Requests /\ report \in {"none", "ok", "error"}

Old(t) == {r \in Rows : rows[t][r] = "old"}

CleanupInit ==
  /\ rows \in [1 .. NTables -> [Rows -> {"live", "recent", "old"}]]
  /\ begun = [t \in 1 .. NTables |-> Old(t)]
  /\ tableAt = 1 /\ cleanup = "idle" /\ report = "none" /\ request \in Requests

\* InitScheduleCleanupJob and DoCleanup: without settings nothing is done, and the
\* command reports no error.
NotConfigured ==
  /\ cleanup = "idle" /\ ~request.set /\ request.caller = "command" /\ report = "none"
  /\ report' = "ok"
  /\ UNCHANGED <<request, rows, begun, tableAt, cleanup>>

CallCleanup ==
  /\ cleanup = "idle" /\ request.set
  /\ cleanup' = IF request.known /\ request.parses THEN "deleting" ELSE "failed"
  /\ UNCHANGED <<request, rows, begun, tableAt, report>>

\* The job drops the error, so to the scheduler a failed clean-up is a success.
Report ==
  /\ cleanup \in {"done", "failed"} /\ report = "none"
  /\ report' = IF cleanup = "failed" /\ request.caller = "command" THEN "error" ELSE "ok"
  /\ UNCHANGED <<request, rows, begun, tableAt, cleanup>>

\* Slip: a batch that comes back full ends the table as well.
DeleteOnce ==
  /\ cleanup = "deleting" /\ tableAt <= NTables
  /\ \E some \in SUBSET Old(tableAt) :
       /\ \/ Cardinality(some) = Batch
          \/ some = Old(tableAt) /\ Cardinality(some) < Batch
       /\ rows' = [rows EXCEPT ![tableAt] = [r \in Rows |-> IF r \in some THEN "gone" ELSE @[r]]]
       /\ tableAt' = tableAt + 1
  /\ UNCHANGED <<request, begun, cleanup, report>>

\* delete ... where deleted_at <= ? limit ?: as many as there are, up to Batch.
DeleteBatch ==
  /\ cleanup = "deleting" /\ tableAt <= NTables
  /\ \E some \in SUBSET Old(tableAt) :
       /\ \/ Cardinality(some) = Batch
          \/ some = Old(tableAt) /\ Cardinality(some) < Batch
       /\ rows' = [rows EXCEPT ![tableAt] = [r \in Rows |-> IF r \in some THEN "gone" ELSE @[r]]]
       /\ tableAt' = IF Cardinality(some) < Batch THEN tableAt + 1 ELSE tableAt
  /\ UNCHANGED <<request, begun, cleanup, report>>

\* An error ends the whole request: what was deleted stays deleted.
DeleteFails ==
  /\ cleanup = "deleting" /\ tableAt <= NTables
  /\ cleanup' = "failed"
  /\ UNCHANGED <<request, rows, begun, tableAt, report>>

CleanupDone ==
  /\ cleanup = "deleting" /\ tableAt = NTables + 1
  /\ cleanup' = "done"
  /\ UNCHANGED <<request, rows, begun, tableAt, report>>

\* The service, meanwhile: rows are soft-deleted now, or restored.
Use(t, r) ==
  /\ cleanup = "deleting"
  /\ \/ rows[t][r] = "live" /\ rows' = [rows EXCEPT ![t][r] = "recent"]
     \/ rows[t][r] \in {"recent", "old"} /\ rows' = [rows EXCEPT ![t][r] = "live"]
  /\ UNCHANGED <<request, begun, tableAt, cleanup, report>>

CleanupNext ==
  \/ NotConfigured \/ CallCleanup \/ DeleteBatch \/ DeleteFails \/ CleanupDone \/ Report
  \/ \E t \in 1 .. NTables, r \in Rows : Use(t, r)

CleanupSpec == CleanupInit /\ [][CleanupNext]_cleanupVars

-----------------------------------------------------------------------------
(* Properties *)

\* Only rows that were old when the clean-up began disappear, and a clean-up that
\* reports success to the command has left none of them behind, whatever the batches were and
\* whatever the service did meanwhile (Cleanup, cleanup.go:66-86; DoCleanup, 134-140).
CleanupExact ==
  /\ \A t \in 1 .. NTables, r \in Rows : rows[t][r] = "gone" => r \in begun[t]
  /\ report = "ok" /\ request.set /\ request.caller = "command" => cleanup = "done"
  /\ cleanup = "done" => \A t \in 1 .. NTables : Old(t) = {}

\* A clean-up ends (with Batch = 0 it would not: cleanup.go:82).
CleanupEnds == cleanup = "deleting" ~> cleanup \in {"done", "failed"}
=============================================================================
