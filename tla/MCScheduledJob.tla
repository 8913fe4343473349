--------------------------- MODULE MCScheduledJob ---------------------------
(***************************************************************************)
(* ScheduledJob for TLC.  The processes are interchangeable.               *)
(***************************************************************************)
EXTENDS ScheduledJob, TLC

NodeSymmetry == Permutations(Nodes)
=============================================================================
