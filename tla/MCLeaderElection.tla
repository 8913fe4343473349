-------------------------- MODULE MCLeaderElection --------------------------
(***************************************************************************)
(* LeaderElection for TLC.  Faults and the operator's commands are checked *)
(* in two regimes, chosen at the start: redis that fails, processes that   *)
(* crash and are stopped; or an operator who pauses and resumes, and       *)
(* processes that crash.                                                   *)
(***************************************************************************)
EXTENDS LeaderElection

VARIABLE regime

healVars == <<vars, regime>>

HealInit == Init /\ regime \in {"faults", "operator"}

OperatorNext ==
  Tick \/ Pause \/ Resume \/ \E n \in Nodes : Round(n) \/ Crash(n) \/ Boot(n)

FaultsNext == Tick \/ \E n \in Nodes : NodeNext(n)

HealNext ==
  /\ UNCHANGED regime
  /\ \/ regime = "faults" /\ FaultsNext
     \/ regime = "operator" /\ OperatorNext

HealFairness ==
  /\ WF_healVars(Tick /\ UNCHANGED regime)
  /\ \A n \in Nodes :
       /\ WF_healVars(Round(n) /\ UNCHANGED regime)
       /\ WF_healVars(Cancelled(n) /\ UNCHANGED regime)

HealSpec == HealInit /\ [][HealNext]_healVars /\ HealFairness
=============================================================================
