------------------------- MODULE ScheduledJob_proofs -------------------------
(***************************************************************************)
(* The job on top of the election: in the regime in which the election     *)
(* keeps a single leader, no firing is run twice and nobody but the leader *)
(* is ever executing the job.                                              *)
(***************************************************************************)
EXTENDS ScheduledJob, LeaderElection_proofs

\* A process past its check is the leader, and stays it.
PassedLeads == \A n \in Nodes : passed[n] \/ running[n] => isLeader[n]

\* As long as some process has yet to check, the key of whoever has already
\* run the job for this firing has not changed hands.
RunnerKeepsKey ==
  (\E m \in Nodes : Pending(m)) =>
    \A r \in ran : holder \in {r, Gone} /\ lease > 0

JobInv ==
  /\ JobTypeOK
  /\ IInv
  /\ PassedLeads
  /\ RunnerKeepsKey
  /\ OncePerFiring

-----------------------------------------------------------------------------

\* The composition takes the steps of the election or leaves it alone.
LEMMA JobStepIsElectionStep == [JobNext]_allVars => [Next]_vars
<1> SUFFICES ASSUME [JobNext]_allVars PROVE [Next]_vars
  OBVIOUS
<1>1. CASE JobTick  BY <1>1 DEF JobTick, Next
<1>2. CASE Elsewhere  BY <1>2 DEF Elsewhere, Next, NodeNext
<1>3. ASSUME NEW n \in Nodes,
             AskLeader(n) \/ BeginJob(n) \/ EndJob(n) \/ JobCrash(n)
      PROVE  [Next]_vars
  BY <1>3 DEF AskLeader, BeginJob, EndJob, JobCrash, Next, NodeNext
<1>4. CASE UNCHANGED allVars  BY <1>4 DEF allVars
<1> QED BY <1>1, <1>2, <1>3, <1>4 DEF JobNext

\* ScheduledJob is LeaderElection with a job beside it.
THEOREM JobImplementsElection == JobSpec => Spec
<1>1. JobInit => Init  BY DEF JobInit
<1> QED BY <1>1, JobStepIsElectionStep, PTL DEF JobSpec, Spec

\* While a process has still to check, an election step of a live process does
\* not take the key from its holder: it is there, and only its owner touches it.
LEMMA KeyStays ==
  ASSUME LeaseRegime, IInv, Elsewhere, lease > 0
  PROVE  holder' = holder /\ lease' > 0 /\ \A n \in Nodes : isLeader[n] => isLeader'[n]
<1> USE TimeAssumption, NamesAssumption DEF LeaseRegime, TypeOK, Holders, Goto,
        keyVars
<1>1. holder # NoKey
  BY DEF IInv, KeyLives
<1>2. ASSUME NEW n \in Nodes, Round(n) PROVE
        holder' = holder /\ lease' > 0 /\ \A m \in Nodes : isLeader[m] => isLeader'[m]
  <2>1. CASE SetNX(n)  BY <1>1, <2>1 DEF SetNX
  <2>2. CASE GetKey(n)  BY <2>2 DEF GetKey
  <2>3. CASE Renew(n)  BY <1>1, <2>3 DEF Renew
  <2>4. CASE BecomeLeader(n)  BY <2>4 DEF BecomeLeader, IInv
  <2>5. CASE StepDown(n)  BY <2>5 DEF StepDown, IInv, RoundsSeeTruth
  <2> QED BY <1>2, <2>1, <2>2, <2>3, <2>4, <2>5 DEF Round
<1>3. ASSUME NEW n \in Nodes, Boot(n) PROVE
        holder' = holder /\ lease' > 0 /\ \A m \in Nodes : isLeader[m] => isLeader'[m]
  BY <1>3 DEF Boot
<1>4. ASSUME NEW n \in Nodes PROVE ~RedisError(n) /\ ~Stop(n) /\ ~Start(n)
  BY DEF RedisError, SetNXError, GetError, RenewError, CanFail, Stop, Start, IInv, Alive
<1>5. ~Pause /\ ~Resume
  BY DEF Pause, Resume
<1> QED BY <1>2, <1>3, <1>4, <1>5 DEF Elsewhere

\* A leader that takes an election step keeps its claim, key or not.
LEMMA LeadersStay ==
  ASSUME LeaseRegime, IInv, Elsewhere, NEW n \in Nodes, isLeader[n]
  PROVE  isLeader'[n]
<1>1. lease > 0
  BY NamesAssumption, TimeAssumption DEF IInv, TypeOK, KeyLives, ClaimsLast, Claim
<1> QED BY <1>1, KeyStays

\* The types of the composition's own variables.
LEMMA JobTypeStep == JobTypeOK /\ [JobNext]_allVars => JobTypeOK'
<1> SUFFICES ASSUME JobTypeOK, [JobNext]_allVars PROVE JobTypeOK'
  OBVIOUS
<1>1. TypeOK'
  BY TypeStep, JobStepIsElectionStep DEF JobTypeOK
<1> USE PeriodAssumption DEF JobTypeOK, jobVars
<1>2. CASE JobTick
  <2>1. cron' \in 1 .. Period
    BY <1>2 DEF JobTick
  <2>2. /\ trigger' \in [Nodes -> BOOLEAN]
        /\ ran' \in SUBSET Nodes
    BY <1>2 DEF JobTick
  <2> QED BY <1>1, <1>2, <2>1, <2>2 DEF JobTick
<1>3. CASE Elsewhere  BY <1>1, <1>3 DEF Elsewhere
<1>4. ASSUME NEW n \in Nodes,
             AskLeader(n) \/ BeginJob(n) \/ EndJob(n) \/ JobCrash(n)
      PROVE  JobTypeOK'
  <2>1. CASE AskLeader(n)  BY <1>1, <2>1 DEF AskLeader, TypeOK
  <2>2. CASE BeginJob(n)   BY <1>1, <2>2 DEF BeginJob
  <2>3. CASE EndJob(n)     BY <1>1, <2>3 DEF EndJob
  <2>4. CASE JobCrash(n)   BY <1>1, <2>4 DEF JobCrash
  <2> QED BY <1>4, <2>1, <2>2, <2>3, <2>4
<1>5. CASE UNCHANGED allVars  BY <1>5, <1>1 DEF allVars
<1> QED BY <1>2, <1>3, <1>4, <1>5 DEF JobNext

\* The election and the job beside it keep their types, under every fault.
THEOREM JobTypeCorrect == JobSpec => []JobTypeOK
<1>1. JobInit => JobTypeOK
  <2>1. Init => TypeOK
    BY NamesAssumption, TimeAssumption
       DEF Init, TypeOK, Holders, Longest, Mode, Step
  <2> QED BY <2>1, PeriodAssumption DEF JobInit, JobTypeOK
<1>2. JobTypeOK /\ [JobNext]_allVars => JobTypeOK'  BY JobTypeStep
<1> QED BY <1>1, <1>2, PTL DEF JobSpec

\* Every step of the composition preserves its invariant.
LEMMA JobInvStep ==
  ASSUME LeaseRegime
  PROVE  JobInv /\ [JobNext]_allVars => JobInv'
<1> SUFFICES ASSUME JobInv, [JobNext]_allVars PROVE JobInv'
  OBVIOUS
<1>1. JobTypeOK'
  BY JobTypeStep DEF JobInv
<1>2. IInv'
  BY InvStep, JobStepIsElectionStep DEF JobInv
<1>3. \A n \in Nodes : isLeader[n] => holder = n /\ lease > 0
  BY NamesAssumption, TimeAssumption
     DEF JobInv, IInv, TypeOK, KeyLives, ClaimsLast, Claim
<1>4. CASE JobTick
  <2>1. PassedLeads'
    BY <1>4 DEF JobInv, PassedLeads, JobTick, Tick
  <2>2. RunnerKeepsKey' /\ OncePerFiring'
    BY <1>4 DEF JobInv, JobTick, RunnerKeepsKey, OncePerFiring, Pending
  <2> QED BY <1>1, <1>2, <2>1, <2>2 DEF JobInv
<1>5. CASE Elsewhere
  <2>1. UNCHANGED jobVars
    BY <1>5 DEF Elsewhere
  <2>2. PassedLeads'
    BY <1>5, <2>1, LeadersStay DEF JobInv, PassedLeads, jobVars
  <2>3. RunnerKeepsKey'
    BY <1>5, <2>1, KeyStays DEF JobInv, RunnerKeepsKey, Pending, jobVars
  <2>4. OncePerFiring'
    BY <2>1 DEF JobInv, OncePerFiring, jobVars
  <2> QED BY <1>1, <1>2, <2>2, <2>3, <2>4 DEF JobInv
<1>6. ASSUME NEW n \in Nodes, AskLeader(n) PROVE JobInv'
  <2>1. PassedLeads'
    BY <1>6 DEF AskLeader, JobInv, PassedLeads, JobTypeOK, vars
  <2>2. RunnerKeepsKey' /\ OncePerFiring'
    BY <1>6 DEF AskLeader, JobInv, RunnerKeepsKey, OncePerFiring, Pending,
                JobTypeOK, vars
  <2> QED BY <1>1, <1>2, <2>1, <2>2 DEF JobInv
<1>7. ASSUME NEW n \in Nodes, BeginJob(n) PROVE JobInv'
  <2>1. holder = n /\ lease > 0 /\ Pending(n)
    BY <1>3, <1>7 DEF BeginJob, JobInv, PassedLeads, Pending
  <2>2. \A r \in ran : r = n
    BY <2>1, NamesAssumption DEF JobInv, RunnerKeepsKey
  <2>3. PassedLeads'
    BY <1>7 DEF BeginJob, JobInv, PassedLeads, JobTypeOK, vars
  <2>4. RunnerKeepsKey'
    BY <1>7, <2>1, <2>2 DEF BeginJob, RunnerKeepsKey, vars
  <2>5. OncePerFiring'
    BY <1>7, <2>2 DEF BeginJob, OncePerFiring
  <2> QED BY <1>1, <1>2, <2>3, <2>4, <2>5 DEF JobInv
<1>8. ASSUME NEW n \in Nodes, EndJob(n) PROVE JobInv'
  <2>1. PassedLeads'
    BY <1>8 DEF EndJob, JobInv, PassedLeads, JobTypeOK, vars
  <2>2. RunnerKeepsKey' /\ OncePerFiring'
    BY <1>8 DEF EndJob, JobInv, RunnerKeepsKey, OncePerFiring, Pending, vars
  <2> QED BY <1>1, <1>2, <2>1, <2>2 DEF JobInv
<1>9. ASSUME NEW n \in Nodes, JobCrash(n) PROVE JobInv'
  <2>1. PassedLeads'
    BY <1>9 DEF JobCrash, Crash, JobInv, PassedLeads, JobTypeOK, TypeOK
  <2>2. RunnerKeepsKey'
    <3>1. \A m \in Nodes : Pending(m)' => Pending(m)
      BY <1>9 DEF JobCrash, JobInv, JobTypeOK, Pending
    <3>2. holder' \in {holder, Gone} /\ lease' = lease /\ ran' = ran
      BY <1>9 DEF JobCrash, Crash
    <3> QED BY <3>1, <3>2 DEF JobInv, RunnerKeepsKey
  <2>3. OncePerFiring'
    BY <1>9 DEF JobCrash, JobInv, OncePerFiring
  <2> QED BY <1>1, <1>2, <2>1, <2>2, <2>3 DEF JobInv
<1>10. CASE UNCHANGED allVars
  <2>1. PassedLeads' /\ RunnerKeepsKey' /\ OncePerFiring'
    BY <1>10 DEF allVars, jobVars, vars, JobInv, PassedLeads, RunnerKeepsKey,
                 OncePerFiring, Pending
  <2> QED BY <1>1, <1>2, <2>1 DEF JobInv
<1> QED BY <1>4, <1>5, <1>6, <1>7, <1>8, <1>9, <1>10 DEF JobNext

\* The invariant of the composition holds throughout.
LEMMA JobInvariance ==
  ASSUME LeaseRegime
  PROVE  JobSpec => []JobInv
<1>1. JobInit => JobInv
  <2> SUFFICES ASSUME JobInit PROVE JobInv
    OBVIOUS
  <2>1. IInv
    BY InvInit DEF JobInit
  <2>2. JobTypeOK
    BY <2>1, PeriodAssumption DEF JobInit, JobTypeOK, IInv
  <2> QED
    BY <2>1, <2>2 DEF JobInit, JobInv, PassedLeads, RunnerKeepsKey,
                      OncePerFiring, Pending
<1>2. JobInv /\ [JobNext]_allVars => JobInv'  BY JobInvStep
<1> QED BY <1>1, <1>2, PTL DEF JobSpec

\* README.md:8, "exactly once", its at-most-once half: no firing of the schedule
\* is run by two processes, for every cluster size, period, interval and ttl
\* with interval + delay < ttl, as long as redis answers.
THEOREM AtMostOncePerFiring ==
  ASSUME LeaseRegime
  PROVE  JobSpec => []OncePerFiring
<1>1. JobInv => OncePerFiring  BY DEF JobInv
<1> QED BY <1>1, JobInvariance, PTL

\* README.md:12: whoever executes the job is the leader, however long it takes.
THEOREM LeaderOnly ==
  ASSUME LeaseRegime
  PROVE  JobSpec => []OnlyLeaderExecutes
<1>1. JobInv => OnlyLeaderExecutes  BY DEF JobInv, PassedLeads, OnlyLeaderExecutes
<1> QED BY <1>1, JobInvariance, PTL
=============================================================================
