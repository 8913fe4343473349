---------------------------- MODULE ScheduledJob ----------------------------
(***************************************************************************)
(* A scheduled job on every process of the cluster (CreateScheduledJob in  *)
(* pkg/schedule/cron_redis.go) on top of the election that decides who     *)
(* runs it.  The schedule is a cron expression, which fires at the same    *)
(* instant of the clock on every process; each one asks IsLeader() and, if *)
(* it is the leader, goes on to run the function.  The function is not     *)
(* told when leadership ends.                                              *)
(***************************************************************************)
EXTENDS LeaderElection

CONSTANT Period   \* of the job's schedule, in ticks

ASSUME PeriodAssumption == Period \in Nat \ {0}

VARIABLES
  cron,     \* time until the schedule fires
  trigger,  \* per node: wrappedFn has been called and has not asked IsLeader yet
  passed,   \* per node: IsLeader answered true, fn is about to be called
  running,  \* per node: fn is running
  ran       \* the nodes that ran the job for the latest firing (history)

jobVars  == <<cron, trigger, passed, running, ran>>
allVars  == <<vars, jobVars>>

JobTypeOK ==
  /\ TypeOK
  /\ cron \in 1 .. Period
  /\ trigger \in [Nodes -> BOOLEAN]
  /\ passed \in [Nodes -> BOOLEAN]
  /\ running \in [Nodes -> BOOLEAN]
  /\ ran \in SUBSET Nodes

JobInit ==
  /\ Init
  /\ cron = Period
  /\ trigger = [n \in Nodes |-> FALSE]
  /\ passed = [n \in Nodes |-> FALSE]
  /\ running = [n \in Nodes |-> FALSE]
  /\ ran = {}

Pending(n) == trigger[n] \/ passed[n]

-----------------------------------------------------------------------------

\* Time passes once every triggered process has made its check and begun:
\* both are local and immediate at this scale.  The job itself may take for
\* ever.  When the schedule is due, cron calls wrappedFn on every live process.
JobTick ==
  /\ Tick
  /\ \A n \in Nodes : ~Pending(n)
  /\ \/ /\ cron > 1
        /\ cron' = cron - 1
        /\ UNCHANGED <<trigger, ran>>
     \/ /\ cron = 1
        /\ cron' = Period
        /\ trigger' = [n \in Nodes |-> mode[n] # "down"]
        /\ ran' = {}
  /\ UNCHANGED <<passed, running>>

\* Slip: every process goes on.
AskNobody(n) ==
  /\ trigger[n]
  /\ trigger' = [trigger EXCEPT ![n] = FALSE]
  /\ passed' = [passed EXCEPT ![n] = TRUE]
  /\ UNCHANGED <<vars, cron, running, ran>>

\* if !IsLeader() { return }
AskLeader(n) ==
  /\ trigger[n]
  /\ trigger' = [trigger EXCEPT ![n] = FALSE]
  /\ passed' = [passed EXCEPT ![n] = isLeader[n]]
  /\ UNCHANGED <<vars, cron, running, ran>>

\* fn()
BeginJob(n) ==
  /\ passed[n]
  /\ passed' = [passed EXCEPT ![n] = FALSE]
  /\ running' = [running EXCEPT ![n] = TRUE]
  /\ ran' = ran \cup {n}
  /\ UNCHANGED <<vars, cron, trigger>>

EndJob(n) ==
  /\ running[n]
  /\ running' = [running EXCEPT ![n] = FALSE]
  /\ UNCHANGED <<vars, cron, trigger, passed, ran>>

\* The job dies with its process.
JobCrash(n) ==
  /\ Crash(n)
  /\ trigger' = [trigger EXCEPT ![n] = FALSE]
  /\ passed' = [passed EXCEPT ![n] = FALSE]
  /\ running' = [running EXCEPT ![n] = FALSE]
  /\ UNCHANGED <<cron, ran>>

\* Everything else of the election and the command line leaves the job alone.
Elsewhere ==
  /\ \/ \E n \in Nodes : Round(n) \/ RedisError(n) \/ Stop(n) \/ Start(n) \/ Boot(n)
     \/ Pause \/ Resume
  /\ UNCHANGED jobVars

JobNext ==
  \/ JobTick
  \/ Elsewhere
  \/ \E n \in Nodes : AskLeader(n) \/ BeginJob(n) \/ EndJob(n) \/ JobCrash(n)

JobSpec == JobInit /\ [][JobNext]_allVars

-----------------------------------------------------------------------------
(* Properties *)

\* README.md:8, "tasks are executed exactly once across the cluster": one
\* firing of the schedule is never run by two processes.
OncePerFiring == \A m, n \in ran : m = n

\* README.md:12, "Only the elected Leader Pod will trigger and execute the cron
\* tasks": whoever is executing the job is the leader.
OnlyLeaderExecutes == \A n \in Nodes : running[n] => isLeader[n]
=============================================================================
