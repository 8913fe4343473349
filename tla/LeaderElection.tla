--------------------------- MODULE LeaderElection ---------------------------
(***************************************************************************)
(* The lease-based leader election of pkg/schedule/leader.go, with the     *)
(* redis key it competes for and the CLI that takes the key over to pause  *)
(* the schedule (cmd/schedule_pause.go).                                   *)
(*                                                                         *)
(* Every process runs one goroutine that, each time its ticker fires, runs *)
(* a round (elect): SETNX, then GET, then EXPIRE, each a separate command  *)
(* on a key other processes and the CLI use too.  A round is therefore     *)
(* several steps here, and anything may happen between two of them.        *)
(*                                                                         *)
(* Time is discrete.  A Tick ages the key and every ticker by one unit.    *)
(* A round may last at most MaxDelay units from the moment its ticker      *)
(* fired; MaxDelay = Interval lets it last for ever.                       *)
(***************************************************************************)
EXTENDS Naturals, FiniteSets

CONSTANTS
  Nodes,       \* the processes that compete
  NoKey,       \* the value of an absent key
  Gone,        \* the leaderID of a process that no longer exists
  Cli,         \* the value schedule-pause writes
  Interval,    \* LeaderElectionConfig.Interval
  TTL,         \* LeaderElectionConfig.TTL
  MaxDelay,    \* how long a round may last after its ticker fired
  PauseLen,    \* the minutes given to schedule-pause, in ticks
  Faults       \* what the environment may do: see FaultKinds

FaultKinds == {"redis", "crash", "stop", "cli"}

ASSUME NamesAssumption ==
  /\ NoKey \notin Nodes /\ Gone \notin Nodes /\ Cli \notin Nodes
  /\ NoKey # Gone /\ NoKey # Cli /\ Gone # Cli
ASSUME TimeAssumption ==
  /\ Interval \in Nat \ {0} /\ TTL \in Nat \ {0} /\ PauseLen \in Nat \ {0}
  /\ MaxDelay \in 0 .. Interval
ASSUME FaultsAssumption == Faults \subseteq FaultKinds

VARIABLES
  holder,      \* the value of the key in redis
  lease,       \* the time the key has left to live
  mode,        \* per node: is the process up, and its election goroutine alive
  isLeader,    \* per node: LeaderElection.isLeader
  pc,          \* per node: where its round is
  timer,       \* per node: time until its ticker fires
  due,         \* per node: a tick is buffered in ticker.C
  pause        \* what is left of the pause the operator asked for (history)

keyVars  == <<holder, lease>>
nodeVars == <<mode, isLeader, pc, timer, due>>
vars     == <<holder, lease, mode, isLeader, pc, timer, due, pause>>

\* down: no process.  stopped: Stop was called and the goroutine has ended.
Mode == {"down", "running", "stopped"}

\* wait: in select.  get: SETNX refused.  expire: GET returned our own ID.
\* lose: GET returned another value.  win: about to store isLeader = 1.
Step == {"wait", "get", "expire", "lose", "win"}

Holders == Nodes \cup {NoKey, Gone, Cli}
Longest == IF TTL > PauseLen THEN TTL ELSE PauseLen

TypeOK ==
  /\ holder \in Holders
  /\ lease \in 0 .. Longest
  /\ mode \in [Nodes -> Mode]
  /\ isLeader \in [Nodes -> BOOLEAN]
  /\ pc \in [Nodes -> Step]
  /\ timer \in [Nodes -> 1 .. Interval]
  /\ due \in [Nodes -> BOOLEAN]
  /\ pause \in 0 .. PauseLen

Init ==
  /\ holder = NoKey
  /\ lease = 0
  /\ mode = [n \in Nodes |-> "running"]
  /\ isLeader = [n \in Nodes |-> FALSE]
  /\ pc = [n \in Nodes |-> "wait"]
  /\ timer = [n \in Nodes |-> Interval]
  /\ due = [n \in Nodes |-> FALSE]
  /\ pause = 0

-----------------------------------------------------------------------------
(* Time *)

Busy(n) == due[n] \/ pc[n] # "wait"

\* How long ago the ticker of n last fired.
Age(n) == Interval - timer[n]

\* time.NewTicker: fires every Interval; a tick nobody has read yet stays in
\* the one-place channel and further ticks are dropped.
AdvanceTickers ==
  LET ticking(n) == mode[n] = "running" \/ Busy(n)
      fires(n)   == ticking(n) /\ timer[n] = 1
  IN /\ timer' = [n \in Nodes |-> IF fires(n) THEN Interval
                                  ELSE IF ticking(n) THEN timer[n] - 1
                                  ELSE timer[n]]
     /\ due' = [n \in Nodes |-> due[n] \/ (fires(n) /\ mode[n] = "running")]

\* redis removes a key whose time to live has run out.
AgeKey ==
  /\ lease' = IF lease = 0 THEN 0 ELSE lease - 1
  /\ holder' = IF lease <= 1 THEN NoKey ELSE holder

Tick ==
  /\ \A n \in Nodes : Busy(n) => Age(n) < MaxDelay
  /\ AgeKey
  /\ AdvanceTickers
  /\ pause' = IF pause = 0 THEN 0 ELSE pause - 1
  /\ UNCHANGED <<mode, isLeader, pc>>

-----------------------------------------------------------------------------
(* A round of elect *)

Goto(n, step) == pc' = [pc EXCEPT ![n] = step]

\* Slip: a refused SETNX extends the lease it found.
SetNXExtends(n) ==
  /\ mode[n] = "running" /\ pc[n] = "wait" /\ due[n]
  /\ due' = [due EXCEPT ![n] = FALSE]
  /\ lease' = TTL
  /\ IF holder = NoKey THEN holder' = n /\ Goto(n, "win")
                       ELSE Goto(n, "get") /\ UNCHANGED holder
  /\ UNCHANGED <<mode, isLeader, timer, pause>>

\* The select takes the buffered tick and elect sends SETNX key id TTL.
SetNX(n) ==
  /\ mode[n] = "running" /\ pc[n] = "wait" /\ due[n]
  /\ due' = [due EXCEPT ![n] = FALSE]
  /\ IF holder = NoKey
     THEN holder' = n /\ lease' = TTL /\ Goto(n, "win")
     ELSE Goto(n, "get") /\ UNCHANGED keyVars
  /\ UNCHANGED <<mode, isLeader, timer, pause>>

\* Slip: redis.Nil is taken for our own ID.
GetKeyLenient(n) ==
  /\ mode[n] = "running" /\ pc[n] = "get"
  /\ Goto(n, IF holder \in {n, NoKey} THEN "expire" ELSE "lose")
  /\ UNCHANGED <<holder, lease, mode, isLeader, timer, due, pause>>

\* Slip: any value counts as our own ID.
GetKeyUnread(n) ==
  /\ mode[n] = "running" /\ pc[n] = "get"
  /\ Goto(n, IF holder = NoKey THEN "wait" ELSE "expire")
  /\ UNCHANGED <<holder, lease, mode, isLeader, timer, due, pause>>

\* GET; a key that has expired since is an error (redis.Nil) and ends the round.
GetKey(n) ==
  /\ mode[n] = "running" /\ pc[n] = "get"
  /\ \/ holder = NoKey /\ Goto(n, "wait")
     \/ holder = n /\ Goto(n, "expire")
     \/ holder \notin {NoKey, n} /\ Goto(n, "lose")
  /\ UNCHANGED <<holder, lease, mode, isLeader, timer, due, pause>>

\* Slip: the leader does not extend its lease.
RenewNothing(n) ==
  /\ mode[n] = "running" /\ pc[n] = "expire"
  /\ Goto(n, "win")
  /\ UNCHANGED <<holder, lease, mode, isLeader, timer, due, pause>>

\* EXPIRE key TTL: of whatever the key holds by now.
Renew(n) ==
  /\ mode[n] = "running" /\ pc[n] = "expire"
  /\ lease' = IF holder = NoKey THEN 0 ELSE TTL
  /\ Goto(n, "win")
  /\ UNCHANGED <<holder, mode, isLeader, timer, due, pause>>

\* atomic.CompareAndSwapInt32(&le.isLeader, 0, 1)
BecomeLeader(n) ==
  /\ pc[n] = "win"
  /\ isLeader' = [isLeader EXCEPT ![n] = TRUE]
  /\ Goto(n, "wait")
  /\ UNCHANGED <<holder, lease, mode, timer, due, pause>>

\* Slip: isLeader is not cleared.
StepDownNever(n) ==
  /\ pc[n] = "lose"
  /\ Goto(n, "wait")
  /\ UNCHANGED <<holder, lease, mode, isLeader, timer, due, pause>>

\* atomic.CompareAndSwapInt32(&le.isLeader, 1, 0)
StepDown(n) ==
  /\ pc[n] = "lose"
  /\ isLeader' = [isLeader EXCEPT ![n] = FALSE]
  /\ Goto(n, "wait")
  /\ UNCHANGED <<holder, lease, mode, timer, due, pause>>

Round(n) == SetNX(n) \/ GetKey(n) \/ Renew(n) \/ BecomeLeader(n) \/ StepDown(n)

-----------------------------------------------------------------------------
(* Failures of a redis command.  A failed command may or may not have been *)
(* executed; the caller sees an error, or a cancelled context after Stop.  *)
(* A failure that changes what a success would have changed is no failure  *)
(* of its own.                                                             *)

CanFail(n) == "redis" \in Faults \/ mode[n] = "stopped"

\* SETNX fails: elect returns and isLeader keeps its value.
SetNXError(n) ==
  /\ "redis" \in Faults
  /\ mode[n] = "running" /\ pc[n] = "wait" /\ due[n]
  /\ due' = [due EXCEPT ![n] = FALSE]
  /\ \/ UNCHANGED keyVars
     \/ holder = NoKey /\ holder' = n /\ lease' = TTL
  /\ UNCHANGED <<mode, isLeader, pc, timer, pause>>

\* GET fails: elect returns and isLeader keeps its value.
GetError(n) ==
  /\ CanFail(n) /\ pc[n] = "get"
  /\ mode[n] = "running" => holder # NoKey
  /\ Goto(n, "wait")
  /\ UNCHANGED <<holder, lease, mode, isLeader, timer, due, pause>>

\* The error of EXPIRE is dropped: the round goes on to store isLeader = 1.
RenewError(n) ==
  /\ CanFail(n) /\ pc[n] = "expire"
  /\ mode[n] = "running" => holder # NoKey /\ lease # TTL
  /\ Goto(n, "win")
  /\ UNCHANGED <<holder, lease, mode, isLeader, timer, due, pause>>

RedisError(n) == SetNXError(n) \/ GetError(n) \/ RenewError(n)

-----------------------------------------------------------------------------
(* Life of a process *)

\* Stop cancels the context: the goroutine ends after the round in progress,
\* the key is not released and isLeader is not cleared.
Stop(n) ==
  /\ "stop" \in Faults
  /\ mode[n] = "running"
  /\ mode' = [mode EXCEPT ![n] = "stopped"]
  /\ due' = [due EXCEPT ![n] = FALSE]
  /\ UNCHANGED <<holder, lease, isLeader, pc, timer, pause>>

\* Start after Stop: a new goroutine and a new ticker, the same leaderID.
Start(n) ==
  /\ mode[n] = "stopped" /\ pc[n] = "wait"
  /\ mode' = [mode EXCEPT ![n] = "running"]
  /\ timer' = [timer EXCEPT ![n] = Interval]
  /\ UNCHANGED <<holder, lease, isLeader, pc, due, pause>>

Crash(n) ==
  /\ "crash" \in Faults
  /\ mode[n] # "down"
  /\ mode' = [mode EXCEPT ![n] = "down"]
  /\ isLeader' = [isLeader EXCEPT ![n] = FALSE]
  /\ Goto(n, "wait")
  /\ timer' = [timer EXCEPT ![n] = Interval]
  /\ due' = [due EXCEPT ![n] = FALSE]
  /\ holder' = IF holder = n THEN Gone ELSE holder
  /\ UNCHANGED <<lease, pause>>

\* A new process: NewLeaderElection makes a leaderID nobody had before.
Boot(n) ==
  /\ mode[n] = "down"
  /\ mode' = [mode EXCEPT ![n] = "running"]
  /\ UNCHANGED <<holder, lease, isLeader, pc, timer, due, pause>>

-----------------------------------------------------------------------------
(* The command line *)

\* schedule-pause: SET key paused-by-cli minutes, whoever holds the key.
Pause ==
  /\ "cli" \in Faults
  /\ holder' = Cli
  /\ lease' = PauseLen
  /\ pause' = PauseLen
  /\ UNCHANGED nodeVars

\* schedule-resume: DEL key, whatever it holds.
Resume ==
  /\ "cli" \in Faults
  /\ holder' = NoKey
  /\ lease' = 0
  /\ pause' = 0
  /\ UNCHANGED nodeVars

-----------------------------------------------------------------------------

NodeNext(n) ==
  Round(n) \/ RedisError(n) \/ Stop(n) \/ Start(n) \/ Crash(n) \/ Boot(n)

Next == Tick \/ (\E n \in Nodes : NodeNext(n)) \/ Pause \/ Resume

Spec == Init /\ [][Next]_vars

\* After Stop the context is cancelled: the round in progress ends with an error.
Cancelled(n) == mode[n] = "stopped" /\ (GetError(n) \/ RenewError(n))

\* Time passes, and a goroutine that can run runs.  No failure is ever owed.
Fairness ==
  /\ WF_vars(Tick)
  /\ \A n \in Nodes : WF_vars(Round(n)) /\ WF_vars(Cancelled(n))

FairSpec == Spec /\ Fairness

-----------------------------------------------------------------------------
(* Properties *)

\* README.md:8, "restricting execution to a single Leader Pod": no two
\* processes answer true to IsLeader() at the same time.
AtMostOneLeader ==
  \A m, n \in Nodes : isLeader[m] /\ isLeader[n] => m = n

\* A process that believes it leads holds the key, so nobody can win the next
\* SETNX before it has had the chance to renew (elect, leader.go:99-134).
LeaderHoldsKey ==
  \A n \in Nodes : isLeader[n] => holder = n /\ lease > 0

\* While the CLI holds the key a process goes on believing it leads for one
\* interval and one round at most (StepDown is the only way out).
PauseStopsLeader ==
  \A n \in Nodes :
    isLeader[n] /\ mode[n] = "running" /\ pause > 0 /\ holder = Cli
      => PauseLen - pause <= Interval + MaxDelay

\* The lease of a live holder is never extended by another process: EXPIRE
\* follows a GET that may be out of date (leader.go:116-124).
RenewsOwnKeyOnly ==
  [][\A n \in Nodes : Renew(n) => holder \in {n, NoKey}]_vars

FaultStep ==
  Pause \/ Resume
    \/ \E n \in Nodes : RedisError(n) \/ Stop(n) \/ Crash(n) \/ Boot(n)

\* Failover (README.md:13): once failures stop, and if some process is up, a live
\* leader is there again and again.
Failover ==
  <>[][~FaultStep]_vars /\ <>[](\E n \in Nodes : mode[n] = "running")
    => []<>(\E n \in Nodes : isLeader[n] /\ mode[n] = "running")

\* Once failures stop, two processes that both believe they lead do not both
\* believe so for ever, unless one of them was stopped and never started again.
SplitBrainHeals ==
  <>[][~FaultStep]_vars /\ <>[](\A n \in Nodes : mode[n] # "stopped")
    => <>[]AtMostOneLeader
=============================================================================
