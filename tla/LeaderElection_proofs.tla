------------------------ MODULE LeaderElection_proofs ------------------------
(***************************************************************************)
(* What leader.go guarantees as long as redis answers, for every number of *)
(* processes and every configuration: crashes and restarts included, if    *)
(* interval + delay of a round < ttl, then two processes never lead at     *)
(* once.                                                                   *)
(***************************************************************************)
EXTENDS LeaderElection, TLAPS

\* Redis answers, nobody stops the election or touches the key, and the lease
\* outlives one interval and the longest round.
LeaseRegime ==
  /\ Faults \subseteq {"crash"}
  /\ MaxDelay < Interval
  /\ Interval + MaxDelay < TTL

\* A process that believes it leads, or is about to.
Claim(n) == isLeader[n] \/ pc[n] = "win"

\* The claim of n has not been renewed since its ticker last fired.
Owes(n) == due[n] \/ pc[n] \in {"get", "expire"}

KeyLives == (holder = NoKey) <=> (lease = 0)

Alive ==
  \A n \in Nodes :
    /\ mode[n] # "stopped"
    /\ mode[n] = "down" => ~Claim(n) /\ ~Busy(n)

\* A round ends before the next one is due.
Prompt ==
  \A n \in Nodes :
    /\ Busy(n) => Age(n) <= MaxDelay
    /\ due[n] => pc[n] = "wait"

\* What GET has shown still holds when elect acts on it.
RoundsSeeTruth ==
  \A n \in Nodes :
    /\ pc[n] = "expire" => isLeader[n]
    /\ pc[n] = "lose" => ~isLeader[n]

\* The lease of a claim outlasts what is left of the interval, then of the round.
ClaimsLast ==
  \A n \in Nodes : Claim(n) =>
    /\ holder = n
    /\ Owes(n) => lease + Interval > MaxDelay + timer[n]
    /\ ~Owes(n) => lease > MaxDelay + timer[n]

OwnerClaims == holder \in Nodes => Claim(holder)

IInv ==
  /\ TypeOK
  /\ KeyLives
  /\ Alive
  /\ Prompt
  /\ RoundsSeeTruth
  /\ ClaimsLast
  /\ OwnerClaims

-----------------------------------------------------------------------------

\* The invariant holds at the start.
LEMMA InvInit ==
  ASSUME LeaseRegime
  PROVE  Init => IInv
<1> SUFFICES ASSUME Init PROVE IInv
  OBVIOUS
<1>1. TypeOK
  BY NamesAssumption, TimeAssumption
     DEF Init, TypeOK, Holders, Longest, Mode, Step
<1> QED
  BY <1>1, NamesAssumption, TimeAssumption
     DEF Init, IInv, KeyLives, Alive, Prompt, RoundsSeeTruth, ClaimsLast,
         OwnerClaims, Claim, Busy, Age

\* TypeOK is preserved by every step: the fact the step lemmas below start from.
LEMMA TypeStep == TypeOK /\ [Next]_vars => TypeOK'
<1> SUFFICES ASSUME TypeOK, [Next]_vars PROVE TypeOK'
  OBVIOUS
<1> USE TimeAssumption DEF TypeOK, Holders, Longest, Mode, Step, Goto,
                           keyVars, nodeVars
<1>1. CASE Tick
  <2>1. holder' \in Holders /\ lease' \in 0 .. Longest
    BY <1>1 DEF Tick, AgeKey
  <2>2. timer' \in [Nodes -> 1 .. Interval] /\ due' \in [Nodes -> BOOLEAN]
    BY <1>1 DEF Tick, AdvanceTickers, Busy
  <2>3. pause' \in 0 .. PauseLen
    BY <1>1 DEF Tick
  <2> QED BY <1>1, <2>1, <2>2, <2>3 DEF Tick
<1>2. ASSUME NEW n \in Nodes, NodeNext(n) PROVE TypeOK'
  <2>1. CASE SetNX(n)        BY <2>1 DEF SetNX
  <2>2. CASE GetKey(n)       BY <2>2 DEF GetKey
  <2>3. CASE Renew(n)        BY <2>3 DEF Renew
  <2>4. CASE BecomeLeader(n) BY <2>4 DEF BecomeLeader
  <2>5. CASE StepDown(n)     BY <2>5 DEF StepDown
  <2>6. CASE SetNXError(n)   BY <2>6 DEF SetNXError
  <2>7. CASE GetError(n)     BY <2>7 DEF GetError
  <2>8. CASE RenewError(n)   BY <2>8 DEF RenewError
  <2>9. CASE Stop(n)         BY <2>9 DEF Stop
  <2>10. CASE Start(n)       BY <2>10 DEF Start
  <2>11. CASE Crash(n)       BY <2>11 DEF Crash
  <2>12. CASE Boot(n)        BY <2>12 DEF Boot
  <2> QED
    BY <1>2, <2>1, <2>2, <2>3, <2>4, <2>5, <2>6, <2>7, <2>8, <2>9, <2>10,
       <2>11, <2>12 DEF NodeNext, Round, RedisError
<1>3. CASE Pause   BY <1>3 DEF Pause
<1>4. CASE Resume  BY <1>4 DEF Resume
<1>5. CASE UNCHANGED vars BY <1>5 DEF vars
<1> QED BY <1>1, <1>2, <1>3, <1>4, <1>5 DEF Next

\* What a tick does to one process: its ticker fires, if no round is in progress, or
\* moves on, or belongs to a process that is not there.
TickerMoves(n) ==
  \/ /\ mode[n] = "running" /\ timer[n] = 1 /\ ~Busy(n)
     /\ timer'[n] = Interval /\ due'[n]
  \/ /\ mode[n] = "running" /\ timer[n] > 1
     /\ timer'[n] = timer[n] - 1 /\ due'[n] = due[n]
  \/ /\ mode[n] = "down" /\ timer'[n] = timer[n]
     /\ due'[n] = due[n] /\ ~Busy(n)

\* Nothing is due twice: a round that is late holds the clock back.
LEMMA TickerStep ==
  ASSUME MaxDelay < Interval, TypeOK, Alive, Tick, NEW n \in Nodes
  PROVE  TickerMoves(n)
<1> USE TimeAssumption DEF TypeOK, Mode, Step
<1>1. Busy(n) => timer[n] > 1
  BY DEF Tick, Age
<1>2. mode[n] = "down" => ~Busy(n)
  BY DEF Alive
<1>3. mode[n] \in {"running", "down"}
  BY DEF Alive
<1>4. CASE mode[n] = "running"
  <2>1. timer[n] \in 1 .. Interval /\ mode[n] # "down"
    BY <1>4
  <2>2. timer'[n] = IF timer[n] = 1 THEN Interval ELSE timer[n] - 1
    BY <1>4 DEF Tick, AdvanceTickers
  <2>3. due'[n] <=> due[n] \/ timer[n] = 1
    BY <1>4 DEF Tick, AdvanceTickers
  <2>4. CASE timer[n] = 1
    BY <1>1, <1>4, <2>2, <2>3, <2>4 DEF TickerMoves
  <2>5. CASE timer[n] # 1
    <3>1. due'[n] = due[n]
      BY <2>3, <2>5 DEF Tick, AdvanceTickers
    <3>2. timer[n] > 1 /\ timer'[n] = timer[n] - 1
      BY <2>1, <2>2, <2>5
    <3> QED BY <1>4, <3>1, <3>2 DEF TickerMoves
  <2> QED BY <2>4, <2>5
<1>5. CASE mode[n] = "down"
  <2>1. timer'[n] = timer[n]
    BY <1>2, <1>5 DEF Tick, AdvanceTickers
  <2>2. due'[n] = due[n]
    BY <1>2, <1>5 DEF Tick, AdvanceTickers
  <2> QED BY <1>2, <1>5, <2>1, <2>2 DEF TickerMoves
<1> QED BY <1>3, <1>4, <1>5

\* Time passing: the key of a claim never runs out, because whoever is late
\* with its round holds the clock back while the lease still has a unit left.
LEMMA InvTick ==
  ASSUME LeaseRegime, IInv, Tick, TypeOK'
  PROVE  IInv'
<1> USE TimeAssumption, NamesAssumption DEF TypeOK, LeaseRegime, Mode, Step
<1>1. \A n \in Nodes : mode'[n] = mode[n] /\ isLeader'[n] = isLeader[n]
                       /\ pc'[n] = pc[n]
  BY DEF Tick
<1>2. \A n \in Nodes : Claim(n) => lease > 1
  BY DEF IInv, ClaimsLast, Tick, Owes, Busy, Age
<1>3. KeyLives'
  BY DEF IInv, KeyLives, Tick, AgeKey, Holders
<1>4. \A n \in Nodes : TickerMoves(n)
  BY TickerStep DEF IInv
<1>5. Alive'
  BY <1>1, <1>4 DEF IInv, Alive, Claim, Busy, TickerMoves
<1>6. Prompt'
  BY <1>1, <1>4 DEF IInv, Prompt, Busy, Age, Tick, TickerMoves
<1>7. RoundsSeeTruth'
  BY <1>1 DEF IInv, RoundsSeeTruth
<1>8. ClaimsLast'
  <2> SUFFICES ASSUME NEW n \in Nodes, Claim(n)'
               PROVE  /\ holder' = n
                      /\ Owes(n)' => lease' + Interval > MaxDelay + timer'[n]
                      /\ ~Owes(n)' => lease' > MaxDelay + timer'[n]
    BY DEF ClaimsLast
  <2>1. Claim(n)
    BY <1>1 DEF Claim
  <2>2. holder' = n /\ lease' = lease - 1
    BY <1>2, <2>1 DEF IInv, ClaimsLast, Tick, AgeKey
  <2>3. mode[n] = "running"
    BY <2>1 DEF IInv, Alive
  <2> QED
    BY <1>1, <1>4, <2>1, <2>2, <2>3 DEF IInv, ClaimsLast, Owes, Busy, TickerMoves
<1>9. OwnerClaims'
  BY <1>1 DEF IInv, OwnerClaims, Claim, Tick, AgeKey
<1> QED BY <1>3, <1>5, <1>6, <1>7, <1>8, <1>9 DEF IInv

\* A step of one process: only the process that finds no key takes it, and
\* only the process that owns it renews it.
LEMMA InvNode ==
  ASSUME LeaseRegime, IInv, NEW n \in Nodes, NodeNext(n), TypeOK'
  PROVE  IInv'
<1> USE TimeAssumption, NamesAssumption
    DEF TypeOK, LeaseRegime, Mode, Step, Goto, keyVars, Holders
<1> USE DEF IInv, KeyLives, Alive, Prompt, RoundsSeeTruth, ClaimsLast,
            OwnerClaims, Claim, Owes, Busy, Age
<1>1. CASE SetNX(n)
  <2>1. CASE holder = NoKey  BY <1>1, <2>1 DEF SetNX
  <2>2. CASE holder # NoKey  BY <1>1, <2>2 DEF SetNX
  <2> QED BY <2>1, <2>2
<1>2. CASE GetKey(n)
  <2>1. CASE holder = n   BY <1>2, <2>1 DEF GetKey
  <2>2. CASE holder # n   BY <1>2, <2>2 DEF GetKey
  <2> QED BY <2>1, <2>2
<1>3. CASE Renew(n)        BY <1>3 DEF Renew
<1>4. CASE BecomeLeader(n) BY <1>4 DEF BecomeLeader
<1>5. CASE StepDown(n)     BY <1>5 DEF StepDown
<1>6. CASE Crash(n)        BY <1>6 DEF Crash
<1>7. CASE Boot(n)         BY <1>7 DEF Boot
<1>8. ~RedisError(n) /\ ~Stop(n) /\ ~Start(n)
  BY DEF RedisError, SetNXError, GetError, RenewError, CanFail, Stop, Start
<1> QED
  BY <1>1, <1>2, <1>3, <1>4, <1>5, <1>6, <1>7, <1>8 DEF NodeNext, Round

\* The variables keep their types, whatever the environment may do.
THEOREM TypeCorrect == Spec => []TypeOK
<1>1. Init => TypeOK
  BY NamesAssumption, TimeAssumption
     DEF Init, TypeOK, Holders, Longest, Mode, Step
<1> QED BY <1>1, TypeStep, PTL DEF Spec

\* Every step preserves the invariant.
LEMMA InvStep ==
  ASSUME LeaseRegime
  PROVE  IInv /\ [Next]_vars => IInv'
<1> SUFFICES ASSUME IInv, [Next]_vars PROVE IInv'
  OBVIOUS
<1>1. TypeOK'
  BY TypeStep DEF IInv
<1>2. CASE Tick  BY <1>1, <1>2, InvTick
<1>3. ASSUME NEW n \in Nodes, NodeNext(n) PROVE IInv'
  BY <1>1, <1>3, InvNode
<1>4. ~Pause /\ ~Resume
  BY DEF Pause, Resume, LeaseRegime
<1>5. CASE UNCHANGED vars
  BY <1>5 DEF vars, IInv, TypeOK, KeyLives, Alive, Prompt, RoundsSeeTruth,
              ClaimsLast, OwnerClaims, Claim, Owes, Busy, Age
<1> QED BY <1>2, <1>3, <1>4, <1>5 DEF Next

\* The inductive invariant holds throughout.
LEMMA Invariance ==
  ASSUME LeaseRegime
  PROVE  Spec => []IInv
<1>1. Init => IInv  BY InvInit
<1>2. IInv /\ [Next]_vars => IInv'  BY InvStep
<1> QED BY <1>1, <1>2, PTL DEF Spec

\* README.md:8, a single leader pod: with redis answering, never two processes
\* that both see IsLeader() = true, for any number of processes, any interval
\* and any ttl longer than interval + delay.
THEOREM SingleLeader ==
  ASSUME LeaseRegime
  PROVE  Spec => []AtMostOneLeader
<1>1. IInv => AtMostOneLeader
  BY DEF IInv, ClaimsLast, Claim, AtMostOneLeader
<1> QED BY <1>1, Invariance, PTL

\* A leader is the holder of a key that has not lapsed.
THEOREM LeaderHolds ==
  ASSUME LeaseRegime
  PROVE  Spec => []LeaderHoldsKey
<1>1. IInv => LeaderHoldsKey
  BY TimeAssumption, NamesAssumption
     DEF IInv, TypeOK, KeyLives, ClaimsLast, Claim, LeaderHoldsKey
<1> QED BY <1>1, Invariance, PTL

\* leader.go:116-124: under the same regime the GET is never out of date when the
\* EXPIRE that follows it arrives, so nobody's lease is extended by another.
THEOREM RenewsOwn ==
  ASSUME LeaseRegime
  PROVE  Spec => RenewsOwnKeyOnly
<1>1. IInv => [\A n \in Nodes : Renew(n) => holder \in {n, NoKey}]_vars
  BY DEF IInv, RoundsSeeTruth, ClaimsLast, Claim, Renew
<1> QED BY <1>1, Invariance, PTL DEF RenewsOwnKeyOnly

-----------------------------------------------------------------------------
(* The pause *)

\* Redis answers, the operator may pause and resume, nobody stops the election of a
\* process that lives, and a round ends before the next one is due.
PauseRegime ==
  /\ Faults \subseteq {"crash", "cli"}
  /\ MaxDelay < Interval

\* The time since the last schedule-pause.
Paused == PauseLen - pause

\* While the CLI holds the key, whoever leads, or is about to, has either not ticked since
\* the pause, or is in the first round after it, the one that will see the key.
PauseNoticed ==
  holder = Cli /\ pause > 0 =>
    \A n \in Nodes :
      /\ pc[n] \in {"expire", "win"} => Paused + timer[n] <= Interval
      /\ isLeader[n] =>
           \/ Paused + timer[n] <= Interval
           \/ /\ due[n] \/ pc[n] \in {"get", "lose"}
              /\ Paused + timer[n] <= 2 * Interval

PauseInv ==
  /\ TypeOK
  /\ Alive
  /\ Prompt
  /\ PauseNoticed

\* A tick brings nobody past the round that follows the pause.
LEMMA PauseTick ==
  ASSUME PauseRegime, PauseInv, Tick, TypeOK'
  PROVE  PauseInv'
<1> USE TimeAssumption, NamesAssumption DEF TypeOK, PauseRegime, Mode, Step
<1>1. \A n \in Nodes : mode'[n] = mode[n] /\ isLeader'[n] = isLeader[n]
                       /\ pc'[n] = pc[n]
  BY DEF Tick
<1>2. \A n \in Nodes : TickerMoves(n)
  BY TickerStep DEF PauseInv
<1>3. Alive'
  BY <1>1, <1>2 DEF PauseInv, Alive, Claim, Busy, TickerMoves
<1>4. Prompt'
  BY <1>1, <1>2 DEF PauseInv, Prompt, Busy, Age, Tick, TickerMoves
<1>5. PauseNoticed'
  <2> SUFFICES ASSUME holder' = Cli, pause' > 0, NEW n \in Nodes
               PROVE  /\ pc'[n] \in {"expire", "win"} => Paused' + timer'[n] <= Interval
                      /\ isLeader'[n] =>
                           \/ Paused' + timer'[n] <= Interval
                           \/ /\ due'[n] \/ pc'[n] \in {"get", "lose"}
                              /\ Paused' + timer'[n] <= 2 * Interval
    BY DEF PauseNoticed
  <2>1. holder = Cli /\ pause > 0 /\ Paused' = Paused + 1
    BY DEF Tick, AgeKey, Paused, PauseInv
  <2>2. pause \in Nat /\ Paused \in Nat /\ timer[n] \in Nat /\ Interval \in Nat
    BY DEF PauseInv, Paused
  <2>3. mode[n] = "down" => pc[n] = "wait" /\ ~isLeader[n]
    BY DEF PauseInv, Alive, Claim, Busy
  <2> QED BY <1>1, <1>2, <2>1, <2>2, <2>3 DEF PauseInv, PauseNoticed, TickerMoves, Busy
<1> QED BY <1>3, <1>4, <1>5 DEF PauseInv

\* A round that meets the key of the CLI ends with StepDown.
LEMMA PauseNode ==
  ASSUME PauseRegime, PauseInv, NEW n \in Nodes, NodeNext(n), TypeOK'
  PROVE  PauseInv'
<1> USE TimeAssumption, NamesAssumption
    DEF TypeOK, PauseRegime, Mode, Step, Goto, keyVars, Holders
<1> USE DEF PauseInv, Alive, Prompt, PauseNoticed, Claim, Busy, Age, Paused
<1>1. CASE SetNX(n)
  <2>1. CASE holder = NoKey  BY <1>1, <2>1 DEF SetNX
  <2>2. CASE holder # NoKey  BY <1>1, <2>2 DEF SetNX
  <2> QED BY <2>1, <2>2
<1>2. CASE GetKey(n)
  <2>1. CASE holder = n   BY <1>2, <2>1 DEF GetKey
  <2>2. CASE holder # n   BY <1>2, <2>2 DEF GetKey
  <2> QED BY <2>1, <2>2
<1>3. CASE Renew(n)        BY <1>3 DEF Renew
<1>4. CASE BecomeLeader(n) BY <1>4 DEF BecomeLeader
<1>5. CASE StepDown(n)     BY <1>5 DEF StepDown
<1>6. CASE Crash(n)        BY <1>6 DEF Crash
<1>7. CASE Boot(n)         BY <1>7 DEF Boot
<1>8. ~RedisError(n) /\ ~Stop(n) /\ ~Start(n)
  BY DEF RedisError, SetNXError, GetError, RenewError, CanFail, Stop, Start
<1> QED
  BY <1>1, <1>2, <1>3, <1>4, <1>5, <1>6, <1>7, <1>8 DEF NodeNext, Round

\* schedule-pause restarts the count, schedule-resume takes the key away.
LEMMA PauseOperator ==
  ASSUME PauseRegime, PauseInv, Pause \/ Resume, TypeOK'
  PROVE  PauseInv'
<1> USE TimeAssumption, NamesAssumption DEF TypeOK, PauseInv, Alive, Prompt, PauseNoticed,
        Claim, Busy, Age, Paused, nodeVars
<1>1. CASE Pause   BY <1>1 DEF Pause
<1>2. CASE Resume  BY <1>2 DEF Resume
<1> QED BY <1>1, <1>2

\* README.md, schedule-pause: while the CLI holds the key, a process that leads stops
\* believing so within one interval and one round, for any number of processes that
\* crash and restart and any sequence of pauses and resumes.
THEOREM PauseStops ==
  ASSUME PauseRegime
  PROVE  Spec => []PauseStopsLeader
<1>1. Init => PauseInv
  <2> SUFFICES ASSUME Init PROVE PauseInv
    OBVIOUS
  <2>1. TypeOK
    BY NamesAssumption, TimeAssumption DEF Init, TypeOK, Holders, Longest, Mode, Step
  <2> QED
    BY <2>1, NamesAssumption, TimeAssumption
       DEF Init, PauseInv, Alive, Prompt, PauseNoticed, Claim, Busy, Age
<1>2. PauseInv /\ [Next]_vars => PauseInv'
  <2> SUFFICES ASSUME PauseInv, [Next]_vars PROVE PauseInv'
    OBVIOUS
  <2>1. TypeOK'
    BY TypeStep DEF PauseInv
  <2>2. CASE Tick  BY <2>1, <2>2, PauseTick
  <2>3. ASSUME NEW n \in Nodes, NodeNext(n) PROVE PauseInv'
    BY <2>1, <2>3, PauseNode
  <2>4. CASE Pause \/ Resume  BY <2>1, <2>4, PauseOperator
  <2>5. CASE UNCHANGED vars
    BY <2>5 DEF vars, PauseInv, TypeOK, Alive, Prompt, PauseNoticed, Claim, Busy, Age, Paused
  <2> QED BY <2>2, <2>3, <2>4, <2>5 DEF Next
<1>3. PauseInv => PauseStopsLeader
  BY TimeAssumption
     DEF PauseRegime, PauseInv, TypeOK, Prompt, PauseNoticed, PauseStopsLeader, Paused, Busy, Age
<1> QED BY <1>1, <1>2, <1>3, PTL DEF Spec
=============================================================================
