--------------------------- MODULE Process_proofs ---------------------------
(***************************************************************************)
(* Proofs about the components inside one process: the jobs with their     *)
(* switch and their records (JobControl), the subscriptions of an MQTT     *)
(* client (Subscriptions), the channel of the file appender and the clock  *)
(* at the end of the process (Shutdown), and the sanitizing of messages    *)
(* (Sanitize); those about the channel adaptor are in ChanAdaptor_proofs.  *)
(* Each has its inductive invariant: JobInv, SubInv, LineInv, ClockInv and *)
(* SanitizeInv.  In the end the parts are put together as the run does.    *)
(***************************************************************************)
EXTENDS MCProcess, ChanAdaptor_proofs, WellFoundedInduction

-----------------------------------------------------------------------------
(* JobControl                                                              *)

Results == {"running", "ok", "panic", "error"}

WorkRecord ==
  [pc : {"idle", "set", "find", "attempt", "push", "persist", "restore"},
   job : Jobs \cup {Unknown}, raw : BOOLEAN, manual : BOOLEAN, run : 0 .. MaxRuns,
   attempt : 0 .. RetryTimes, succeed : BOOLEAN]

\* The type invariant, with what it leaves out: the shape of a run, and the histories.
JobTyped ==
  /\ JobControlTypeOK
  /\ overlapped \in BOOLEAN
  /\ work \in [Workers -> WorkRecord]
  /\ outcome \in Seq(Results) /\ Len(outcome) = runs
  /\ latest \in [Jobs -> Nat]

\* A worker without a run is not a manual one; what only Run does is manual.
ManualSteps ==
  \A w \in Workers : /\ work[w].pc = "idle" => ~work[w].manual
                     /\ work[w].pc \in {"set", "find", "restore"} => work[w].manual

\* A manual run that is alone has saved the configured setting.
SavedSetting ==
  ~overlapped =>
    /\ \A v, w \in ManualRuns : v = w
    /\ ManualRuns = {} => scheduleDisabled = configured
    /\ \A w \in ManualRuns :
         /\ work[w].raw = configured
         /\ IF work[w].pc = "set" THEN scheduleDisabled = configured ELSE scheduleDisabled

Active(w) == work[w].pc \in {"attempt", "push", "persist"}

\* Every run has one worker, and what is on its way to the record is a success.
Judged ==
  /\ \A v, w \in Workers :
       Active(v) /\ Active(w) /\ v # w => work[v].run # work[w].run
  /\ \A w \in Workers : Active(w) =>
       /\ work[w].run \in 1 .. runs /\ work[w].job \in Jobs
       /\ work[w].pc = "attempt" => outcome[work[w].run] = "running"
       /\ work[w].pc = "push" /\ work[w].succeed => outcome[work[w].run] = "ok"
       /\ work[w].pc = "persist" => outcome[work[w].run] = "ok"

\* So is every result that is stored, or that a starting process has read.
Succeeded(n) == n # 0 => n \in 1 .. runs /\ outcome[n] = "ok"

RecordsTrue ==
  /\ \A j \in Jobs : Succeeded(store[j].run)
  /\ \A b \in Booters : /\ Succeeded(boot[b].seen.run)
                        /\ boot[b].pc = "write" => boot[b].job \in Jobs
  /\ \A j \in Jobs \ torn : store[j].run = latest[j]

JobInv == JobTyped /\ ManualSteps /\ SavedSetting /\ Judged /\ RecordsTrue

-----------------------------------------------------------------------------

LEMMA JobInit == JobControlInit => JobInv
<1> SUFFICES ASSUME JobControlInit PROVE JobInv
  OBVIOUS
<1>1. RetryTimes \in Nat /\ MaxRuns \in Nat
  BY JobsAssumption DEF JobsAssumption
<1>2. 0 \in 0 .. RetryTimes /\ 0 \in 0 .. MaxRuns
  BY <1>1
<1>3. JobTyped
  <2>1. IdleWork \in WorkRecord
    BY <1>2 DEF IdleWork, WorkRecord
  <2>2. work \in [Workers -> WorkRecord]
    BY <2>1 DEF JobControlInit
  <2>3. NoRecord \in Records /\ Nothing \in [off : BOOLEAN, next : Nexts]
    BY <1>2 DEF NoRecord, Records, Nothing, Nexts
  <2>4. outcome = <<>> /\ runs = 0 /\ outcome \in Seq(Results) /\ Len(outcome) = 0
        /\ DOMAIN outcome = 1 .. runs
    BY DEF JobControlInit
  <2>5. boot \in [Booters -> [pc : {"off", "read", "write", "done"}, todo : SUBSET Jobs,
                              job : Jobs \cup {Unknown}, seen : Records]]
    BY <2>3 DEF JobControlInit
  <2>6. \A w \in Workers :
          /\ work[w].pc \in {"idle", "set", "find", "attempt", "push", "persist", "restore"}
          /\ work[w].job \in Jobs \cup {Unknown} /\ work[w].attempt \in 0 .. RetryTimes
          /\ work[w].run \in 0 .. runs
    BY <1>2, <2>4 DEF JobControlInit, IdleWork
  <2>7. runs \in 0 .. MaxRuns
    BY <1>2, <2>4
  <2>8. JobControlTypeOK
    BY <2>3, <2>4, <2>5, <2>6, <2>7 DEF JobControlTypeOK, JobControlInit
  <2> QED BY <2>2, <2>4, <2>8 DEF JobTyped, JobControlInit
<1>4. ManualRuns = {} /\ ManualSteps /\ \A w \in Workers : ~Active(w)
  BY DEF JobControlInit, ManualRuns, ManualSteps, Active, IdleWork
<1>5. SavedSetting
  BY <1>4 DEF JobControlInit, SavedSetting
<1>6. Judged /\ RecordsTrue
  BY <1>4 DEF JobControlInit, Judged, RecordsTrue, Succeeded, NoRecord
<1> QED BY <1>3, <1>4, <1>5, <1>6 DEF JobInv

\* Results only come.
LEMMA RecordsKept ==
  ASSUME JobInv, runs' \in Nat, runs <= runs', UNCHANGED <<store, latest, torn, boot>>,
         \A n \in 1 .. runs : outcome[n] = "ok" => outcome'[n] = "ok"
  PROVE  RecordsTrue'
<1>1. runs \in Nat
  BY DEF JobInv, JobTyped, JobControlTypeOK
<1>2. \A n \in 1 .. runs : n \in 1 .. runs'
  BY <1>1
<1>3. /\ \A j \in Jobs : Succeeded(store[j].run)
      /\ \A b \in Booters : /\ Succeeded(boot[b].seen.run)
                            /\ boot[b].pc = "write" => boot[b].job \in Jobs
      /\ \A j \in Jobs \ torn : store[j].run = latest[j]
  BY DEF JobInv, RecordsTrue
<1>4. \A n : (n # 0 => n \in 1 .. runs /\ outcome[n] = "ok")
            => (n # 0 => n \in 1 .. runs' /\ outcome'[n] = "ok")
  BY <1>2
<1> QED BY <1>3, <1>4 DEF RecordsTrue, Succeeded

\* Where no worker moves.
LEMMA WorkersRest ==
  ASSUME JobInv, UNCHANGED <<scheduleDisabled, configured, overlapped, work, runs, outcome>>
  PROVE  ManualSteps' /\ SavedSetting' /\ Judged'
<1>1. ManualRuns' = ManualRuns /\ \A w \in Workers : Active(w)' <=> Active(w)
  BY DEF ManualRuns, Active
<1> QED BY <1>1 DEF JobInv, ManualSteps, SavedSetting, Judged

Fresh(j, manual, raw, n) ==
  [IdleWork EXCEPT !.pc = "attempt", !.job = j, !.manual = manual, !.raw = raw, !.run = n]

\* Begin appends a result and gives the worker its number.
LEMMA Begins ==
  ASSUME JobInv, NEW w \in Workers, NEW j \in Jobs \cup {Unknown}, NEW manual \in BOOLEAN,
         NEW raw \in BOOLEAN, Begin(w, j, manual, raw)
  PROVE  /\ runs \in Nat /\ runs' = runs + 1 /\ runs' \in 0 .. MaxRuns
         /\ outcome' \in Seq(Results) /\ Len(outcome') = runs'
         /\ outcome'[runs + 1] = "running" /\ \A n \in 1 .. runs : outcome'[n] = outcome[n]
         /\ work' \in [Workers -> WorkRecord]
         /\ work'[w] = Fresh(j, manual, raw, runs + 1)
         /\ \A v \in Workers \ {w} : work'[v] = work[v]
<1>1. RetryTimes \in Nat /\ MaxRuns \in Nat
  BY JobsAssumption DEF JobsAssumption
<1>2. runs \in 0 .. MaxRuns /\ outcome \in Seq(Results) /\ Len(outcome) = runs
      /\ work \in [Workers -> WorkRecord]
  BY DEF JobInv, JobTyped, JobControlTypeOK
<1>3. runs \in Nat /\ runs < MaxRuns /\ runs' = runs + 1 /\ outcome' = Append(outcome, "running")
  BY <1>1, <1>2 DEF Begin
<1>4. runs' \in 0 .. MaxRuns
  BY ONLY <1>1, <1>3
<1>5. "running" \in Results
  BY DEF Results
<1>6. /\ outcome' \in Seq(Results) /\ Len(outcome') = runs'
      /\ outcome'[runs + 1] = "running" /\ \A n \in 1 .. runs : outcome'[n] = outcome[n]
  BY ONLY <1>2, <1>3, <1>5
<1> DEFINE new == Fresh(j, manual, raw, runs + 1)
<1>7. runs + 1 \in 0 .. MaxRuns /\ 0 \in 0 .. RetryTimes
  BY <1>1, <1>3
<1>8. new \in WorkRecord
  BY <1>7 DEF Fresh, IdleWork, WorkRecord
<1>9. work' = [work EXCEPT ![w] = new]
  BY DEF Begin, Fresh
<1> HIDE DEF new
<1>10. work' \in [Workers -> WorkRecord] /\ work'[w] = new
       /\ \A v \in Workers \ {w} : work'[v] = work[v]
  BY <1>2, <1>8, <1>9
<1> QED BY <1>3, <1>4, <1>6, <1>10 DEF new

\* What a run that begins does to the invariant, whoever begins it.
LEMMA BeginJudged ==
  ASSUME JobInv, NEW w \in Workers, NEW j \in Jobs, NEW manual \in BOOLEAN,
         NEW raw \in BOOLEAN, Begin(w, j, manual, raw), ~Active(w),
         UNCHANGED <<regVars, recordVars, boot, scheduleDisabled, configured, overlapped>>
  PROVE  JobTyped' /\ Judged' /\ RecordsTrue'
<1>1. /\ runs \in Nat /\ runs' = runs + 1 /\ runs' \in 0 .. MaxRuns
      /\ outcome' \in Seq(Results) /\ Len(outcome') = runs'
      /\ outcome'[runs + 1] = "running" /\ \A n \in 1 .. runs : outcome'[n] = outcome[n]
      /\ work' \in [Workers -> WorkRecord]
      /\ work'[w] = Fresh(j, manual, raw, runs + 1)
      /\ \A v \in Workers \ {w} : work'[v] = work[v]
  BY Begins, Zenon
<1>2. work'[w].run = runs + 1 /\ work'[w].pc = "attempt" /\ work'[w].job = j
  BY <1>1 DEF Fresh, IdleWork
<1>3. \A v \in Workers \ {w} : Active(v)' => Active(v) /\ work'[v] = work[v]
  BY <1>1 DEF Active
<1>4. \A v \in Workers : Active(v) =>
        /\ work[v].run \in 1 .. runs /\ work[v].job \in Jobs
        /\ work[v].pc = "attempt" => outcome[work[v].run] = "running"
        /\ work[v].pc = "push" /\ work[v].succeed => outcome[work[v].run] = "ok"
        /\ work[v].pc = "persist" => outcome[work[v].run] = "ok"
  BY DEF JobInv, Judged
<1>5. ASSUME NEW v \in Workers, Active(v)'
      PROVE  /\ work'[v].run \in 1 .. runs' /\ work'[v].job \in Jobs
             /\ v # w => work'[v].run # work'[w].run
             /\ work'[v].pc = "attempt" => outcome'[work'[v].run] = "running"
             /\ work'[v].pc = "push" /\ work'[v].succeed => outcome'[work'[v].run] = "ok"
             /\ work'[v].pc = "persist" => outcome'[work'[v].run] = "ok"
  <2>1. CASE v = w
    <3>1. runs + 1 \in 1 .. runs'
      BY <1>1
    <3> QED BY <1>1, <1>2, <2>1, <3>1
  <2>2. CASE v # w
    <3>1. Active(v) /\ work'[v] = work[v] /\ work[v].run \in 1 .. runs
      BY <1>3, <1>4, <1>5, <2>2
    <3>2. work[v].run \in 1 .. runs' /\ work[v].run # runs + 1
      BY ONLY <1>1, <3>1
    <3>3. outcome'[work[v].run] = outcome[work[v].run]
      BY <1>1, <3>1
    <3> QED BY <1>2, <1>4, <3>1, <3>2, <3>3
  <2> QED BY <2>1, <2>2
<1>6. Judged'
  <2>1. ASSUME NEW u \in Workers, NEW v \in Workers, Active(u)', Active(v)', u # v
        PROVE  work'[u].run # work'[v].run
    <3>1. CASE u = w \/ v = w
      BY <1>5, <2>1, <3>1
    <3>2. CASE u # w /\ v # w
      BY <1>3, <2>1, <3>2 DEF JobInv, Judged
    <3> QED BY <3>1, <3>2
  <2> QED BY <1>5, <2>1 DEF Judged
<1>7. RecordsTrue'
  <2>1. runs' \in Nat /\ runs <= runs'
    BY ONLY <1>1
  <2> QED BY <1>1, <2>1, RecordsKept DEF recordVars
<1>8. JobTyped'
  <2>1. DOMAIN outcome' = 1 .. runs'
    BY <1>1
  <2>2. \A v \in Workers : work'[v].run \in 0 .. runs'
    <3>1. \A v \in Workers : work[v].run \in 0 .. runs
      BY DEF JobInv, JobTyped, JobControlTypeOK
    <3>2. work'[w].run \in 0 .. runs'
      BY <1>1, <1>2
    <3>3. ASSUME NEW v \in Workers \ {w} PROVE work'[v].run \in 0 .. runs'
      <4>1. work'[v] = work[v] /\ work[v].run \in 0 .. runs
        BY <1>1, <3>1
      <4> QED BY ONLY <1>1, <4>1
    <3> QED BY <3>2, <3>3
  <2>3. \A v \in Workers :
          /\ work'[v].pc \in {"idle", "set", "find", "attempt", "push", "persist", "restore"}
          /\ work'[v].job \in Jobs \cup {Unknown} /\ work'[v].attempt \in 0 .. RetryTimes
    BY <1>1 DEF WorkRecord
  <2>4. JobControlTypeOK'
    BY <1>1, <2>1, <2>2, <2>3 DEF JobInv, JobTyped, JobControlTypeOK, regVars, recordVars
  <2> QED BY <1>1, <2>4 DEF JobInv, JobTyped, recordVars
<1> QED BY <1>6, <1>7, <1>8

\* A step of one worker that keeps the number of runs: types.
LEMMA MovedTyped ==
  ASSUME JobInv, NEW w \in Workers, NEW x \in WorkRecord, work' = [work EXCEPT ![w] = x],
         x.run \in 0 .. runs, UNCHANGED <<regVars, runs, configured, boot>>,
         scheduleDisabled' \in BOOLEAN, overlapped' \in BOOLEAN,
         outcome' \in Seq(Results), Len(outcome') = runs,
         store' \in [Jobs -> Records], latest' \in [Jobs -> Nat], torn' \subseteq Jobs
  PROVE  JobTyped'
<1>1. work \in [Workers -> WorkRecord]
      /\ \A v \in Workers : work[v].run \in 0 .. runs
  BY DEF JobInv, JobTyped, JobControlTypeOK
<1>2. /\ work' \in [Workers -> WorkRecord]
      /\ \A v \in Workers : work'[v] = IF v = w THEN x ELSE work[v]
  BY <1>1
<1>3. \A v \in Workers : work'[v].run \in 0 .. runs
  BY <1>1, <1>2
<1>4. \A v \in Workers :
        /\ work'[v].pc \in {"idle", "set", "find", "attempt", "push", "persist", "restore"}
        /\ work'[v].job \in Jobs \cup {Unknown} /\ work'[v].attempt \in 0 .. RetryTimes
  BY <1>2 DEF WorkRecord
<1>5. DOMAIN outcome' = 1 .. runs'
  BY DEF JobInv, JobTyped, JobControlTypeOK
<1>6. JobControlTypeOK'
  BY <1>3, <1>4, <1>5 DEF JobInv, JobTyped, JobControlTypeOK, regVars
<1> QED BY <1>2, <1>6 DEF JobTyped

\* ... the results: a worker writes none but that of the attempt it makes, ...
LEMMA MovedJudged ==
  ASSUME JobInv, NEW w \in Workers, NEW x \in WorkRecord, work' = [work EXCEPT ![w] = x],
         runs' = runs,
         x.pc \in {"attempt", "push", "persist"} =>
           /\ Active(w) /\ x.run = work[w].run /\ x.job = work[w].job
           /\ x.pc = "attempt" => outcome'[x.run] = "running"
           /\ x.pc = "push" /\ x.succeed => outcome'[x.run] = "ok"
           /\ x.pc = "persist" => outcome'[x.run] = "ok",
         \A n \in 1 .. runs : \/ outcome'[n] = outcome[n]
                              \/ work[w].pc = "attempt" /\ n = work[w].run
  PROVE  /\ Judged'
         /\ \A n \in 1 .. runs : outcome[n] = "ok" => outcome'[n] = "ok"
<1>1. work \in [Workers -> WorkRecord]
  BY DEF JobInv, JobTyped
<1>2. work'[w] = x /\ \A v \in Workers \ {w} : work'[v] = work[v]
  BY <1>1
<1>3. /\ \A u, v \in Workers : Active(u) /\ Active(v) /\ u # v => work[u].run # work[v].run
      /\ \A v \in Workers : Active(v) =>
           /\ work[v].run \in 1 .. runs /\ work[v].job \in Jobs
           /\ work[v].pc = "attempt" => outcome[work[v].run] = "running"
           /\ work[v].pc = "push" /\ work[v].succeed => outcome[work[v].run] = "ok"
           /\ work[v].pc = "persist" => outcome[work[v].run] = "ok"
  BY DEF JobInv, Judged
<1>4. \A v \in Workers : Active(v)' =>
        Active(v) /\ work'[v].run = work[v].run /\ work'[v].job = work[v].job
  BY <1>2 DEF Active
<1>5. ASSUME NEW v \in Workers \ {w}, Active(v)
      PROVE  outcome'[work[v].run] = outcome[work[v].run]
  <2>1. work[v].run \in 1 .. runs
    BY <1>3, <1>5
  <2>2. work[w].pc = "attempt" => work[v].run # work[w].run
    BY <1>3, <1>5 DEF Active
  <2> QED BY <2>1, <2>2
<1>6. ASSUME NEW v \in Workers, Active(v)'
      PROVE  /\ work'[v].run \in 1 .. runs' /\ work'[v].job \in Jobs
             /\ work'[v].pc = "attempt" => outcome'[work'[v].run] = "running"
             /\ work'[v].pc = "push" /\ work'[v].succeed => outcome'[work'[v].run] = "ok"
             /\ work'[v].pc = "persist" => outcome'[work'[v].run] = "ok"
  <2>1. /\ Active(v) /\ work'[v].run = work[v].run /\ work[v].run \in 1 .. runs
        /\ work'[v].job = work[v].job /\ work[v].job \in Jobs
    BY <1>3, <1>4, <1>6
  <2>2. CASE v = w
    BY <1>2, <1>6, <2>1, <2>2 DEF Active
  <2>3. CASE v # w
    <3>1. work'[v] = work[v] /\ outcome'[work[v].run] = outcome[work[v].run]
      BY <1>2, <1>5, <2>1, <2>3
    <3> QED BY <1>3, <2>1, <3>1
  <2> QED BY <2>2, <2>3
<1>7. Judged'
  BY <1>3, <1>4, <1>6 DEF Judged
<1>8. ASSUME NEW n \in 1 .. runs, outcome[n] = "ok" PROVE outcome'[n] = "ok"
  <2>1. work[w].pc = "attempt" /\ n = work[w].run => outcome[n] = "running"
    BY <1>3 DEF Active
  <2> QED BY <1>8, <2>1
<1> QED BY <1>7, <1>8

\* ... and the switch, which only the first and the last step of Run touch.
LEMMA MovedSwitch ==
  ASSUME JobInv, NEW w \in Workers, NEW x \in WorkRecord, work' = [work EXCEPT ![w] = x],
         UNCHANGED <<scheduleDisabled, configured, overlapped>>,
         x.manual <=> work[w].manual,
         x.manual => x.raw = work[w].raw /\ x.pc # "set" /\ work[w].pc # "set",
         x.pc = "idle" => ~x.manual, x.pc \in {"set", "find", "restore"} => x.manual
  PROVE  ManualSteps' /\ SavedSetting'
<1>1. work \in [Workers -> WorkRecord]
  BY DEF JobInv, JobTyped
<1>2. work'[w] = x /\ \A v \in Workers \ {w} : work'[v] = work[v]
  BY <1>1
<1>3. ManualSteps'
  BY <1>2 DEF JobInv, ManualSteps
<1>4. \A v \in Workers : work'[v].manual <=> work[v].manual
  BY <1>2
<1>5. ManualRuns' = ManualRuns
  BY <1>4 DEF ManualRuns
<1>6. ASSUME ~overlapped', NEW v \in ManualRuns'
      PROVE  /\ work'[v].raw = configured
             /\ IF work'[v].pc = "set" THEN scheduleDisabled = configured ELSE scheduleDisabled
  <2>1. v \in Workers /\ v \in ManualRuns /\ work[v].raw = configured
        /\ IF work[v].pc = "set" THEN scheduleDisabled = configured ELSE scheduleDisabled
    BY <1>5, <1>6 DEF JobInv, SavedSetting, ManualRuns
  <2> QED BY <1>2, <1>6, <2>1 DEF ManualRuns
<1>7. SavedSetting'
  BY <1>5, <1>6 DEF JobInv, SavedSetting
<1> QED BY <1>3, <1>7

\* A step of one worker that leaves the results and the records alone.
LEMMA MovedQuiet ==
  ASSUME JobInv, NEW w \in Workers, NEW x \in WorkRecord, work' = [work EXCEPT ![w] = x],
         x.run \in 0 .. runs,
         UNCHANGED <<regVars, runs, outcome, configured, recordVars, boot>>,
         scheduleDisabled' \in BOOLEAN, overlapped' \in BOOLEAN,
         x.pc \in {"attempt", "push", "persist"} =>
           /\ Active(w) /\ x.run = work[w].run /\ x.job = work[w].job
           /\ x.pc = "attempt" => outcome[x.run] = "running"
           /\ x.pc = "push" /\ x.succeed => outcome[x.run] = "ok"
           /\ x.pc = "persist" => outcome[x.run] = "ok"
  PROVE  JobTyped' /\ Judged' /\ RecordsTrue'
<1>1. UNCHANGED <<store, latest, torn>> /\ runs \in Nat
  BY DEF recordVars, JobInv, JobTyped, JobControlTypeOK
<1>2. /\ outcome' \in Seq(Results) /\ Len(outcome') = runs
      /\ store' \in [Jobs -> Records] /\ latest' \in [Jobs -> Nat] /\ torn' \subseteq Jobs
  BY <1>1 DEF JobInv, JobTyped, JobControlTypeOK
<1>3. JobTyped'
  BY <1>2, MovedTyped
<1>4. Judged'
  BY MovedJudged
<1>5. RecordsTrue'
  BY <1>1, RecordsKept
<1> QED BY <1>3, <1>4, <1>5

\* Firings and manual runs begin a run.
LEMMA BeginStep ==
  ASSUME JobInv, NEW w \in Workers, (\E j \in Jobs : Fire(w, j)) \/ RunFind(w)
  PROVE  JobInv'
<1>1. work \in [Workers -> WorkRecord] /\ work[w] \in WorkRecord
  BY DEF JobInv, JobTyped
<1>2. ASSUME NEW j \in Jobs, NEW manual \in BOOLEAN, NEW raw \in BOOLEAN,
             Begin(w, j, manual, raw), UNCHANGED <<switchVars, regVars, recordVars, boot>>,
             ~Active(w), manual <=> work[w].manual,
             manual => raw = work[w].raw /\ work[w].pc # "set"
      PROVE  JobInv'
  <2>1. UNCHANGED <<regVars, recordVars, boot, scheduleDisabled, configured, overlapped>>
    BY <1>2 DEF switchVars
  <2>2. JobTyped' /\ Judged' /\ RecordsTrue'
    BY <1>2, <2>1, BeginJudged
  <2> DEFINE x == Fresh(j, manual, raw, runs + 1)
  <2>3. x \in WorkRecord
    <3>1. work' \in [Workers -> WorkRecord] /\ work'[w] = x
      BY <1>2, Begins
    <3> QED BY <3>1
  <2>4. work' = [work EXCEPT ![w] = x]
    BY <1>2 DEF Begin, Fresh
  <2>5. x.pc = "attempt" /\ (x.manual <=> manual) /\ x.raw = raw
    BY DEF Fresh, IdleWork
  <2> HIDE DEF x
  <2>6. ManualSteps' /\ SavedSetting'
    BY <1>2, <2>1, <2>3, <2>4, <2>5, MovedSwitch
  <2> QED BY <2>2, <2>6 DEF JobInv
<1>3. ASSUME NEW j \in Jobs, Fire(w, j) PROVE JobInv'
  <2>1. Begin(w, j, FALSE, FALSE) /\ UNCHANGED <<switchVars, regVars, recordVars, boot>>
        /\ work[w].pc = "idle"
    BY <1>3 DEF Fire
  <2>2. ~work[w].manual /\ ~Active(w)
    BY <2>1 DEF JobInv, ManualSteps, Active
  <2> QED BY <1>2, <2>1, <2>2
<1>4. ASSUME RunFind(w) PROVE JobInv'
  <2>1. work[w].pc = "find" /\ UNCHANGED <<switchVars, regVars, recordVars, boot>>
    BY <1>4 DEF RunFind
  <2>2. work[w].manual /\ ~Active(w)
    BY <2>1 DEF JobInv, ManualSteps, Active
  <2>3. CASE work[w].job \in {j \in Jobs : reg[j] # "new"}
    <3>2. Begin(w, work[w].job, TRUE, work[w].raw)
      BY <1>4, <2>3 DEF RunFind
    <3>1. work[w].job \in Jobs /\ work[w].raw \in BOOLEAN
      BY <1>1, <2>3 DEF WorkRecord
    <3> QED BY <1>2, <2>1, <2>2, <3>1, <3>2
  <2>4. CASE work[w].job \notin {j \in Jobs : reg[j] # "new"}
    <3>6. work' = [work EXCEPT ![w].pc = "restore"] /\ UNCHANGED <<runs, outcome>>
      BY <1>4, <2>4 DEF RunFind
    <3> DEFINE x == [work[w] EXCEPT !.pc = "restore"]
    <3>1. work' = [work EXCEPT ![w] = x] /\ x \in WorkRecord
      BY <1>1, <3>6 DEF WorkRecord
    <3>2. /\ x.pc = "restore" /\ x.manual = work[w].manual /\ x.raw = work[w].raw
          /\ x.run = work[w].run
      BY <1>1 DEF WorkRecord
    <3> HIDE DEF x
    <3>3. UNCHANGED <<scheduleDisabled, configured, overlapped>>
      BY <2>1 DEF switchVars
    <3>4. JobTyped' /\ Judged' /\ RecordsTrue'
      <4>1. work[w].run \in 0 .. runs /\ scheduleDisabled' \in BOOLEAN /\ overlapped' \in BOOLEAN
        BY <3>3 DEF JobInv, JobTyped, JobControlTypeOK
      <4> QED BY <2>1, <3>6, <3>1, <3>2, <3>3, <4>1, MovedQuiet
    <3>5. ManualSteps' /\ SavedSetting'
      BY <2>1, <2>2, <3>1, <3>2, <3>3, MovedSwitch
    <3> QED BY <3>4, <3>5 DEF JobInv
  <2> QED BY <2>3, <2>4
<1> QED BY <1>3, <1>4

\* The three steps of Run that concern the switch.
LEMMA SwitchStep ==
  ASSUME JobInv, NEW w \in Workers,
         (\E j \in Jobs \cup {Unknown} : RunSave(w, j)) \/ RunSet(w) \/ RunRestore(w)
  PROVE  JobInv'
<1>1. /\ work \in [Workers -> WorkRecord] /\ work[w] \in WorkRecord
      /\ scheduleDisabled \in BOOLEAN /\ configured \in BOOLEAN /\ overlapped \in BOOLEAN
      /\ work[w].run \in 0 .. runs /\ 0 \in 0 .. runs /\ 0 \in 0 .. MaxRuns
      /\ 0 \in 0 .. RetryTimes
  <2>1. RetryTimes \in Nat /\ MaxRuns \in Nat /\ runs \in 0 .. MaxRuns
    BY JobsAssumption DEF JobsAssumption, JobInv, JobTyped, JobControlTypeOK
  <2>2. 0 \in 0 .. runs /\ 0 \in 0 .. MaxRuns /\ 0 \in 0 .. RetryTimes
    BY ONLY <2>1
  <2> QED BY <2>2 DEF JobInv, JobTyped, JobControlTypeOK
<1>2. ASSUME NEW x \in WorkRecord, work' = [work EXCEPT ![w] = x]
      PROVE  work'[w] = x /\ \A v \in Workers \ {w} : work'[v] = work[v]
  BY <1>1, <1>2
<1>3. ASSUME NEW j \in Jobs \cup {Unknown}, RunSave(w, j) PROVE JobInv'
  <2> DEFINE x == [IdleWork EXCEPT !.pc = "set", !.job = j, !.manual = TRUE,
                                   !.raw = scheduleDisabled]
  <2>1. x \in WorkRecord /\ x.pc = "set" /\ x.manual /\ x.raw = scheduleDisabled /\ x.run = 0
    BY <1>1 DEF IdleWork, WorkRecord
  <2>2. work' = [work EXCEPT ![w] = x] /\ work[w].pc = "idle"
        /\ UNCHANGED <<regVars, runs, outcome, configured, recordVars, boot, scheduleDisabled>>
    BY <1>3 DEF RunSave
  <2>3. overlapped' = (overlapped \/ ManualRuns # {})
    BY <1>3 DEF RunSave
  <2> HIDE DEF x
  <2>4. overlapped' \in BOOLEAN
    BY <2>3
  <2>5. JobTyped' /\ Judged' /\ RecordsTrue'
    BY <1>1, <2>1, <2>2, <2>4, MovedQuiet
  <2>6. work'[w] = x /\ \A v \in Workers \ {w} : work'[v] = work[v]
    BY <1>2, <2>1, <2>2
  <2>7. ManualSteps'
    BY <2>1, <2>6 DEF JobInv, ManualSteps
  <2>8. SavedSetting'
    <3> SUFFICES ASSUME ~overlapped' PROVE
          /\ \A u, v \in ManualRuns' : u = v
          /\ ManualRuns' # {}
          /\ \A v \in ManualRuns' : work'[v].raw = configured /\ work'[v].pc = "set"
                                    /\ scheduleDisabled = configured
      BY <2>2 DEF SavedSetting
    <3>1. ManualRuns = {} /\ ~overlapped
      BY <2>3
    <3>2. scheduleDisabled = configured
      BY <3>1 DEF JobInv, SavedSetting
    <3>3. \A v \in Workers : work'[v].manual <=> v = w
      BY <2>1, <2>6, <3>1 DEF ManualRuns
    <3>4. ManualRuns' = {w}
      BY <3>3 DEF ManualRuns
    <3> QED BY <2>1, <2>6, <3>2, <3>4
  <2> QED BY <2>5, <2>7, <2>8 DEF JobInv
<1>4. ASSUME RunSet(w) PROVE JobInv'
  <2> DEFINE x == [work[w] EXCEPT !.pc = "find"]
  <2>1. /\ x \in WorkRecord /\ x.pc = "find" /\ x.manual = work[w].manual
        /\ x.raw = work[w].raw /\ x.run = work[w].run
    BY <1>1 DEF WorkRecord
  <2>2. /\ work' = [work EXCEPT ![w] = x] /\ work[w].pc = "set" /\ scheduleDisabled' = TRUE
        /\ UNCHANGED <<regVars, runs, outcome, configured, recordVars, boot, overlapped>>
    BY <1>4 DEF RunSet
  <2> HIDE DEF x
  <2>3. scheduleDisabled' \in BOOLEAN /\ overlapped' \in BOOLEAN
    BY <1>1, <2>2
  <2>4. JobTyped' /\ Judged' /\ RecordsTrue'
    BY <1>1, <2>1, <2>2, <2>3, MovedQuiet
  <2>5. work'[w] = x /\ \A v \in Workers \ {w} : work'[v] = work[v]
    BY <1>2, <2>1, <2>2
  <2>6. work[w].manual /\ w \in ManualRuns
    BY <2>2 DEF JobInv, ManualSteps, ManualRuns
  <2>7. ManualSteps'
    BY <2>1, <2>5, <2>6 DEF JobInv, ManualSteps
  <2>8. ManualRuns' = ManualRuns
    <3>1. \A v \in Workers : work'[v].manual <=> work[v].manual
      BY <2>1, <2>5
    <3> QED BY <3>1 DEF ManualRuns
  <2>9. SavedSetting'
    <3> SUFFICES ASSUME ~overlapped PROVE
          /\ \A u, v \in ManualRuns : u = v
          /\ \A v \in ManualRuns : work'[v].raw = configured /\ work'[v].pc # "set"
      BY <2>2, <2>6, <2>8 DEF SavedSetting
    <3>1. /\ \A u, v \in ManualRuns : u = v
          /\ work[w].raw = configured
      BY <2>6 DEF JobInv, SavedSetting
    <3> QED BY <2>1, <2>5, <2>6, <3>1
  <2> QED BY <2>4, <2>7, <2>9 DEF JobInv
<1>5. ASSUME RunRestore(w) PROVE JobInv'
  <2>1. IdleWork \in WorkRecord /\ IdleWork.pc = "idle" /\ IdleWork.run = 0
        /\ IdleWork.manual = FALSE
    BY <1>1 DEF IdleWork, WorkRecord
  <2>2. /\ work' = [work EXCEPT ![w] = IdleWork] /\ work[w].pc = "restore"
        /\ scheduleDisabled' = work[w].raw
        /\ UNCHANGED <<regVars, runs, outcome, configured, recordVars, boot, overlapped>>
    BY <1>5 DEF RunRestore
  <2>3. scheduleDisabled' \in BOOLEAN /\ overlapped' \in BOOLEAN
    BY <1>1, <2>2 DEF WorkRecord
  <2>4. JobTyped' /\ Judged' /\ RecordsTrue'
    BY <1>1, <2>1, <2>2, <2>3, MovedQuiet
  <2>5. work'[w] = IdleWork /\ \A v \in Workers \ {w} : work'[v] = work[v]
    BY <1>2, <2>1, <2>2
  <2>6. work[w].manual /\ w \in ManualRuns
    BY <2>2 DEF JobInv, ManualSteps, ManualRuns
  <2>7. ManualSteps'
    BY <2>1, <2>5 DEF JobInv, ManualSteps
  <2>8. SavedSetting'
    <3> SUFFICES ASSUME ~overlapped PROVE ManualRuns' = {} /\ scheduleDisabled' = configured
      BY <2>2 DEF SavedSetting
    <3>1. ManualRuns = {w} /\ work[w].raw = configured
      BY <2>6 DEF JobInv, SavedSetting
    <3>2. \A v \in Workers : ~work'[v].manual
      BY <2>1, <2>5, <3>1 DEF ManualRuns
    <3> QED BY <2>2, <3>1, <3>2 DEF ManualRuns
  <2> QED BY <2>4, <2>7, <2>8 DEF JobInv
<1> QED BY <1>3, <1>4, <1>5

\* An attempt: it is repeated, or its result is the result of the run.
LEMMA AttemptStep ==
  ASSUME JobInv, NEW w \in Workers, Attempt(w)
  PROVE  JobInv'
<1>1. /\ work \in [Workers -> WorkRecord] /\ work[w] \in WorkRecord
      /\ outcome \in Seq(Results) /\ Len(outcome) = runs /\ runs \in Nat
      /\ work[w].run \in 0 .. runs /\ scheduleDisabled \in BOOLEAN /\ overlapped \in BOOLEAN
      /\ store \in [Jobs -> Records] /\ latest \in [Jobs -> Nat] /\ torn \subseteq Jobs
  BY DEF JobInv, JobTyped, JobControlTypeOK
<1>2. /\ work[w].pc = "attempt" /\ runs' = runs
      /\ UNCHANGED <<regVars, boot, scheduleDisabled, configured, overlapped, store, latest,
                     torn>>
  BY DEF Attempt, switchVars, recordVars
<1>3. /\ Active(w) /\ work[w].run \in 1 .. runs /\ outcome[work[w].run] = "running"
  BY <1>2 DEF JobInv, Judged, Active
<1>4. ASSUME NEW result \in {"ok", "panic", "error"}, NEW succeed \in BOOLEAN,
             EndsWith(w, result, succeed), succeed => result = "ok"
      PROVE  JobInv'
  <2> DEFINE x == [work[w] EXCEPT !.succeed = succeed, !.pc = "push"]
  <2>1. /\ x \in WorkRecord /\ x.pc = "push" /\ (x.succeed <=> succeed)
        /\ (x.manual <=> work[w].manual)
        /\ x.raw = work[w].raw /\ x.run = work[w].run /\ x.job = work[w].job
    BY <1>1 DEF WorkRecord
  <2>2. work' = [work EXCEPT ![w] = x] /\ outcome' = [outcome EXCEPT ![work[w].run] = result]
    BY <1>1, <1>4 DEF EndsWith
  <2> HIDE DEF x
  <2>3. /\ outcome' \in Seq(Results) /\ Len(outcome') = runs
        /\ outcome'[work[w].run] = result
        /\ \A n \in 1 .. runs : n # work[w].run => outcome'[n] = outcome[n]
    <3>1. result \in Results
      BY DEF Results
    <3> QED BY ONLY <1>1, <1>3, <2>2, <3>1
  <2>4. JobTyped'
    BY <1>1, <1>2, <2>1, <2>2, <2>3, MovedTyped
  <2>5. Judged' /\ \A n \in 1 .. runs : outcome[n] = "ok" => outcome'[n] = "ok"
    BY <1>2, <1>3, <1>4, <2>1, <2>2, <2>3, MovedJudged
  <2>6. ManualSteps' /\ SavedSetting'
    BY <1>2, <2>1, <2>2, MovedSwitch
  <2>7. RecordsTrue'
    BY <1>1, <1>2, <2>5, RecordsKept
  <2> QED BY <2>4, <2>5, <2>6, <2>7 DEF JobInv
<1>5. ASSUME work[w].attempt < RetryTimes, work' = [work EXCEPT ![w].attempt = @ + 1],
             outcome' = outcome
      PROVE  JobInv'
  <2> DEFINE x == [work[w] EXCEPT !.attempt = @ + 1]
  <2>1. work[w].attempt + 1 \in 0 .. RetryTimes
    <3>1. work[w].attempt \in 0 .. RetryTimes /\ RetryTimes \in Nat
      BY <1>1, JobsAssumption DEF WorkRecord, JobsAssumption
    <3> QED BY ONLY <1>5, <3>1
  <2>2. /\ x \in WorkRecord /\ x.pc = work[w].pc /\ (x.manual <=> work[w].manual)
        /\ x.raw = work[w].raw /\ x.run = work[w].run /\ x.job = work[w].job
    BY <1>1, <2>1 DEF WorkRecord
  <2>3. work' = [work EXCEPT ![w] = x]
    BY <1>1, <1>5
  <2> HIDE DEF x
  <2>4. JobTyped' /\ Judged' /\ RecordsTrue'
    <3>1. UNCHANGED <<regVars, runs, outcome, configured, recordVars, boot>>
          /\ scheduleDisabled' \in BOOLEAN /\ overlapped' \in BOOLEAN
      BY <1>1, <1>2, <1>5 DEF recordVars
    <3>2. x.run \in 0 .. runs /\ x.pc = "attempt" /\ outcome[x.run] = "running"
      BY <1>1, <1>2, <1>3, <2>2
    <3> QED BY <1>3, <2>2, <2>3, <3>1, <3>2, MovedQuiet
  <2>5. ManualSteps' /\ SavedSetting'
    BY <1>2, <2>2, <2>3, MovedSwitch
  <2> QED BY <2>4, <2>5 DEF JobInv
<1>6. \/ EndsWith(w, "ok", TRUE) \/ EndsWith(w, "panic", FALSE) \/ EndsWith(w, "error", FALSE)
      \/ /\ work[w].attempt < RetryTimes
         /\ work' = [work EXCEPT ![w].attempt = @ + 1] /\ outcome' = outcome
  BY DEF Attempt
<1> QED BY <1>4, <1>5, <1>6

\* What AfterRun leaves of a run is no longer active.
LEMMA AfterRunIs ==
  ASSUME JobInv, NEW w \in Workers, Active(w)
  PROVE  \E x \in WorkRecord :
           /\ AfterRun(w) = [work EXCEPT ![w] = x] /\ x.run \in 0 .. runs
           /\ x.pc \in {"idle", "restore"} /\ (x.pc = "restore" <=> x.manual)
           /\ (x.manual <=> work[w].manual)
           /\ x.manual => x.raw = work[w].raw
<1>1. /\ work \in [Workers -> WorkRecord] /\ work[w] \in WorkRecord
      /\ runs \in Nat /\ work[w].run \in 0 .. runs /\ MaxRuns \in Nat /\ RetryTimes \in Nat
  BY JobsAssumption DEF JobInv, JobTyped, JobControlTypeOK, JobsAssumption
<1>2. 0 \in 0 .. runs /\ 0 \in 0 .. MaxRuns /\ 0 \in 0 .. RetryTimes
  BY ONLY <1>1
<1>3. CASE work[w].manual
  <2> DEFINE x == [work[w] EXCEPT !.pc = "restore"]
  <2>1. AfterRun(w) = [work EXCEPT ![w] = x]
    BY <1>1, <1>3 DEF AfterRun
  <2>2. /\ x \in WorkRecord /\ x.pc = "restore" /\ x.manual /\ x.raw = work[w].raw
        /\ x.run = work[w].run
    BY <1>1, <1>3 DEF WorkRecord
  <2> HIDE DEF x
  <2> QED BY <1>1, <1>3, <2>1, <2>2
<1>4. CASE ~work[w].manual
  <2>1. AfterRun(w) = [work EXCEPT ![w] = IdleWork]
    BY <1>1, <1>4 DEF AfterRun
  <2>2. IdleWork \in WorkRecord /\ IdleWork.pc = "idle" /\ ~IdleWork.manual /\ IdleWork.run = 0
    BY <1>2 DEF IdleWork, WorkRecord
  <2> QED BY <1>2, <1>4, <2>1, <2>2
<1> QED BY <1>3, <1>4

\* The result goes to the history, and a success on to the record.
LEMMA PushStep ==
  ASSUME JobInv, NEW w \in Workers, PushHistory(w)
  PROVE  JobInv'
<1>1. /\ work \in [Workers -> WorkRecord] /\ work[w] \in WorkRecord
      /\ work[w].run \in 0 .. runs /\ scheduleDisabled \in BOOLEAN /\ overlapped \in BOOLEAN
  BY DEF JobInv, JobTyped, JobControlTypeOK
<1>2. /\ work[w].pc = "push"
      /\ UNCHANGED <<regVars, recordVars, boot, runs, outcome, scheduleDisabled, configured,
                     overlapped>>
  BY DEF PushHistory, switchVars
<1>3. Active(w) /\ (work[w].succeed => outcome[work[w].run] = "ok")
  BY <1>2 DEF JobInv, Judged, Active
<1>4. \E x \in WorkRecord :
        /\ work' = [work EXCEPT ![w] = x] /\ x.run \in 0 .. runs
        /\ x.pc \in {"idle", "restore", "persist"}
        /\ x.pc = "persist" => /\ x.run = work[w].run /\ x.job = work[w].job
                             /\ outcome[x.run] = "ok"
        /\ x.pc = "idle" => ~x.manual
        /\ x.pc = "restore" => x.manual
        /\ (x.manual <=> work[w].manual)
        /\ x.manual => x.raw = work[w].raw
  <2>1. CASE work[w].succeed /\ work[w].job \notin NoHistory
    <3> DEFINE x == [work[w] EXCEPT !.pc = "persist"]
    <3>1. work' = [work EXCEPT ![w] = x]
      BY <1>1, <2>1 DEF PushHistory
    <3>2. /\ x \in WorkRecord /\ x.pc = "persist" /\ (x.manual <=> work[w].manual)
          /\ x.raw = work[w].raw /\ x.run = work[w].run /\ x.job = work[w].job
      BY <1>1 DEF WorkRecord
    <3> HIDE DEF x
    <3> QED BY <1>1, <1>3, <2>1, <3>1, <3>2
  <2>2. CASE ~(work[w].succeed /\ work[w].job \notin NoHistory)
    <3>1. work' = AfterRun(w)
      BY <2>2 DEF PushHistory
    <3> QED BY <1>3, <3>1, AfterRunIs
  <2> QED BY <2>1, <2>2
<1>5. PICK x \in WorkRecord :
        /\ work' = [work EXCEPT ![w] = x] /\ x.run \in 0 .. runs
        /\ x.pc \in {"idle", "restore", "persist"}
        /\ x.pc = "persist" => /\ x.run = work[w].run /\ x.job = work[w].job
                             /\ outcome[x.run] = "ok"
        /\ x.pc = "idle" => ~x.manual
        /\ x.pc = "restore" => x.manual
        /\ (x.manual <=> work[w].manual)
        /\ x.manual => x.raw = work[w].raw
  BY <1>4
<1>6. JobTyped' /\ Judged' /\ RecordsTrue'
  BY <1>1, <1>2, <1>3, <1>5, MovedQuiet
<1>7. ManualSteps' /\ SavedSetting'
  BY <1>2, <1>5, MovedSwitch
<1> QED BY <1>6, <1>7 DEF JobInv

\* The record is replaced by a success, and says so if a later one was there.
LEMMA PersistStep ==
  ASSUME JobInv, NEW w \in Workers, Persist(w)
  PROVE  JobInv'
<1>1. /\ work \in [Workers -> WorkRecord] /\ work[w] \in WorkRecord
      /\ outcome \in Seq(Results) /\ Len(outcome) = runs /\ runs \in Nat
      /\ scheduleDisabled \in BOOLEAN /\ overlapped \in BOOLEAN
      /\ store \in [Jobs -> Records] /\ latest \in [Jobs -> Nat] /\ torn \subseteq Jobs
  BY DEF JobInv, JobTyped, JobControlTypeOK
<1>2. /\ work[w].pc = "persist" /\ work' = AfterRun(w)
      /\ UNCHANGED <<regVars, boot, runs, outcome, scheduleDisabled, configured, overlapped>>
  BY DEF Persist, switchVars
<1>3. /\ Active(w) /\ work[w].run \in 1 .. runs /\ work[w].job \in Jobs
      /\ outcome[work[w].run] = "ok"
  BY <1>2 DEF JobInv, Judged, Active
<1>4. PICK x \in WorkRecord :
        /\ AfterRun(w) = [work EXCEPT ![w] = x] /\ x.run \in 0 .. runs
        /\ x.pc \in {"idle", "restore"} /\ (x.pc = "restore" <=> x.manual)
        /\ (x.manual <=> work[w].manual)
        /\ x.manual => x.raw = work[w].raw
  BY <1>3, AfterRunIs
<1>5. Judged'
  BY <1>2, <1>4, MovedJudged
<1>6. ManualSteps' /\ SavedSetting'
  BY <1>2, <1>4, MovedSwitch
<1> DEFINE j == work[w].job
           r == SuccessRecord(w)
<1>7. \/ /\ store' = [store EXCEPT ![j] = r]
         /\ latest' = [latest EXCEPT ![j] = IF @ > work[w].run THEN @ ELSE work[w].run]
         /\ torn' = IF latest[j] > work[w].run THEN torn \cup {j} ELSE torn
      \/ UNCHANGED <<store, latest, torn>>
  BY DEF Persist, recordVars
<1>8. r \in Records /\ r.run = work[w].run
  <2>1. NextRuntime(j) \in Nexts
    BY DEF NextRuntime, Nexts
  <2>2. work[w].run \in 0 .. MaxRuns
    BY <1>1 DEF WorkRecord
  <2> QED BY <2>1, <2>2 DEF SuccessRecord, Records
<1>9. j \in Jobs
  BY <1>3
<1> HIDE DEF j, r
<1>10. work[w].run \in Nat /\ work[w].run # 0
  BY ONLY <1>1, <1>3
<1>11. CASE UNCHANGED <<store, latest, torn>>
  <2>1. JobTyped'
    BY <1>1, <1>2, <1>4, <1>11, MovedTyped
  <2>2. RecordsTrue'
    BY <1>1, <1>2, <1>11, RecordsKept
  <2> QED BY <1>5, <1>6, <2>1, <2>2 DEF JobInv
<1>12. CASE /\ store' = [store EXCEPT ![j] = r]
            /\ latest' = [latest EXCEPT ![j] = IF @ > work[w].run THEN @ ELSE work[w].run]
            /\ torn' = IF latest[j] > work[w].run THEN torn \cup {j} ELSE torn
  <2>1. /\ store' \in [Jobs -> Records] /\ store'[j] = r
        /\ \A k \in Jobs \ {j} : store'[k] = store[k]
    BY <1>1, <1>8, <1>9, <1>12
  <2>2. /\ latest' \in [Jobs -> Nat]
        /\ latest'[j] = IF latest[j] > work[w].run THEN latest[j] ELSE work[w].run
        /\ \A k \in Jobs \ {j} : latest'[k] = latest[k]
    BY <1>1, <1>9, <1>10, <1>12
  <2>3. /\ torn' \subseteq Jobs /\ torn \subseteq torn'
        /\ j \notin torn' => ~(latest[j] > work[w].run)
    BY <1>1, <1>9, <1>12
  <2>4. JobTyped'
    BY <1>1, <1>2, <1>4, <2>1, <2>2, <2>3, MovedTyped
  <2>5. \A n : Succeeded(n)' <=> Succeeded(n)
    BY <1>2 DEF Succeeded
  <2>6. Succeeded(r.run)
    BY <1>3, <1>8 DEF Succeeded
  <2>7. RecordsTrue'
    <3>1. \A k \in Jobs : Succeeded(store'[k].run)
      BY <2>1, <2>6 DEF JobInv, RecordsTrue
    <3>2. ASSUME NEW k \in Jobs \ torn' PROVE store'[k].run = latest'[k]
      <4>1. CASE k = j
        BY <1>8, <2>1, <2>2, <2>3, <3>2, <4>1
      <4>2. CASE k # j
        BY <2>1, <2>2, <2>3, <3>2, <4>2 DEF JobInv, RecordsTrue
      <4> QED BY <4>1, <4>2
    <3> QED BY <1>2, <2>5, <3>1, <3>2 DEF JobInv, RecordsTrue
  <2> QED BY <1>5, <1>6, <2>4, <2>7 DEF JobInv
<1> QED BY <1>7, <1>11, <1>12

\* startCron, and what a process that starts makes of the records.
LEMMA OtherSteps ==
  ASSUME JobInv,
         \/ \E j \in Jobs : StartCron(j)
         \/ \E b \in Booters :
              BootStarted(b) \/ UpsertWrite(b) \/ \E j \in Jobs : UpsertRead(b, j)
         \/ UNCHANGED jobVars
  PROVE  JobInv'
<1> DEFINE BootRecord == [pc : {"off", "read", "write", "done"}, todo : SUBSET Jobs,
                          job : Jobs \cup {Unknown}, seen : Records]
<1>1. /\ work \in [Workers -> WorkRecord] /\ runs \in Nat /\ MaxRuns \in Nat
      /\ store \in [Jobs -> Records] /\ latest \in [Jobs -> Nat] /\ torn \subseteq Jobs
      /\ boot \in [Booters -> BootRecord]
      /\ cached \in [Jobs -> [off : BOOLEAN, next : Nexts]]
      /\ reg \in [Jobs -> {"new", "off", "cron", "ticker", "refused"}]
  BY JobsAssumption DEF JobInv, JobTyped, JobControlTypeOK, JobsAssumption
<1>2. NoRecord \in Records /\ NoRecord.run = 0
  <2>1. 0 \in 0 .. MaxRuns
    BY <1>1
  <2> QED BY <2>1 DEF NoRecord, Records, Nexts
<1>3. /\ \A k \in Jobs : Succeeded(store[k].run)
      /\ \A b \in Booters : /\ Succeeded(boot[b].seen.run)
                            /\ boot[b].pc = "write" => boot[b].job \in Jobs
      /\ \A k \in Jobs \ torn : store[k].run = latest[k]
  BY DEF JobInv, RecordsTrue
<1>4. ASSUME UNCHANGED <<switchVars, runVars, schedule, latest>>,
             reg' \in [Jobs -> {"new", "off", "cron", "ticker", "refused"}],
             cached' \in [Jobs -> [off : BOOLEAN, next : Nexts]],
             store' \in [Jobs -> Records], torn' \subseteq Jobs,
             boot' \in [Booters -> BootRecord],
             RecordsTrue'
      PROVE  JobInv'
  <2>1. UNCHANGED <<scheduleDisabled, configured, overlapped, work, runs, outcome>>
    BY <1>4 DEF switchVars, runVars
  <2>2. ManualSteps' /\ SavedSetting' /\ Judged'
    BY <2>1, WorkersRest
  <2>3. JobTyped'
    BY <1>4, <2>1 DEF JobInv, JobTyped, JobControlTypeOK
  <2> QED BY <1>4, <2>2, <2>3 DEF JobInv
<1>5. ASSUME NEW j \in Jobs, StartCron(j) PROVE JobInv'
  <2>1. UNCHANGED <<switchVars, runVars, schedule, latest, store, torn, boot, runs, outcome>>
    BY <1>5 DEF StartCron, recordVars, runVars
  <2>2. /\ reg' \in [Jobs -> {"new", "off", "cron", "ticker", "refused"}]
        /\ cached' \in [Jobs -> [off : BOOLEAN, next : Nexts]]
    <3>1. \/ reg' = reg
          \/ \E s \in {"off", "cron", "ticker", "refused"} : reg' = [reg EXCEPT ![j] = s]
      BY <1>5 DEF StartCron
    <3>2. \/ cached' = cached
          \/ \E off \in BOOLEAN, next \in Nexts : CacheSchedule(j, off, next)
      BY <1>5 DEF StartCron, Nexts
    <3>3. cached' \in [Jobs -> [off : BOOLEAN, next : Nexts]]
      <4>1. ASSUME NEW off \in BOOLEAN, NEW next \in Nexts, CacheSchedule(j, off, next)
            PROVE  cached' \in [Jobs -> [off : BOOLEAN, next : Nexts]]
        <5>1. [off |-> off, next |-> next] \in [off : BOOLEAN, next : Nexts]
          OBVIOUS
        <5> QED BY <1>1, <4>1, <5>1 DEF CacheSchedule
      <4> QED BY <1>1, <3>2, <4>1
    <3> QED BY <1>1, <3>1, <3>3
  <2>3. RecordsTrue'
    BY <1>1, <2>1, RecordsKept
  <2> QED BY <1>1, <1>4, <2>1, <2>2, <2>3
<1>6. ASSUME NEW b \in Booters, BootStarted(b) PROVE JobInv'
  <2>1. UNCHANGED <<switchVars, runVars, regVars, schedule, latest, store, torn, reg, cached,
                    runs, outcome>>
    BY <1>6 DEF BootStarted, recordVars, regVars, runVars
  <2> DEFINE x == [boot[b] EXCEPT !.pc = "read", !.todo = {j \in Jobs : cached[j] # Nothing}]
  <2>2. x \in BootRecord /\ x.pc = "read" /\ x.seen = boot[b].seen
    BY <1>1, ZenonT(30)
  <2>3. boot' = [boot EXCEPT ![b] = x]
    BY <1>1, <1>6 DEF BootStarted
  <2> HIDE DEF x
  <2>4. /\ boot' \in [Booters -> BootRecord] /\ boot'[b] = x
        /\ \A a \in Booters \ {b} : boot'[a] = boot[a]
    BY <1>1, <2>2, <2>3
  <2>5. RecordsTrue'
    BY <1>3, <2>1, <2>2, <2>4 DEF RecordsTrue, Succeeded
  <2> QED BY <1>1, <1>4, <2>1, <2>4, <2>5
<1>7. ASSUME NEW b \in Booters, NEW j \in Jobs, UpsertRead(b, j) PROVE JobInv'
  <2>1. UNCHANGED <<switchVars, runVars, regVars, schedule, latest, store, torn, reg, cached,
                    runs, outcome>>
    BY <1>7 DEF UpsertRead, recordVars, regVars, runVars
  <2>2. PICK seen \in {store[j], NoRecord} :
          boot' = [boot EXCEPT ![b] = [pc |-> "write", todo |-> boot[b].todo \ {j}, job |-> j,
                                       seen |-> seen]]
    BY <1>7 DEF UpsertRead
  <2> DEFINE x == [pc |-> "write", todo |-> boot[b].todo \ {j}, job |-> j, seen |-> seen]
  <2>3. seen \in Records /\ Succeeded(seen.run)
    BY <1>1, <1>2, <1>3 DEF Succeeded
  <2>4. x \in BootRecord /\ x.job \in Jobs /\ x.seen = seen
    BY <1>1, <2>3
  <2>5. boot' = [boot EXCEPT ![b] = x]
    BY <2>2
  <2> HIDE DEF x
  <2>6. /\ boot' \in [Booters -> BootRecord] /\ boot'[b] = x
        /\ \A a \in Booters \ {b} : boot'[a] = boot[a]
    BY <1>1, <2>4, <2>5
  <2>7. RecordsTrue'
    BY <1>3, <2>1, <2>3, <2>4, <2>6 DEF RecordsTrue, Succeeded
  <2> QED BY <1>1, <1>4, <2>1, <2>6, <2>7
<1>8. ASSUME NEW b \in Booters, UpsertWrite(b) PROVE JobInv'
  <2>1. UNCHANGED <<switchVars, runVars, regVars, schedule, latest, reg, cached,
                    runs, outcome>>
    BY <1>8 DEF UpsertWrite, regVars, runVars
  <2> DEFINE x == [boot[b] EXCEPT !.pc = IF boot[b].todo = {} THEN "done" ELSE "read",
                                  !.job = Unknown, !.seen = NoRecord]
             j == boot[b].job
             r == [run |-> boot[b].seen.run, off |-> cached[j].off, next |-> cached[j].next]
  <2>2. x \in BootRecord /\ x.pc # "write" /\ x.seen = NoRecord
    BY <1>1, <1>2
  <2>3. boot' = [boot EXCEPT ![b] = x]
    BY <1>1, <1>8 DEF UpsertWrite
  <2>4. \/ /\ store' = [store EXCEPT ![j] = r]
           /\ torn' = IF store[j].run # boot[b].seen.run THEN torn \cup {j} ELSE torn
        \/ UNCHANGED <<store, torn>>
    BY <1>8 DEF UpsertWrite
  <2>5. j \in Jobs
    <3>1. boot[b].pc = "write"
      BY <1>8 DEF UpsertWrite
    <3> QED BY <1>3, <3>1, Zenon
  <2>6. r \in Records /\ r.run = boot[b].seen.run /\ Succeeded(r.run)
    <3>1. boot[b].seen.run \in 0 .. MaxRuns
      BY <1>1 DEF Records
    <3>2. cached[j] \in [off : BOOLEAN, next : Nexts]
      BY <1>1, <2>5
    <3>3. cached[j].off \in BOOLEAN /\ cached[j].next \in Nexts
      BY <3>2
    <3> HIDE DEF j
    <3>4. r \in Records
      BY <3>1, <3>3 DEF Records
    <3>5. r.run = boot[b].seen.run
      OBVIOUS
    <3>6. Succeeded(boot[b].seen.run)
      BY <1>3
    <3> HIDE DEF r
    <3> QED BY <3>4, <3>5, <3>6
  <2> HIDE DEF x, j, r
  <2>7. /\ boot' \in [Booters -> BootRecord] /\ boot'[b] = x
        /\ \A a \in Booters \ {b} : boot'[a] = boot[a]
    BY <1>1, <2>2, <2>3
  <2>8. /\ store' \in [Jobs -> Records] /\ torn' \subseteq Jobs
        /\ \A k \in Jobs : Succeeded(store'[k].run)
        /\ \A k \in Jobs \ torn' : k \notin torn /\ store'[k].run = store[k].run
    BY <1>1, <1>3, <2>4, <2>5, <2>6, ZenonT(30)
  <2>9. RecordsTrue'
    BY <1>2, <1>3, <2>1, <2>2, <2>7, <2>8 DEF RecordsTrue, Succeeded
  <2> QED BY <1>1, <1>4, <2>1, <2>7, <2>8, <2>9
<1>9. ASSUME UNCHANGED jobVars PROVE JobInv'
  <2>1. UNCHANGED <<switchVars, runVars, schedule, latest, reg, cached, store, torn, boot,
                    runs, outcome>>
    BY <1>9 DEF jobVars, switchVars, runVars
  <2>2. RecordsTrue'
    BY <1>1, <2>1, RecordsKept
  <2> QED BY <1>1, <1>4, <2>1, <2>2
<1> QED BY <1>5, <1>6, <1>7, <1>8, <1>9

LEMMA JobStep == JobInv /\ [JobControlNext]_jobVars => JobInv'
<1> SUFFICES ASSUME JobInv, [JobControlNext]_jobVars PROVE JobInv'
  OBVIOUS
<1>1. ASSUME NEW w \in Workers, WorkerNext(w) PROVE JobInv'
  BY <1>1, BeginStep, SwitchStep, AttemptStep, PushStep, PersistStep DEF WorkerNext
<1> QED BY <1>1, OtherSteps DEF JobControlNext

LEMMA JobAlways == JobControlSpec => []JobInv
BY JobInit, JobStep, PTL DEF JobControlSpec

\* Registration, runs and records keep to the values the code gives them, for any jobs,
\* workers and starting processes.
THEOREM JobControlTypeCorrect == JobControlSpec => []JobControlTypeOK
<1>1. JobInv => JobControlTypeOK
  BY DEF JobInv, JobTyped
<1> QED BY <1>1, JobAlways, PTL

\* A manual run restores the schedule switch, whatever becomes of it, as long as no other
\* overlaps it (Run, cron.go).
THEOREM SwitchIsRestored == JobControlSpec => []SwitchRestored
<1>1. JobInv => SwitchRestored
  BY DEF JobInv, SavedSetting, SwitchRestored
<1> QED BY <1>1, JobAlways, PTL

\* The record of a job tells of a run that succeeded and, the named races aside, of the
\* latest one stored, however many runs, retries and starting processes there are.
THEOREM HistoryIsTrue == JobControlSpec => []HistoryTrue
<1>1. JobInv => HistoryTrue
  BY DEF JobInv, RecordsTrue, Succeeded, HistoryTrue
<1> QED BY <1>1, JobAlways, PTL

-----------------------------------------------------------------------------
(* Subscriptions                                                           *)

Calls == [pc : {"idle", "subscribe", "done"}, topic : Topics \cup {NoTopic},
          ret : {"none", "nil", "error"}]

\* The types the argument needs.
SubTyped ==
  /\ subs \in [Topics -> Callers \cup {NoHandler}] /\ onConnect \in Nat
  /\ resub \subseteq Topics \X Callers /\ subCall \in [Callers -> Calls]
  /\ route \in [Topics -> Callers \cup {NoHandler}]
  /\ broker \subseteq Topics /\ failed \subseteq Topics

\* A topic somebody asked for is delivered, has failed, or is being attended to.
Attended ==
  \A t \in Topics : up /\ subs[t] # NoHandler => Underway(t) \/ t \in broker \/ t \in failed

\* What is about to be subscribed, or is routed, is what was recorded first.
RecordedFirst ==
  /\ \A t \in Topics : route[t] \in {NoHandler, subs[t]}
  /\ \A t \in Topics, h \in Callers : <<t, h>> \in resub => subs[t] = h

\* Who has called Sub for a topic finds it recorded.
CallersRecorded ==
  \A c \in Callers :
    /\ subCall[c].pc = "idle" => subCall[c].ret = "none"
    /\ subCall[c].pc # "idle" =>
         subCall[c].topic \in Topics /\ subs[subCall[c].topic] # NoHandler

SubInv == SubTyped /\ Attended /\ RecordedFirst /\ CallersRecorded

LEMMA SubInit == SubscriptionsInit => SubInv
<1> SUFFICES ASSUME SubscriptionsInit PROVE SubInv
  OBVIOUS
<1>1. SubTyped
  <2>1. onConnect \in Nat /\ resub = {}
    BY DEF SubscriptionsInit
  <2> QED BY <2>1 DEF SubscriptionsInit, SubTyped, Calls
<1>2. \A t \in Topics : subs[t] = NoHandler /\ route[t] = NoHandler
  BY DEF SubscriptionsInit
<1>3. \A c \in Callers : subCall[c].pc = "idle" /\ subCall[c].ret = "none"
  BY DEF SubscriptionsInit
<1>4. resub = {}
  BY DEF SubscriptionsInit
<1> QED BY <1>1, <1>2, <1>3, <1>4 DEF SubInv, Attended, RecordedFirst, CallersRecorded

\* What a request to the broker does: on a live connection it is delivered or has failed.
LEMMA Requested ==
  ASSUME SubTyped, NEW t \in Topics, NEW h \in Callers, Subscribe(t, h)
  PROVE  /\ broker \subseteq broker' /\ failed \subseteq failed'
         /\ broker' \subseteq Topics /\ failed' \subseteq Topics
         /\ up => t \in broker' \/ t \in failed'
         /\ route' \in [Topics -> Callers \cup {NoHandler}]
         /\ \A s \in Topics : route'[s] = route[s] \/ (s = t /\ route'[s] = h)
<1>1. CASE up
  <2>1. route' = [route EXCEPT ![t] = h]
    BY <1>1 DEF Subscribe
  <2>2. \/ broker' = broker \cup {t} /\ failed' = failed
        \/ \E late \in {{}, {t}} : broker' = broker \cup late /\ failed' = failed \cup {t}
    BY <1>1 DEF Subscribe
  <2>3. /\ broker \subseteq broker' /\ failed \subseteq failed'
        /\ broker' \subseteq Topics /\ failed' \subseteq Topics
        /\ t \in broker' \/ t \in failed'
    BY <2>2 DEF SubTyped
  <2>4. /\ route' \in [Topics -> Callers \cup {NoHandler}]
        /\ \A s \in Topics : route'[s] = IF s = t THEN h ELSE route[s]
    BY <2>1 DEF SubTyped
  <2> QED BY <2>3, <2>4
<1>2. CASE ~up
  <2>1. broker' = broker /\ route' = route /\ failed' = failed
    BY <1>2 DEF Subscribe
  <2> QED BY <1>2, <2>1 DEF SubTyped
<1> QED BY <1>1, <1>2

LEMMA BeginSubKeeps ==
  ASSUME SubInv, NEW c \in Callers, NEW t \in Topics, BeginSub(c, t)
  PROVE  SubInv'
<1>1. SubTyped /\ subCall[c].pc = "idle" /\ NoHandler \notin Callers
      /\ UNCHANGED <<up, conns, stopping, onConnect, resub, broker, route, failed>>
  BY SubscriptionsAssumption DEF SubInv, BeginSub, SubscriptionsAssumption
<1>2. ASSUME NEW x \in Calls, subCall' = [subCall EXCEPT ![c] = x],
             x.pc # "idle" /\ x.topic = t,
             \/ subs' = subs /\ subs[t] # NoHandler
             \/ subs' = [subs EXCEPT ![t] = c] /\ subs[t] = NoHandler /\ x.pc = "subscribe"
      PROVE  SubInv'
  <2>1. /\ subCall' \in [Callers -> Calls]
        /\ subCall'[c] = x /\ \A d \in Callers \ {c} : subCall'[d] = subCall[d]
    BY <1>1, <1>2 DEF SubTyped
  <2>2. /\ subs' \in [Topics -> Callers \cup {NoHandler}] /\ subs'[t] # NoHandler
        /\ \A s \in Topics : subs[s] # NoHandler => subs'[s] = subs[s]
        /\ \A s \in Topics \ {t} : subs'[s] = subs[s]
        /\ subs[t] = NoHandler => x.pc = "subscribe"
    BY <1>1, <1>2 DEF SubTyped
  <2>3. SubTyped'
    BY <1>1, <2>1, <2>2 DEF SubTyped
  <2>4. \A s \in Topics : Underway(s) => Underway(s)'
    BY <1>1, <2>1 DEF Underway
  <2>5. x.pc = "subscribe" => Underway(t)'
    BY <1>2, <2>1 DEF Underway
  <2>6. Attended'
    <3>1. ASSUME NEW s \in Topics, up', subs'[s] # NoHandler
          PROVE  Underway(s)' \/ s \in broker' \/ s \in failed'
      <4>1. CASE subs[s] # NoHandler
        BY <1>1, <2>4, <3>1, <4>1 DEF SubInv, Attended
      <4>2. CASE subs[s] = NoHandler
        BY <2>2, <2>5, <3>1, <4>2
      <4> QED BY <4>1, <4>2
    <3> QED BY <3>1 DEF Attended
  <2>7. RecordedFirst'
    <3>1. \A s \in Topics, h \in Callers : <<s, h>> \in resub => subs[s] = h
      BY DEF SubInv, RecordedFirst
    <3>2. \A s \in Topics : route[s] \in {NoHandler, subs[s]}
      BY DEF SubInv, RecordedFirst
    <3>3. \A s \in Topics : route'[s] \in {NoHandler, subs'[s]}
      BY <1>1, <2>2, <3>2
    <3>4. \A s \in Topics, h \in Callers : <<s, h>> \in resub' => subs'[s] = h
      BY <1>1, <2>2, <3>1
    <3> QED BY <3>3, <3>4 DEF RecordedFirst
  <2>8. CallersRecorded'
    <3>1. ASSUME NEW d \in Callers
          PROVE  /\ subCall'[d].pc = "idle" => subCall'[d].ret = "none"
                 /\ subCall'[d].pc # "idle" =>
                      subCall'[d].topic \in Topics /\ subs'[subCall'[d].topic] # NoHandler
      <4>1. CASE d = c
        BY <1>2, <2>1, <2>2, <4>1
      <4>2. CASE d # c
        BY <2>1, <2>2, <4>2 DEF SubInv, CallersRecorded
      <4> QED BY <4>1, <4>2
    <3> QED BY <3>1 DEF CallersRecorded
  <2> QED BY <2>3, <2>6, <2>7, <2>8 DEF SubInv
<1>3. CASE subs[t] # NoHandler
  <2> DEFINE x == [pc |-> "done", topic |-> t, ret |-> "nil"]
  <2>1. x \in Calls /\ x.pc # "idle" /\ x.topic = t
    BY DEF Calls
  <2>2. subCall' = [subCall EXCEPT ![c] = x] /\ subs' = subs
    BY <1>3 DEF BeginSub
  <2> HIDE DEF x
  <2> QED BY <1>2, <1>3, <2>1, <2>2
<1>4. CASE subs[t] = NoHandler
  <2> DEFINE x == [pc |-> "subscribe", topic |-> t, ret |-> "none"]
  <2>1. x \in Calls /\ x.pc = "subscribe" /\ x.topic = t
    BY DEF Calls
  <2>2. subCall' = [subCall EXCEPT ![c] = x] /\ subs' = [subs EXCEPT ![t] = c]
    BY <1>4 DEF BeginSub
  <2> HIDE DEF x
  <2> QED BY <1>2, <1>4, <2>1, <2>2
<1> QED BY <1>3, <1>4

LEMMA SubSubscribeKeeps ==
  ASSUME SubInv, NEW c \in Callers, SubSubscribe(c)
  PROVE  SubInv'
<1>1. /\ SubTyped /\ subCall[c].pc = "subscribe"
      /\ UNCHANGED <<up, conns, stopping, subs, onConnect, resub>>
  BY DEF SubInv, SubSubscribe
<1> DEFINE t == subCall[c].topic
<1>2. subCall[c] \in Calls /\ t \in Topics /\ subs[t] \in Callers /\ subs[t] # NoHandler
  <2>1. t \in Topics /\ subs[t] # NoHandler
    BY <1>1 DEF SubInv, CallersRecorded
  <2> QED BY <1>1, <2>1 DEF SubTyped
<1>3. Subscribe(t, subs[t])
  BY DEF SubSubscribe
<1>4. PICK ret \in Answer(t) : subCall' = [subCall EXCEPT ![c].pc = "done", ![c].ret = ret]
  BY DEF SubSubscribe
<1> DEFINE x == [subCall[c] EXCEPT !.pc = "done", !.ret = ret]
<1>5. ret \in {"none", "nil", "error"}
  BY DEF Answer
<1>6. x \in Calls /\ x.pc = "done" /\ x.topic = t
  BY <1>2, <1>5 DEF Calls
<1>7. subCall' = [subCall EXCEPT ![c] = x]
  BY <1>1, <1>4 DEF SubTyped
<1> HIDE DEF t, x
<1>8. /\ broker \subseteq broker' /\ failed \subseteq failed'
      /\ broker' \subseteq Topics /\ failed' \subseteq Topics
      /\ up => t \in broker' \/ t \in failed'
      /\ route' \in [Topics -> Callers \cup {NoHandler}]
      /\ \A s \in Topics : route'[s] = route[s] \/ (s = t /\ route'[s] = subs[t])
  BY <1>1, <1>2, <1>3, Requested
<1>9. /\ subCall' \in [Callers -> Calls]
      /\ subCall'[c] = x /\ \A d \in Callers \ {c} : subCall'[d] = subCall[d]
  BY <1>1, <1>6, <1>7 DEF SubTyped
<1>10. SubTyped'
  BY <1>1, <1>8, <1>9 DEF SubTyped
<1>11. \A s \in Topics \ {t} : Underway(s) => Underway(s)'
  BY <1>1, <1>9 DEF Underway, t
<1>12. Attended'
  BY <1>1, <1>8, <1>11 DEF SubInv, Attended
<1>13. RecordedFirst'
  BY <1>1, <1>8 DEF SubInv, RecordedFirst
<1>14. CallersRecorded'
  <2>1. ASSUME NEW d \in Callers
        PROVE  /\ subCall'[d].pc = "idle" => subCall'[d].ret = "none"
               /\ subCall'[d].pc # "idle" =>
                    subCall'[d].topic \in Topics /\ subs'[subCall'[d].topic] # NoHandler
    <3>1. CASE d = c
      BY <1>1, <1>2, <1>6, <1>9, <3>1
    <3>2. CASE d # c
      BY <1>1, <1>9, <3>2 DEF SubInv, CallersRecorded
    <3> QED BY <3>1, <3>2
  <2> QED BY <2>1 DEF CallersRecorded
<1> QED BY <1>10, <1>12, <1>13, <1>14 DEF SubInv

LEMMA ConnectionKeeps ==
  ASSUME SubInv, ConnectionLost \/ Reconnect \/ Disconnect \/ OnConnect \/ UNCHANGED subVars
  PROVE  SubInv'
<1>1. SubTyped
  BY DEF SubInv
<1>2. CASE ConnectionLost \/ Disconnect
  <2>1. /\ up' = FALSE /\ broker' = {} /\ failed' = {}
        /\ UNCHANGED <<subs, onConnect, resub, subCall, route>>
    BY <1>2 DEF ConnectionLost, Disconnect
  <2>2. SubTyped' /\ RecordedFirst' /\ CallersRecorded'
    BY <1>1, <2>1 DEF SubInv, SubTyped, RecordedFirst, CallersRecorded
  <2> QED BY <2>1, <2>2 DEF SubInv, Attended
<1>3. CASE Reconnect
  <2>1. onConnect' = onConnect + 1 /\ UNCHANGED <<subs, resub, subCall, broker, route, failed>>
    BY <1>3 DEF Reconnect
  <2>2. onConnect' \in Nat /\ onConnect' > 0
    BY <1>1, <2>1 DEF SubTyped
  <2>3. SubTyped' /\ RecordedFirst' /\ CallersRecorded'
    BY <1>1, <2>1, <2>2 DEF SubInv, SubTyped, RecordedFirst, CallersRecorded
  <2>4. Attended'
    BY <2>2 DEF Attended, Underway
  <2> QED BY <2>3, <2>4 DEF SubInv
<1>4. CASE OnConnect
  <2>1. /\ onConnect > 0 /\ onConnect' = onConnect - 1
        /\ resub' = resub \cup {<<t, subs[t]>> : t \in {u \in Topics : subs[u] # NoHandler}}
        /\ UNCHANGED <<up, subs, subCall, broker, route, failed>>
    BY <1>4 DEF OnConnect
  <2>2. onConnect' \in Nat
    BY <1>1, <2>1 DEF SubTyped
  <2>3. \A t \in Topics : subs[t] # NoHandler => subs[t] \in Callers /\ <<t, subs[t]>> \in resub'
    BY <1>1, <2>1 DEF SubTyped
  <2>4. resub' \subseteq Topics \X Callers
    BY <1>1, <2>1, <2>3 DEF SubTyped
  <2>5. SubTyped' /\ CallersRecorded'
    BY <1>1, <2>1, <2>2, <2>4 DEF SubInv, SubTyped, CallersRecorded
  <2>6. RecordedFirst'
    BY <2>1 DEF SubInv, RecordedFirst
  <2>7. Attended'
    BY <2>1, <2>3 DEF Attended, Underway
  <2> QED BY <2>5, <2>6, <2>7 DEF SubInv
<1>5. CASE UNCHANGED subVars
  BY <1>5 DEF subVars, SubInv, SubTyped, Attended, Underway, RecordedFirst, CallersRecorded
<1> QED BY <1>2, <1>3, <1>4, <1>5

LEMMA ResubscribeKeeps ==
  ASSUME SubInv, NEW t \in Topics, NEW h \in Callers, Resubscribe(t, h)
  PROVE  SubInv'
<1>1. /\ SubTyped /\ <<t, h>> \in resub /\ resub' = resub \ {<<t, h>>} /\ Subscribe(t, h)
      /\ UNCHANGED <<up, subs, onConnect, subCall>>
  BY DEF SubInv, Resubscribe
<1>2. /\ broker \subseteq broker' /\ failed \subseteq failed'
      /\ broker' \subseteq Topics /\ failed' \subseteq Topics
      /\ up => t \in broker' \/ t \in failed'
      /\ route' \in [Topics -> Callers \cup {NoHandler}]
      /\ \A s \in Topics : route'[s] = route[s] \/ (s = t /\ route'[s] = h)
  BY <1>1, Requested
<1>3. subs[t] = h
  BY <1>1 DEF SubInv, RecordedFirst
<1>4. SubTyped' /\ CallersRecorded'
  BY <1>1, <1>2 DEF SubInv, SubTyped, CallersRecorded
<1>5. RecordedFirst'
  BY <1>1, <1>2, <1>3 DEF SubInv, RecordedFirst
<1>6. \A s \in Topics \ {t} : Underway(s) => Underway(s)'
  BY <1>1 DEF Underway
<1>7. Attended'
  BY <1>1, <1>2, <1>6 DEF SubInv, Attended
<1> QED BY <1>4, <1>5, <1>7 DEF SubInv

LEMMA SubStep == SubInv /\ [SubscriptionsNext]_subVars => SubInv'
BY BeginSubKeeps, SubSubscribeKeeps, ConnectionKeeps, ResubscribeKeeps DEF SubscriptionsNext

\* The broker delivers what somebody asked for, unless an attempt is under way or failed
\* on this connection, and the handler recorded first is the one called, for any topics,
\* callers and connections (Sub and OnConnect, mqtt.go).
THEOREM TopicsResubscribed == SubscriptionsSpec => []Resubscribed
<1>1. SubInv => Resubscribed
  BY DEF SubInv, SubTyped, Calls, Attended, RecordedFirst, CallersRecorded, Resubscribed
<1> QED BY <1>1, SubInit, SubStep, PTL DEF SubscriptionsSpec

-----------------------------------------------------------------------------
(* Shutdown                                                                *)

Ordered ==
  /\ order \in Seq(Handlers)
  /\ \A i, j \in 1 .. Len(order) : i # j => order[i] # order[j]

LineTyped ==
  /\ Ordered /\ at \in Nat \ {0} /\ clock \in Nat
  /\ line \in [open : BOOLEAN, sender : {"idle", "sending"}, writer : {"ready", "busy", "ended"}]
  /\ sent \in Nat /\ written \in Nat /\ swallowed \in Nat /\ unwritten \in Nat

\* EventStopping has come to the handler of AppendToFile.
FileBegun ==
  \E i \in 1 .. Len(order) :
    order[i] = "file" /\ (i < at \/ (i = at /\ until # Pending))

\* The handler runs once, so that it takes a message or closes, never both.
LineInv ==
  /\ LineTyped /\ LinesKept
  /\ swallowed = 1 \/ ~line.open => FileBegun

\* A set that is put in order has each of its elements once.
LEMMA InOrder == order \in SetToSeqs(Handlers) => Ordered
<1> SUFFICES ASSUME order \in SetToSeqs(Handlers) PROVE Ordered
  OBVIOUS
<1> DEFINE n == Cardinality(Handlers)
<1>1. n \in Nat
  BY ShutdownAssumption, FS_CardinalityType DEF ShutdownAssumption
<1>2. /\ order \in [1 .. n -> Handlers]
      /\ \A i, j \in 1 .. n : i # j => order[i] # order[j]
  BY DEF SetToSeqs
<1> HIDE DEF n
<1>3. order \in Seq(Handlers) /\ Len(order) = n
  BY <1>1, <1>2
<1> QED BY <1>2, <1>3 DEF Ordered

LEMMA LineInit == ShutdownInit => LineInv
<1> SUFFICES ASSUME ShutdownInit PROVE LineInv
  OBVIOUS
<1>1. LineTyped
  BY InOrder DEF ShutdownInit, LineTyped
<1>2. line.open /\ line.writer = "ready" /\ sent = 0 /\ written = 0 /\ swallowed = 0
      /\ unwritten = 0
  BY DEF ShutdownInit
<1> QED BY <1>1, <1>2 DEF LineInv, LinesKept

\* EventStopping only moves on.
LEMMA BusKeeps ==
  ASSUME LineInv, UNCHANGED <<order, fileVars>>, clock' \in Nat,
         \/ at' = at /\ (until # Pending => until' # Pending)
         \/ at' = at + 1
  PROVE  LineInv'
<1>1. UNCHANGED <<order, line, sent, written, swallowed, unwritten>>
  BY DEF fileVars
<1>2. at \in Nat \ {0} /\ at' \in Nat \ {0}
  BY DEF LineInv, LineTyped
<1>3. LineTyped' /\ LinesKept'
  BY <1>1, <1>2 DEF LineInv, LineTyped, Ordered, LinesKept
<1>4. Len(order) \in Nat
  BY DEF LineInv, LineTyped, Ordered
<1>5. FileBegun => FileBegun'
  <2> SUFFICES ASSUME NEW i \in 1 .. Len(order), order[i] = "file",
                      i < at \/ (i = at /\ until # Pending)
               PROVE  i < at' \/ (i = at' /\ until' # Pending)
    BY <1>1 DEF FileBegun
  <2> QED BY <1>2, <1>4
<1> QED BY <1>1, <1>3, <1>5 DEF LineInv

LEMMA BeginHandlerKeeps ==
  ASSUME LineInv, BeginHandler
  PROVE  LineInv'
<1>1. /\ until = Pending /\ until' = clock + Lasts[order[at]] /\ at <= Len(order)
      /\ UNCHANGED <<order, clock, at>>
  BY DEF BeginHandler, Publishing, Handler
<1>2. /\ Ordered /\ at \in Nat \ {0} /\ clock \in Nat /\ order \in Seq(Handlers)
      /\ line \in [open : BOOLEAN, sender : {"idle", "sending"},
                   writer : {"ready", "busy", "ended"}]
      /\ sent \in Nat /\ written \in Nat /\ swallowed \in Nat /\ unwritten \in Nat
  BY DEF LineInv, LineTyped, Ordered
<1>3. Len(order) \in Nat /\ at \in 1 .. Len(order)
  BY <1>1, <1>2
<1>4. until' # Pending
  <2>1. order[at] \in Handlers
    BY <1>2, <1>3, ElementOfSeq, Zenon
  <2>2. Lasts[order[at]] \in Nat
    BY <2>1, ShutdownAssumption DEF ShutdownAssumption
  <2> QED BY <1>1, <1>2, <2>2 DEF Pending
<1>5. CASE UNCHANGED fileVars
  BY <1>1, <1>2, <1>4, <1>5, BusKeeps
<1>6. CASE order[at] = "file" /\ line.open
  <2>1. FileBegun'
    BY <1>1, <1>3, <1>4, <1>6 DEF FileBegun
  <2>2. ~FileBegun
    <3>1. ASSUME NEW i \in 1 .. Len(order), order[i] = "file",
                 i < at \/ (i = at /\ until # Pending)
          PROVE  FALSE
      BY <1>1, <1>2, <1>3, <1>6, <3>1 DEF Ordered
    <3> QED BY <3>1 DEF FileBegun
  <2>3. swallowed = 0
    BY <1>2, <2>2 DEF LineInv, LinesKept
  <2>4. sent = written + unwritten + swallowed + (IF line.writer = "busy" THEN 1 ELSE 0)
    BY DEF LineInv, LinesKept
  <2>5. ASSUME line' = [line EXCEPT !.sender = "idle"], sent' = sent + 1,
               swallowed' = swallowed + 1, UNCHANGED <<written, unwritten>>
        PROVE  LineInv'
    <3>1. /\ line' \in [open : BOOLEAN, sender : {"idle", "sending"},
                        writer : {"ready", "busy", "ended"}]
          /\ line'.open = line.open /\ line'.writer = line.writer
      BY <1>2, <2>5
    <3>2. sent' \in Nat /\ swallowed' \in Nat
      BY <1>2, <2>5
    <3>3. LineTyped'
      BY <1>1, <1>2, <2>5, <3>1, <3>2 DEF LineTyped, Ordered
    <3>4. sent' = written' + unwritten' + swallowed'
                  + (IF line'.writer = "busy" THEN 1 ELSE 0)
      BY <1>2, <2>4, <2>5, <3>1
    <3>5. swallowed' <= 1 /\ line'.open
      BY <1>6, <2>3, <2>5, <3>1
    <3> QED BY <2>1, <3>3, <3>4, <3>5 DEF LineInv, LinesKept
  <2>6. ASSUME line' = [line EXCEPT !.open = FALSE],
               UNCHANGED <<sent, written, swallowed, unwritten>>
        PROVE  LineInv'
    <3>1. /\ line' \in [open : BOOLEAN, sender : {"idle", "sending"},
                        writer : {"ready", "busy", "ended"}]
          /\ line'.writer = line.writer
      BY <1>2, <2>6
    <3>2. LineTyped'
      BY <1>1, <1>2, <2>6, <3>1 DEF LineTyped, Ordered
    <3>3. LinesKept'
      BY <2>3, <2>4, <2>6, <3>1 DEF LinesKept
    <3> QED BY <2>1, <3>2, <3>3 DEF LineInv
  <2> QED BY <1>6, <2>5, <2>6 DEF BeginHandler, Handler
<1> QED BY <1>2, <1>5, <1>6 DEF BeginHandler, Handler

\* The goroutine of the file and its senders.
LEMMA FileKeeps ==
  ASSUME LineInv, SendLine \/ TakeLine \/ WriteLine \/ WriterEndsFile
  PROVE  LineInv'
<1>1. /\ line \in [open : BOOLEAN, sender : {"idle", "sending"},
                   writer : {"ready", "busy", "ended"}]
      /\ sent \in Nat /\ written \in Nat /\ swallowed \in Nat /\ unwritten \in Nat
      /\ Ordered /\ at \in Nat \ {0} /\ clock \in Nat
      /\ sent = written + unwritten + swallowed + (IF line.writer = "busy" THEN 1 ELSE 0)
      /\ swallowed <= 1 /\ (swallowed = 1 => line.open)
      /\ swallowed = 1 \/ ~line.open => FileBegun
  BY DEF LineInv, LineTyped, LinesKept
<1>2. UNCHANGED <<order, at, until, clock, swallowed>>
  BY DEF SendLine, TakeLine, WriteLine, WriterEndsFile, busVars
<1>3. /\ line' \in [open : BOOLEAN, sender : {"idle", "sending"},
                    writer : {"ready", "busy", "ended"}]
      /\ line'.open = line.open
  BY <1>1 DEF SendLine, TakeLine, WriteLine, WriterEndsFile
<1>4. /\ sent' \in Nat /\ written' \in Nat /\ unwritten' \in Nat
      /\ sent' = written' + unwritten' + swallowed + (IF line'.writer = "busy" THEN 1 ELSE 0)
  <2>1. CASE SendLine
    <3>1. line'.writer = line.writer /\ UNCHANGED <<sent, written, unwritten>>
      BY <1>1, <2>1 DEF SendLine
    <3> QED BY <1>1, <3>1
  <2>2. CASE TakeLine
    <3>1. line.writer = "ready" /\ line'.writer = "busy" /\ sent' = sent + 1
          /\ UNCHANGED <<written, unwritten>>
      BY <1>1, <2>2 DEF TakeLine
    <3> QED BY <1>1, <3>1
  <2>3. CASE WriteLine
    <3>1. /\ line.writer = "busy" /\ line'.writer = "ready" /\ sent' = sent
          /\ \/ written' = written + 1 /\ unwritten' = unwritten
             \/ unwritten' = unwritten + 1 /\ written' = written
      BY <1>1, <2>3 DEF WriteLine
    <3> QED BY <1>1, <3>1
  <2>4. CASE WriterEndsFile
    <3>1. line.writer = "ready" /\ line'.writer = "ended"
          /\ UNCHANGED <<sent, written, unwritten>>
      BY <1>1, <2>4 DEF WriterEndsFile
    <3> QED BY <1>1, <3>1
  <2> QED BY <2>1, <2>2, <2>3, <2>4
<1>5. LineTyped'
  BY <1>1, <1>2, <1>3, <1>4 DEF LineTyped, Ordered
<1>6. LinesKept'
  BY <1>1, <1>2, <1>3, <1>4 DEF LinesKept
<1>7. FileBegun => FileBegun'
  BY <1>2 DEF FileBegun
<1> QED BY <1>1, <1>2, <1>3, <1>5, <1>6, <1>7 DEF LineInv

LEMMA LineStep == LineInv /\ [ShutdownNext]_shutdownVars => LineInv'
<1> SUFFICES ASSUME LineInv, [ShutdownNext]_shutdownVars PROVE LineInv'
  OBVIOUS
<1>1. clock \in Nat
  BY DEF LineInv, LineTyped
<1>2. CASE Signal \/ HandlersOrGrace \/ Leave \/ RequestEnds \/ LinePanics
  <2>1. UNCHANGED <<order, fileVars, clock, at, until>>
    BY <1>2 DEF Signal, HandlersOrGrace, Leave, RequestEnds, LinePanics
  <2> QED BY <1>1, <2>1, BusKeeps
<1>3. CASE EndHandler
  <2>1. UNCHANGED <<order, fileVars, clock>> /\ (at' = at + 1 \/ UNCHANGED <<at, until>>)
    BY <1>3 DEF EndHandler
  <2> QED BY <1>1, <2>1, BusKeeps
<1>4. CASE Tick
  <2>1. UNCHANGED <<order, fileVars, at, until>> /\ clock' = clock + 1
    BY <1>4 DEF Tick
  <2> QED BY <1>1, <2>1, BusKeeps
<1>5. CASE UNCHANGED shutdownVars
  <2>1. UNCHANGED <<order, fileVars, clock, at, until>>
    BY <1>5 DEF shutdownVars, fileVars
  <2> QED BY <1>1, <2>1, BusKeeps
<1> QED BY <1>2, <1>3, <1>4, <1>5, BeginHandlerKeeps, FileKeeps DEF ShutdownNext

\* Every message the file's channel has taken is accounted for, but for the one its own
\* handler may take, and then the channel stays open (fileAppender.go).
THEOREM LinesAreKept == ShutdownSpec => []LinesKept
<1>1. LineInv => LinesKept
  BY DEF LineInv
<1> QED BY <1>1, LineInit, LineStep, PTL DEF ShutdownSpec

-----------------------------------------------------------------------------
(* Shutdown: the time the handlers take                                    *)

\* A set of numbers that is not empty has a least one: what holds at first and passes
\* from each number to the next is shown by the least one it does not hold for.
LEMMA LeastNumber ==
  ASSUME NEW T, T \subseteq Nat, T # {}
  PROVE  \E m \in T : \A k \in T : m <= k
<1> DEFINE less == {ss \in Nat \X Nat : ss[1] < ss[2]}
<1>1. IsWellFoundedOn(less, Nat)
  BY NatLessThanWellFounded DEF OpToRel
<1>2. PICK m \in T : \A k \in T : ~(<<k, m>> \in less)
  <2> HIDE DEF less
  <2> QED BY <1>1, WFMin
<1>3. \A k \in T : ~(k < m)
  BY <1>2
<1> QED BY <1>3

\* Partial sums exist, and do not fall.
LEMMA PartialSums ==
  ASSUME NEW n \in Nat, NEW w \in [1 .. n -> Nat]
  PROVE  \E f : f = [k \in 0 .. n |-> IF k = 0 THEN 0 ELSE f[k - 1] + w[k]]
<1> DEFINE Sums(m) == \E f : f = [k \in 0 .. m |-> IF k = 0 THEN 0 ELSE f[k - 1] + w[k]]
           T == {m \in 0 .. n : ~Sums(m)}
<1>1. T = {} => Sums(n)
  <2>1. n \in 0 .. n
    OBVIOUS
  <2> HIDE DEF Sums
  <2> QED BY <2>1
<1> SUFFICES ASSUME T # {} PROVE FALSE
  BY <1>1
<1>2. PICK m \in T : \A j \in T : m <= j
  <2>1. T \subseteq Nat
    OBVIOUS
  <2> HIDE DEF T
  <2> QED BY <2>1, LeastNumber
<1>3. CASE m = 0
  <2> DEFINE f == [k \in 0 .. 0 |-> 0]
  <2>1. f = [k \in 0 .. 0 |-> IF k = 0 THEN 0 ELSE f[k - 1] + w[k]]
    OBVIOUS
  <2>2. Sums(0)
    BY <2>1
  <2> QED BY <1>3, <2>2
<1>4. CASE m # 0
  <2>1. m \in Nat /\ m - 1 \in 0 .. n /\ m - 1 \notin T
    <3>1. m \in Nat /\ m - 1 \in 0 .. n
      BY <1>4
    <3>2. ~(m <= m - 1)
      BY <3>1
    <3> QED BY <1>2, <3>1, <3>2
  <2>2. PICK g : g = [k \in 0 .. m - 1 |-> IF k = 0 THEN 0 ELSE g[k - 1] + w[k]]
    BY <2>1
  <2> DEFINE f == [k \in 0 .. m |-> IF k = m THEN g[m - 1] + w[m] ELSE g[k]]
  <2>3. \A k \in 0 .. m : f[k] = IF k = 0 THEN 0 ELSE f[k - 1] + w[k]
    <3> SUFFICES ASSUME NEW k \in 0 .. m
                 PROVE  f[k] = IF k = 0 THEN 0 ELSE f[k - 1] + w[k]
      OBVIOUS
    <3>1. CASE k = m
      <4>1. m - 1 \in 0 .. m /\ m - 1 # m
        BY <1>4, <2>1
      <4>2. f[m] = g[m - 1] + w[m] /\ f[m - 1] = g[m - 1]
        BY <2>1, <4>1
      <4> HIDE DEF f
      <4> QED BY <1>4, <3>1, <4>2
    <3>2. CASE k # m
      <4>1. k \in 0 .. m - 1
        BY <2>1, <3>2
      <4>2. f[k] = g[k] /\ g[k] = IF k = 0 THEN 0 ELSE g[k - 1] + w[k]
        BY <2>2, <3>2, <4>1
      <4>3. k # 0 => k - 1 \in 0 .. m /\ k - 1 # m /\ f[k - 1] = g[k - 1]
        BY <2>1, <4>1
      <4> HIDE DEF f
      <4> QED BY <4>2, <4>3
    <3> QED BY <3>1, <3>2
  <2>4. f = [k \in 0 .. m |-> f[k]]
    OBVIOUS
  <2> HIDE DEF f
  <2>5. f = [k \in 0 .. m |-> IF k = 0 THEN 0 ELSE f[k - 1] + w[k]]
    BY <2>3, <2>4
  <2>6. Sums(m)
    BY <2>5
  <2> QED BY <2>6
<1> QED BY <1>3, <1>4

LEMMA SumsGrow ==
  ASSUME NEW n \in Nat, NEW w \in [1 .. n -> Nat], NEW f,
         f = [k \in 0 .. n |-> IF k = 0 THEN 0 ELSE f[k - 1] + w[k]]
  PROVE  \A k \in 0 .. n : /\ f[k] \in Nat
                           /\ \A j \in 0 .. k : f[j] <= f[k]
<1> DEFINE Good(k) == f[k] \in Nat /\ \A j \in 0 .. k : f[j] <= f[k]
           T == {k \in 0 .. n : ~Good(k)}
<1>1. T = {} => \A k \in 0 .. n : Good(k)
  OBVIOUS
<1> SUFFICES ASSUME T # {} PROVE FALSE
  BY <1>1
<1>2. PICK m \in T : \A j \in T : m <= j
  <2>1. T \subseteq Nat
    OBVIOUS
  <2> HIDE DEF T
  <2> QED BY <2>1, LeastNumber
<1>3. m \in 0 .. n /\ ~Good(m)
  OBVIOUS
<1>4. \A k \in 0 .. n : f[k] = IF k = 0 THEN 0 ELSE f[k - 1] + w[k]
  OBVIOUS
<1>5. m # 0
  <2>1. f[0] = 0
    BY <1>4
  <2>2. Good(0)
    BY <2>1
  <2> QED BY <1>3, <2>2
<1>6. m - 1 \in 0 .. n /\ m \in 1 .. n
  BY <1>3, <1>5
<1>7. Good(m - 1)
  <2>1. ~(m <= m - 1)
    BY <1>3
  <2> QED BY <1>2, <1>6, <2>1
<1>8. f[m] = f[m - 1] + w[m] /\ w[m] \in Nat
  BY <1>4, <1>5, <1>6
<1>9. f[m] \in Nat /\ f[m - 1] <= f[m]
  BY <1>7, <1>8
<1>10. \A j \in 0 .. m : j = m \/ j \in 0 .. m - 1
  BY <1>3
<1>11. \A j \in 0 .. m : f[j] <= f[m]
  <2> SUFFICES ASSUME NEW j \in 0 .. m, j # m PROVE f[j] <= f[m]
    <3>1. f[m] <= f[m]
      BY ONLY <1>9
    <3> QED BY <3>1
  <2>1. j \in 0 .. m - 1 /\ j \in 0 .. n
    BY <1>10, <1>3
  <2>2. f[j] <= f[m - 1] /\ f[m - 1] \in Nat
    BY <1>7, <2>1
  <2>3. f[j] \in Nat
    <3>1. ~(m <= j)
      BY <2>1, <1>3
    <3>2. j \notin T
      BY <1>2, <3>1
    <3> QED BY <2>1, <3>2
  <2>4. f[m - 1] \in Nat /\ f[m - 1] <= f[m] /\ f[m] \in Nat
    BY <1>9, <2>2
  <2>5. f[j] <= f[m - 1]
    BY <2>2
  <2> QED BY ONLY <2>3, <2>4, <2>5
<1> QED BY <1>3, <1>9, <1>11

\* Spent adds up what the handlers last, in their order.
LEMMA SpentIs ==
  ASSUME Ordered
  PROVE  LET n == Len(order) IN
         /\ n \in Nat /\ LastsBefore(1) = 0
         /\ \A i \in 1 .. n : /\ LastsBefore(i + 1) = LastsBefore(i) + Lasts[order[i]]
                              /\ Lasts[order[i]] \in Nat
         /\ \A i \in 1 .. n + 1 : LastsBefore(i) \in Nat
         /\ \A i, j \in 1 .. n + 1 : i <= j => LastsBefore(i) <= LastsBefore(j)
<1> DEFINE n == Len(order)
           w == [k \in 1 .. n |-> Lasts[order[k]]]
<1>1. n \in Nat /\ \A k \in 1 .. n : order[k] \in Handlers
  BY DEF Ordered
<1>2. w \in [1 .. n -> Nat]
  BY <1>1, ShutdownAssumption DEF ShutdownAssumption
<1>3. Spent = [k \in 0 .. n |-> IF k = 0 THEN 0 ELSE Spent[k - 1] + w[k]]
  <2>1. \A f : [k \in 0 .. n |-> IF k = 0 THEN 0 ELSE f[k - 1] + w[k]]
               = [k \in 0 .. n |-> IF k = 0 THEN 0 ELSE f[k - 1] + Lasts[order[k]]]
    <3> SUFFICES ASSUME NEW f, NEW k \in 0 .. n
                 PROVE  (IF k = 0 THEN 0 ELSE f[k - 1] + w[k])
                        = IF k = 0 THEN 0 ELSE f[k - 1] + Lasts[order[k]]
      OBVIOUS
    <3> QED BY <1>1
  <2> HIDE DEF w
  <2>2. PICK f : f = [k \in 0 .. n |-> IF k = 0 THEN 0 ELSE f[k - 1] + w[k]]
    BY <1>1, <1>2, PartialSums
  <2>3. f = [k \in 0 .. n |-> IF k = 0 THEN 0 ELSE f[k - 1] + Lasts[order[k]]]
    BY <2>1, <2>2
  <2>4. Spent = [k \in 0 .. n |-> IF k = 0 THEN 0 ELSE Spent[k - 1] + Lasts[order[k]]]
    BY <2>3 DEF Spent
  <2> QED BY <2>1, <2>4
<1> HIDE DEF w
<1>4. \A k \in 0 .. n : Spent[k] \in Nat /\ \A j \in 0 .. k : Spent[j] <= Spent[k]
  BY <1>1, <1>2, <1>3, SumsGrow
<1>5. Spent[0] = 0 /\ \A k \in 1 .. n : Spent[k] = Spent[k - 1] + w[k]
  BY <1>1, <1>3
<1>6. \A k \in 1 .. n : w[k] = Lasts[order[k]] /\ w[k] \in Nat
  BY <1>2 DEF w
<1>7. \A i \in 1 .. n + 1 : i - 1 \in 0 .. n
  BY <1>1
<1>8. /\ LastsBefore(1) = 0
      /\ \A i \in 1 .. n + 1 : LastsBefore(i) \in Nat
      /\ \A i, j \in 1 .. n + 1 : i <= j => LastsBefore(i) <= LastsBefore(j)
  <2>1. \A i, j \in 1 .. n + 1 : i <= j => i - 1 \in 0 .. j - 1
    BY <1>1
  <2> QED BY <1>4, <1>5, <1>7, <2>1 DEF LastsBefore
<1>9. \A i \in 1 .. n : /\ LastsBefore(i + 1) = LastsBefore(i) + Lasts[order[i]]
                        /\ Lasts[order[i]] \in Nat
  <2>1. \A i \in 1 .. n : (i + 1) - 1 = i
    OBVIOUS
  <2> QED BY <1>5, <1>6, <2>1 DEF LastsBefore
<1> QED BY <1>1, <1>8, <1>9

\* The clock of a shutdown: no step of a handler is early or late, and the process leaves
\* when its time has come.
Timely ==
  /\ Ordered /\ at \in 1 .. Len(order) + 1 /\ until \in Int
  /\ clock \in Nat /\ leaveAt \in Nat /\ delay \in Nat
  /\ svc \in {"running", "stopping", "delay", "exited"}
  /\ clock <= GraceShutdown + delay
  /\ svc = "running" => clock = 0 /\ at = 1 /\ until = Pending
  /\ svc = "stopping" => clock <= GraceShutdown
  /\ svc = "delay" =>
       /\ clock <= leaveAt /\ leaveAt <= GraceShutdown + delay
       /\ exitBy \in {"done", "grace"}
       /\ exitBy = "done" => at = Len(order) + 1
       /\ exitBy = "grace" => leaveAt = GraceShutdown + delay
  /\ svc # "exited" =>
       /\ exitBy = "none" <=> svc \in {"running", "stopping"}
       /\ at = Len(order) + 1 => until = Pending
       /\ until = Pending /\ at <= Len(order) => clock = LastsBefore(at)
       /\ until # Pending => until = LastsBefore(at + 1) /\ clock <= until

ClockInv == Timely /\ ShutdownOrderly

LEMMA ClockInit == ShutdownInit => ClockInv
<1> SUFFICES ASSUME ShutdownInit PROVE ClockInv
  OBVIOUS
<1>1. Ordered
  BY InOrder DEF ShutdownInit
<1>2. /\ svc = "running" /\ exitBy = "none" /\ clock = 0 /\ leaveAt = 0 /\ at = 1
      /\ until = -1 /\ delay \in Nat /\ GraceShutdown \in Nat
  BY ShutdownAssumption DEF ShutdownAssumption, ShutdownInit, Pending
<1>3. Len(order) \in Nat /\ LastsBefore(1) = 0
  BY <1>1, SpentIs
<1>4. at \in 1 .. Len(order) + 1 /\ at # Len(order) + 2
  BY <1>2, <1>3
<1>5. Timely
  BY <1>1, <1>2, <1>3, <1>4 DEF Timely, Pending
<1>6. ShutdownOrderly
  BY <1>2 DEF ShutdownOrderly
<1> QED BY <1>5, <1>6 DEF ClockInv

\* The end: every handler with time left has been called.
LEMMA LeaveOrderly ==
  ASSUME Timely, Leave
  PROVE  ClockInv'
<1>1. /\ svc = "delay" /\ clock = leaveAt /\ svc' = "exited"
      /\ UNCHANGED <<order, delay, exitBy, clock, at, until, leaveAt>>
  BY DEF Leave
<1>2. LastsBefore(1)' = LastsBefore(1)
  BY <1>1 DEF LastsBefore, Spent
<1>3. Timely'
  BY <1>1 DEF Timely, Ordered
<1>4. /\ Ordered /\ Len(order) \in Nat /\ at \in 1 .. Len(order) + 1
      /\ GraceShutdown \in Nat /\ delay \in Nat /\ clock \in Nat
  BY SpentIs, ShutdownAssumption DEF Timely, ShutdownAssumption
<1>5. ASSUME NEW i \in 1 .. Len(order), LastsBefore(i) < GraceShutdown + delay
      PROVE  i < at \/ (i = at /\ until # Pending)
  <2>1. CASE exitBy = "done"
    BY <1>1, <1>4, <2>1 DEF Timely
  <2>2. CASE exitBy = "grace"
    <3>1. clock = GraceShutdown + delay
      BY <1>1, <2>2 DEF Timely
    <3> SUFFICES ASSUME ~(i < at), i = at => until = Pending PROVE FALSE
      OBVIOUS
    <3>2. at <= i /\ at \in 1 .. Len(order) /\ at + 1 \in 1 .. Len(order) + 1
      BY <1>4
    <3>3. CASE until = Pending
      <4>1. clock = LastsBefore(at)
        BY <1>1, <3>2, <3>3 DEF Timely
      <4>2. LastsBefore(at) <= LastsBefore(i) /\ LastsBefore(i) \in Nat
        BY <1>4, <3>2, SpentIs
      <4> QED BY <1>4, <1>5, <3>1, <4>1, <4>2
    <3>4. CASE until # Pending
      <4>1. clock <= LastsBefore(at + 1)
        BY <1>1, <3>4 DEF Timely
      <4>2. at + 1 <= i
        BY <1>4, <3>2, <3>4
      <4>3. /\ LastsBefore(at + 1) <= LastsBefore(i)
            /\ LastsBefore(i) \in Nat /\ LastsBefore(at + 1) \in Nat
        BY <1>4, <3>2, <4>2, SpentIs
      <4> QED BY <1>4, <1>5, <3>1, <4>1, <4>3
    <3> QED BY <3>3, <3>4
  <2> QED BY <1>1, <2>1, <2>2 DEF Timely
<1>6. \A i : LastsBefore(i)' = LastsBefore(i)
  BY <1>1 DEF LastsBefore, Spent
<1>7. ShutdownOrderly'
  BY <1>1, <1>3, <1>4, <1>5, <1>6 DEF ShutdownOrderly, Timely
<1> QED BY <1>3, <1>7 DEF ClockInv

LEMMA NotLeaving ==
  ASSUME Timely', svc' # "exited" \/ exitBy' \in {"fatal", "panic"}
  PROVE  ClockInv'
<1>1. ~(clock' > GraceShutdown + delay')
  <2>1. clock' \in Nat /\ delay' \in Nat /\ clock' <= GraceShutdown + delay'
    BY DEF Timely
  <2>2. GraceShutdown \in Nat
    BY ShutdownAssumption DEF ShutdownAssumption
  <2>3. \A c, d, g \in Nat : c <= g + d => ~(c > g + d)
    OBVIOUS
  <2> QED BY <2>1, <2>2, <2>3
<1> QED BY <1>1 DEF ClockInv, ShutdownOrderly

\* What does not touch the bus.
LEMMA BusRests ==
  ASSUME Timely, UNCHANGED <<order, delay, clock, at, until, leaveAt>>,
         \/ svc # "exited" /\ UNCHANGED <<svc, exitBy>>
         \/ svc' = "exited" /\ exitBy' \in {"fatal", "panic"}
  PROVE  ClockInv'
<1>1. \A i : LastsBefore(i)' = LastsBefore(i)
  BY DEF LastsBefore, Spent
<1>2. Ordered' /\ at' \in 1 .. Len(order') + 1
  BY DEF Timely, Ordered
<1>3. CASE svc # "exited" /\ UNCHANGED <<svc, exitBy>>
  <2>1. Timely'
    BY <1>1, <1>2, <1>3 DEF Timely
  <2> QED BY <1>3, <2>1, NotLeaving
<1>4. CASE svc' = "exited" /\ exitBy' \in {"fatal", "panic"}
  <2>1. Timely'
    BY <1>2, <1>4 DEF Timely
  <2> QED BY <1>4, <2>1, NotLeaving
<1> QED BY <1>3, <1>4

LEMMA SignalTimely ==
  ASSUME Timely, Signal
  PROVE  ClockInv'
<1>1. /\ svc = "running" /\ svc' = "stopping"
      /\ UNCHANGED <<order, delay, exitBy, clock, at, until, leaveAt>>
  BY DEF Signal
<1>2. \A i : LastsBefore(i)' = LastsBefore(i)
  BY <1>1 DEF LastsBefore, Spent
<1>3. Ordered' /\ at' \in 1 .. Len(order') + 1
  BY <1>1 DEF Timely, Ordered
<1>4. clock = 0 /\ 0 <= GraceShutdown
  BY <1>1, ShutdownAssumption DEF Timely, ShutdownAssumption
<1>5. Timely'
  BY <1>1, <1>2, <1>3, <1>4 DEF Timely
<1> QED BY <1>1, <1>5, NotLeaving

LEMMA SelectTimely ==
  ASSUME Timely, HandlersOrGrace
  PROVE  ClockInv'
<1>1. /\ svc = "stopping" /\ svc' = "delay" /\ leaveAt' = clock + delay
      /\ UNCHANGED <<order, delay, clock, at, until>>
  BY DEF HandlersOrGrace
<1>2. \/ at = Len(order) + 1 /\ exitBy' = "done"
      \/ clock >= GraceShutdown /\ exitBy' = "grace"
  BY DEF HandlersOrGrace, HandlersThrough, GraceOver
<1>3. \A i : LastsBefore(i)' = LastsBefore(i)
  BY <1>1 DEF LastsBefore, Spent
<1>4. Ordered' /\ at' \in 1 .. Len(order') + 1
  BY <1>1 DEF Timely, Ordered
<1>5. /\ clock \in Nat /\ delay \in Nat /\ GraceShutdown \in Nat /\ clock <= GraceShutdown
  BY <1>1, ShutdownAssumption DEF Timely, ShutdownAssumption
<1>6. /\ leaveAt' \in Nat /\ clock' <= leaveAt' /\ leaveAt' <= GraceShutdown + delay'
      /\ exitBy' = "grace" => leaveAt' = GraceShutdown + delay'
      /\ exitBy' = "done" => at' = Len(order') + 1
      /\ exitBy' \in {"done", "grace"}
  BY <1>1, <1>2, <1>5
<1>7. Timely'
  BY <1>1, <1>3, <1>4, <1>6 DEF Timely
<1> QED BY <1>1, <1>7, NotLeaving

LEMMA BeginTimely ==
  ASSUME Timely, BeginHandler
  PROVE  ClockInv'
<1>1. /\ svc \in {"stopping", "delay"} /\ at <= Len(order) /\ until = Pending
      /\ until' = clock + Lasts[order[at]]
      /\ UNCHANGED <<order, delay, svc, exitBy, clock, at, leaveAt>>
  BY DEF BeginHandler, Publishing, Handler
<1>2. \A i : LastsBefore(i)' = LastsBefore(i)
  BY <1>1 DEF LastsBefore, Spent
<1>3. Ordered' /\ at' \in 1 .. Len(order') + 1
  BY <1>1 DEF Timely, Ordered
<1>4. /\ Ordered /\ Len(order) \in Nat /\ at \in 1 .. Len(order) /\ clock \in Nat
      /\ clock = LastsBefore(at)
  BY <1>1, SpentIs DEF Timely
<1>5. LastsBefore(at + 1) = LastsBefore(at) + Lasts[order[at]] /\ Lasts[order[at]] \in Nat
  BY <1>4, SpentIs
<1>6. /\ until' \in Int /\ until' # Pending /\ until' = LastsBefore(at + 1)
      /\ clock' <= until' /\ at' # Len(order') + 1
  BY <1>1, <1>4, <1>5 DEF Pending
<1>7. Timely'
  BY <1>1, <1>2, <1>3, <1>6 DEF Timely
<1> QED BY <1>1, <1>7, NotLeaving

LEMMA EndTimely ==
  ASSUME Timely, EndHandler
  PROVE  ClockInv'
<1>1. /\ svc \in {"stopping", "delay"} /\ at <= Len(order) /\ until = clock
      /\ UNCHANGED <<order, delay, clock, leaveAt>>
      /\ \/ svc' = "exited" /\ exitBy' = "fatal" /\ UNCHANGED <<at, until>>
         \/ at' = at + 1 /\ until' = Pending /\ UNCHANGED <<svc, exitBy>>
  BY DEF EndHandler, Publishing, Exit
<1>2. CASE svc' = "exited" /\ exitBy' = "fatal" /\ UNCHANGED <<at, until>>
  BY <1>1, <1>2, BusRests
<1>3. CASE at' = at + 1 /\ until' = Pending /\ UNCHANGED <<svc, exitBy>>
  <2>1. \A i : LastsBefore(i)' = LastsBefore(i)
    BY <1>1 DEF LastsBefore, Spent
  <2>2. Ordered /\ Len(order) \in Nat /\ at \in 1 .. Len(order) /\ clock \in Nat
    BY <1>1, SpentIs DEF Timely
  <2>3. Ordered' /\ at' \in 1 .. Len(order') + 1 /\ until' \in Int
    BY <1>1, <1>3, <2>2 DEF Ordered, Pending
  <2>4. until # Pending
    BY <1>1, <2>2 DEF Pending
  <2>5. clock' = LastsBefore(at)'
    <3>1. clock = LastsBefore(at + 1)
      BY <1>1, <2>4 DEF Timely
    <3> QED BY <1>1, <1>3, <3>1 DEF LastsBefore, Spent
  <2>6. ~(exitBy = "done" /\ svc = "delay")
    BY <1>1, <2>2 DEF Timely
  <2>7. Timely'
    BY <1>1, <1>3, <2>3, <2>5, <2>6 DEF Timely
  <2> QED BY <1>1, <1>3, <2>7, NotLeaving
<1> QED BY <1>1, <1>2, <1>3

LEMMA TickTimely ==
  ASSUME Timely, Tick
  PROVE  ClockInv'
<1>1. /\ svc \in {"stopping", "delay"} /\ clock' = clock + 1
      /\ at <= Len(order) => until > clock
      /\ svc = "stopping" => ~(clock >= GraceShutdown)
      /\ svc = "stopping" => at # Len(order) + 1
      /\ svc = "delay" => clock < leaveAt
      /\ UNCHANGED <<order, delay, svc, exitBy, at, until, leaveAt>>
  BY DEF Tick, Publishing, GraceOver, HandlersThrough
<1>2. \A i : LastsBefore(i)' = LastsBefore(i)
  BY <1>1 DEF LastsBefore, Spent
<1>3. /\ Len(order) \in Nat /\ at \in 1 .. Len(order) + 1 /\ clock \in Nat /\ leaveAt \in Nat
      /\ delay \in Nat /\ until \in Int /\ GraceShutdown \in Nat
  BY SpentIs, ShutdownAssumption DEF Timely, ShutdownAssumption
<1>4. Ordered' /\ at' \in 1 .. Len(order') + 1
  BY <1>1 DEF Timely, Ordered
<1>5. /\ clock' \in Nat /\ svc = "stopping" => clock' <= GraceShutdown
      /\ svc = "delay" => clock' <= leaveAt
      /\ clock' <= GraceShutdown + delay
  BY <1>1, <1>3 DEF Timely
<1>6. /\ until = Pending => at = Len(order) + 1
      /\ until # Pending => clock' <= until
  <2>1. at = Len(order) + 1 => until = Pending
    BY <1>1 DEF Timely
  <2>2. at # Len(order) + 1 => until > clock
    BY <1>1, <1>3
  <2> QED BY <1>1, <1>3, <2>1, <2>2 DEF Pending
<1>7. at = Len(order) + 1 => ~(at <= Len(order))
  BY <1>3
<1>8. Timely'
  BY <1>1, <1>2, <1>4, <1>5, <1>6, <1>7 DEF Timely
<1> QED BY <1>1, <1>8, NotLeaving

LEMMA ClockKept == ClockInv /\ [ShutdownNext]_shutdownVars => ClockInv'
<1> SUFFICES ASSUME ClockInv, [ShutdownNext]_shutdownVars PROVE ClockInv'
  OBVIOUS
<1>1. Timely
  BY DEF ClockInv
<1>2. CASE UNCHANGED shutdownVars
  BY <1>2 DEF shutdownVars, ClockInv, Timely, Ordered, ShutdownOrderly, LastsBefore, Spent
<1>3. CASE Signal
  BY <1>1, <1>3, SignalTimely
<1>4. CASE HandlersOrGrace
  BY <1>1, <1>4, SelectTimely
<1>5. CASE Leave
  BY <1>1, <1>5, LeaveOrderly
<1>6. CASE BeginHandler
  BY <1>1, <1>6, BeginTimely
<1>7. CASE EndHandler
  BY <1>1, <1>7, EndTimely
<1>8. CASE RequestEnds \/ SendLine \/ TakeLine \/ WriteLine \/ WriterEndsFile
  <2>1. svc # "exited" /\ UNCHANGED <<order, delay, svc, exitBy, clock, at, until, leaveAt>>
    BY <1>8 DEF RequestEnds, SendLine, TakeLine, WriteLine, WriterEndsFile, busVars, Up
  <2> QED BY <1>1, <2>1, BusRests
<1>9. CASE LinePanics
  <2>1. /\ svc' = "exited" /\ exitBy' = "panic"
        /\ UNCHANGED <<order, delay, clock, at, until, leaveAt>>
    BY <1>9 DEF LinePanics, Exit
  <2> QED BY <1>1, <2>1, BusRests
<1>10. CASE Tick
  BY <1>1, <1>10, TickTimely
<1> QED BY <1>2, <1>3, <1>4, <1>5, <1>6, <1>7, <1>8, <1>9, <1>10 DEF ShutdownNext

\* A process leaves within the grace and the delay of the signal, and not before it has
\* called every handler that those registered earlier leave time for, for any handlers,
\* times and order of registration (CloseOnlyNotified, util.go:84-123).
THEOREM ShutsDownInTime == ShutdownSpec => []ShutdownOrderly
<1>1. ShutdownInit => ClockInv
  BY ClockInit
<1>2. ClockInv /\ [ShutdownNext]_shutdownVars => ClockInv'
  BY ClockKept
<1>3. ClockInv => ShutdownOrderly
  BY DEF ClockInv
<1> QED BY <1>1, <1>2, <1>3, PTL DEF ShutdownSpec

-----------------------------------------------------------------------------
(* Shutdown, Subscriptions: types                                          *)

\* There is an OnConnect for each connection at most.
ConnectionsCounted ==
  /\ up \in BOOLEAN /\ stopping \in BOOLEAN
  /\ conns \in 1 .. MaxConns /\ onConnect \in 0 .. conns

LEMMA ConnectionsCount ==
  ConnectionsCounted /\ [SubscriptionsNext]_subVars => ConnectionsCounted'
<1> SUFFICES ASSUME ConnectionsCounted, [SubscriptionsNext]_subVars PROVE ConnectionsCounted'
  OBVIOUS
<1> USE DEF ConnectionsCounted
<1>1. MaxConns \in Nat /\ conns \in Nat /\ onConnect \in Nat
  BY SubscriptionsAssumption DEF SubscriptionsAssumption
<1>2. CASE UNCHANGED <<conns, onConnect>> /\ up' \in BOOLEAN /\ stopping' \in BOOLEAN
  BY <1>2
<1>3. CASE Reconnect
  <2>1. /\ conns < MaxConns /\ conns' = conns + 1 /\ onConnect' = onConnect + 1
        /\ up' = TRUE /\ stopping' = stopping
    BY <1>3 DEF Reconnect
  <2> QED BY <1>1, <2>1
<1>4. CASE OnConnect
  <2>1. onConnect > 0 /\ onConnect' = onConnect - 1 /\ UNCHANGED <<up, conns, stopping>>
    BY <1>4 DEF OnConnect
  <2> QED BY <1>1, <2>1
<1>5. ASSUME NEW c \in Callers, (\E t \in Topics : BeginSub(c, t)) \/ SubSubscribe(c)
      PROVE  UNCHANGED <<up, conns, stopping, onConnect>>
  BY <1>5 DEF BeginSub, SubSubscribe
<1>6. CASE ConnectionLost \/ Disconnect
  BY <1>2, <1>6 DEF ConnectionLost, Disconnect
<1>7. ASSUME NEW t \in Topics, NEW h \in Callers, Resubscribe(t, h)
      PROVE  UNCHANGED <<up, conns, stopping, onConnect>>
  BY <1>7 DEF Resubscribe
<1>8. CASE UNCHANGED subVars
  BY <1>2, <1>8 DEF subVars
<1> QED BY <1>2, <1>3, <1>4, <1>5, <1>6, <1>7, <1>8 DEF SubscriptionsNext

\* The variables of the subscriptions keep their types.
THEOREM SubscriptionsTypeCorrect == SubscriptionsSpec => []SubscriptionsTypeOK
<1>1. SubscriptionsInit => ConnectionsCounted
  <2> SUFFICES ASSUME SubscriptionsInit PROVE ConnectionsCounted
    OBVIOUS
  <2>1. up = TRUE /\ stopping = FALSE /\ conns = 1 /\ onConnect = 1
    BY DEF SubscriptionsInit
  <2>2. 1 \in 1 .. MaxConns /\ 1 \in 0 .. 1
    BY SubscriptionsAssumption DEF SubscriptionsAssumption
  <2>3. conns \in 1 .. MaxConns /\ onConnect \in 0 .. conns
    BY <2>1, <2>2
  <2> QED BY <2>1, <2>3 DEF ConnectionsCounted
<1>2. SubInv /\ ConnectionsCounted => SubscriptionsTypeOK
  <2> SUFFICES ASSUME SubInv, ConnectionsCounted PROVE SubscriptionsTypeOK
    OBVIOUS
  <2>1. onConnect \in 0 .. MaxConns /\ conns \in 1 .. MaxConns
    BY SubscriptionsAssumption DEF SubscriptionsAssumption, ConnectionsCounted
  <2>2. up \in BOOLEAN /\ stopping \in BOOLEAN
    BY DEF ConnectionsCounted
  <2> QED BY <2>1, <2>2 DEF SubInv, SubTyped, Calls, SubscriptionsTypeOK
<1> QED BY <1>1, <1>2, SubInit, SubStep, ConnectionsCount, PTL DEF SubscriptionsSpec

\* What neither the lines nor the clock say: a message is counted before it is sent.
LinesCounted ==
  /\ order \in SetToSeqs(Handlers) /\ delay \in {0, Delay}
  /\ exitBy \in {"none", "done", "grace", "fatal", "panic"}
  /\ sent + (IF line.sender = "sending" THEN 1 ELSE 0) <= MaxLines

LEMMA LinesCount ==
  LineInv /\ LinesCounted /\ [ShutdownNext]_shutdownVars => LinesCounted'
<1> SUFFICES ASSUME LineInv, LinesCounted, [ShutdownNext]_shutdownVars PROVE LinesCounted'
  OBVIOUS
<1> USE DEF LinesCounted
<1>1. /\ line \in [open : BOOLEAN, sender : {"idle", "sending"},
                   writer : {"ready", "busy", "ended"}]
      /\ sent \in Nat /\ MaxLines \in Nat
  BY ShutdownAssumption DEF ShutdownAssumption, LineInv, LineTyped
<1>2. UNCHANGED <<order, delay>> /\ exitBy' \in {"none", "done", "grace", "fatal", "panic"}
  <2>1. CASE Signal \/ HandlersOrGrace \/ Leave \/ EndHandler \/ RequestEnds \/ LinePanics \/ Tick
    BY <2>1 DEF Signal, HandlersOrGrace, Leave, EndHandler, RequestEnds, LinePanics, Tick, Exit
  <2>2. CASE BeginHandler \/ SendLine \/ TakeLine \/ WriteLine \/ WriterEndsFile
    BY <2>2 DEF BeginHandler, SendLine, TakeLine, WriteLine, WriterEndsFile, busVars
  <2>3. CASE UNCHANGED shutdownVars
    BY <2>3 DEF shutdownVars
  <2> QED BY <2>1, <2>2, <2>3 DEF ShutdownNext
<1>3. sent' + (IF line'.sender = "sending" THEN 1 ELSE 0) <= MaxLines
  <2>1. CASE line'.sender = line.sender /\ sent' = sent
    BY <2>1
  <2>2. CASE line.sender = "sending" /\ line'.sender = "idle" /\ sent' = sent + 1
    BY <1>1, <2>2
  <2>3. CASE sent < MaxLines /\ sent' = sent
    BY <1>1, <2>3
  <2>4. CASE Signal \/ HandlersOrGrace \/ Leave \/ EndHandler \/ RequestEnds \/ LinePanics
               \/ Tick \/ UNCHANGED shutdownVars
    BY <2>1, <2>4 DEF Signal, HandlersOrGrace, Leave, EndHandler, RequestEnds, LinePanics, Tick,
                      fileVars, shutdownVars
  <2>5. CASE BeginHandler
    <3>1. CASE UNCHANGED fileVars
      BY <2>1, <3>1 DEF fileVars
    <3>2. CASE /\ line.sender = "sending" /\ line' = [line EXCEPT !.sender = "idle"]
               /\ sent' = sent + 1
      BY <1>1, <2>2, <3>2
    <3>3. CASE line' = [line EXCEPT !.open = FALSE] /\ sent' = sent
      BY <1>1, <2>1, <3>3
    <3> QED BY <2>5, <3>1, <3>2, <3>3 DEF BeginHandler
  <2>6. CASE SendLine
    BY <2>3, <2>6 DEF SendLine
  <2>7. CASE TakeLine
    BY <1>1, <2>2, <2>7 DEF TakeLine
  <2>8. CASE WriteLine \/ WriterEndsFile
    BY <1>1, <2>1, <2>8 DEF WriteLine, WriterEndsFile
  <2> QED BY <2>4, <2>5, <2>6, <2>7, <2>8 DEF ShutdownNext
<1> QED BY <1>2, <1>3

\* The variables of the shutdown keep their types: the bus is never beyond its handlers,
\* and no line is written that was not sent.
THEOREM ShutdownTypeCorrect == ShutdownSpec => []ShutdownTypeOK
<1>1. ShutdownInit => LinesCounted
  <2> SUFFICES ASSUME ShutdownInit PROVE LinesCounted
    OBVIOUS
  <2>1. sent = 0 /\ line.sender = "idle" /\ MaxLines \in Nat
    BY ShutdownAssumption DEF ShutdownAssumption, ShutdownInit
  <2> QED BY <2>1 DEF ShutdownInit, LinesCounted
<1>2. LineInv /\ ClockInv /\ LinesCounted => ShutdownTypeOK
  <2> SUFFICES ASSUME LineInv, ClockInv, LinesCounted PROVE ShutdownTypeOK
    OBVIOUS
  <2>1. /\ sent \in Nat /\ written \in Nat /\ swallowed \in Nat /\ unwritten \in Nat
        /\ MaxLines \in Nat /\ sent <= MaxLines
        /\ sent = written + unwritten + swallowed + (IF line.writer = "busy" THEN 1 ELSE 0)
    BY ShutdownAssumption DEF ShutdownAssumption, LineInv, LineTyped, LinesKept, LinesCounted
  <2>2. sent \in 0 .. MaxLines /\ written \in 0 .. MaxLines /\ unwritten \in 0 .. MaxLines
    BY <2>1
  <2>3. /\ at \in 1 .. Len(order) + 1 /\ until \in Int /\ clock \in Nat /\ leaveAt \in Nat
        /\ svc \in {"running", "stopping", "delay", "exited"}
    BY DEF ClockInv, Timely
  <2>4. line \in [open : BOOLEAN, sender : {"idle", "sending"},
                  writer : {"ready", "busy", "ended"}]
    BY DEF LineInv, LineTyped
  <2> QED BY <2>1, <2>2, <2>3, <2>4 DEF LinesCounted, ShutdownTypeOK
<1> QED BY <1>1, <1>2, LineInit, LineStep, ClockInit, ClockKept, LinesCount, PTL
        DEF ShutdownSpec

-----------------------------------------------------------------------------
(* Sanitize                                                                *)

\* The recursions over heights of Sanitize: where they begin, and their step.
BeginOf(which) == IF which = "values" THEN {} ELSE <<>>

StepOf(which, n, before) ==
  CASE which = "values" -> Nodes(before)
    [] which = "sanitized" ->
         [v \in Values[n] |-> Rebuilt(v, [i \in Described(v) |-> before[v.kids[i]]])]
    [] which = "reached" ->
         [v \in Values[n] |-> Strung(v, before)]
    [] OTHER ->
         [v \in Values[n] |-> [w \in Values[n] |-> Alike(v, w, before)]]

\* Each has a solution.
LEMMA Recursions ==
  ASSUME NEW which, NEW m \in Nat
  PROVE  \E f : f = [k \in 0 .. m |-> IF k = 0 THEN BeginOf(which)
                                      ELSE StepOf(which, k, f[k - 1])]
<1> DEFINE Solved(n) == \E f : f = [k \in 0 .. n |-> IF k = 0 THEN BeginOf(which)
                                                     ELSE StepOf(which, k, f[k - 1])]
           T == {n \in 0 .. m : ~Solved(n)}
<1>1. T = {} => Solved(m)
  <2>1. m \in 0 .. m
    OBVIOUS
  <2> HIDE DEF Solved
  <2> QED BY <2>1
<1> SUFFICES ASSUME T # {} PROVE FALSE
  BY <1>1
<1>2. PICK n \in T : \A k \in T : n <= k
  <2>1. T \subseteq Nat
    OBVIOUS
  <2> HIDE DEF T
  <2> QED BY <2>1, LeastNumber
<1>3. CASE n = 0
  <2> DEFINE f == [k \in 0 .. 0 |-> BeginOf(which)]
  <2>1. f = [k \in 0 .. 0 |-> IF k = 0 THEN BeginOf(which) ELSE StepOf(which, k, f[k - 1])]
    OBVIOUS
  <2>2. Solved(0)
    BY <2>1
  <2> QED BY <1>3, <2>2
<1>4. CASE n # 0
  <2>1. n \in Nat /\ n - 1 \in 0 .. m /\ n - 1 \notin T
    <3>1. n \in Nat /\ n - 1 \in 0 .. m
      BY <1>4
    <3>2. ~(n <= n - 1)
      BY <3>1
    <3> QED BY <1>2, <3>1, <3>2
  <2>2. PICK g : g = [k \in 0 .. n - 1 |-> IF k = 0 THEN BeginOf(which)
                                          ELSE StepOf(which, k, g[k - 1])]
    BY <2>1
  <2> DEFINE f == [k \in 0 .. n |-> IF k = n THEN StepOf(which, n, g[n - 1]) ELSE g[k]]
  <2>3. \A k \in 0 .. n : f[k] = IF k = 0 THEN BeginOf(which) ELSE StepOf(which, k, f[k - 1])
    <3> SUFFICES ASSUME NEW k \in 0 .. n
                 PROVE  f[k] = IF k = 0 THEN BeginOf(which) ELSE StepOf(which, k, f[k - 1])
      OBVIOUS
    <3>1. CASE k = n
      <4>1. n - 1 \in 0 .. n /\ n - 1 # n
        BY <1>4, <2>1
      <4>2. f[n] = StepOf(which, n, g[n - 1]) /\ f[n - 1] = g[n - 1]
        BY <2>1, <4>1
      <4> HIDE DEF f
      <4> QED BY <1>4, <3>1, <4>2
    <3>2. CASE k # n
      <4>1. k \in 0 .. n - 1
        BY <2>1, <3>2
      <4>2. f[k] = g[k] /\ g[k] = IF k = 0 THEN BeginOf(which) ELSE StepOf(which, k, g[k - 1])
        BY <2>2, <3>2, <4>1
      <4>3. k # 0 => k - 1 \in 0 .. n /\ k - 1 # n /\ f[k - 1] = g[k - 1]
        BY <2>1, <4>1
      <4> HIDE DEF f
      <4> QED BY <4>2, <4>3
    <3> QED BY <3>1, <3>2
  <2>4. f = [k \in 0 .. n |-> f[k]]
    OBVIOUS
  <2> HIDE DEF f
  <2>5. f = [k \in 0 .. n |-> IF k = 0 THEN BeginOf(which) ELSE StepOf(which, k, f[k - 1])]
    BY <2>3, <2>4
  <2>6. Solved(n)
    BY <2>5
  <2> QED BY <2>6
<1> QED BY <1>3, <1>4

LEMMA HeightNat == Height \in Nat
BY SanitizeAssumption DEF SanitizeAssumption

LEMMA ValuesAre ==
  /\ Values[0] = {}
  /\ \A n \in 1 .. Height : Values[n] = Nodes(Values[n - 1])
<1>1. PICK f : f = [k \in 0 .. Height |-> IF k = 0 THEN BeginOf("values")
                                          ELSE StepOf("values", k, f[k - 1])]
  BY Recursions, HeightNat
<1>2. BeginOf("values") = {} /\ \A k, b : StepOf("values", k, b) = Nodes(b)
  BY DEF BeginOf, StepOf
<1>3. f = [k \in 0 .. Height |-> IF k = 0 THEN {} ELSE Nodes(f[k - 1])]
  BY <1>1, <1>2
<1>4. Values = [k \in 0 .. Height |-> IF k = 0 THEN {} ELSE Nodes(Values[k - 1])]
  BY <1>3, Zenon DEF Values
<1>5. 0 \in 0 .. Height /\ \A n \in 1 .. Height : n \in 0 .. Height /\ n # 0
  BY HeightNat
<1> QED BY <1>4, <1>5

LEMMA SanitizedAre ==
  \A n \in 1 .. Height : \A v \in Values[n] :
    Sanitized[n][v] = Rebuilt(v, [i \in Described(v) |-> Sanitized[n - 1][v.kids[i]]])
<1>1. PICK f : f = [k \in 0 .. Height |-> IF k = 0 THEN BeginOf("sanitized")
                                          ELSE StepOf("sanitized", k, f[k - 1])]
  BY Recursions, HeightNat
<1> DEFINE New(n, b) == [v \in Values[n] |-> Rebuilt(v, [i \in Described(v) |-> b[v.kids[i]]])]
<1>2. BeginOf("sanitized") = <<>> /\ \A k, b : StepOf("sanitized", k, b) = New(k, b)
  BY DEF BeginOf, StepOf
<1>3. f = [k \in 0 .. Height |-> IF k = 0 THEN <<>> ELSE New(k, f[k - 1])]
  <2> HIDE DEF New
  <2> QED BY <1>1, <1>2
<1>4. Sanitized = [k \in 0 .. Height |-> IF k = 0 THEN <<>> ELSE New(k, Sanitized[k - 1])]
  BY <1>3, Zenon DEF Sanitized
<1>5. \A n \in 1 .. Height : Sanitized[n] = New(n, Sanitized[n - 1])
  <2> HIDE DEF New
  <2> QED BY <1>4, HeightNat
<1> QED BY <1>5

LEMMA ReachedAre ==
  \A n \in 1 .. Height : \A v \in Values[n] :
    Reached[n][v] = IF v.kind = "string" THEN {v.text}
                    ELSE UNION {Reached[n - 1][v.kids[i]] : i \in Described(v)}
<1>1. PICK f : f = [k \in 0 .. Height |-> IF k = 0 THEN BeginOf("reached")
                                          ELSE StepOf("reached", k, f[k - 1])]
  BY Recursions, HeightNat
<1> DEFINE New(n, b) == [v \in Values[n] |-> Strung(v, b)]
<1>2. BeginOf("reached") = <<>> /\ \A k, b : StepOf("reached", k, b) = New(k, b)
  BY DEF BeginOf, StepOf
<1>3. f = [k \in 0 .. Height |-> IF k = 0 THEN <<>> ELSE New(k, f[k - 1])]
  <2> HIDE DEF New
  <2> QED BY <1>1, <1>2
<1>4. Reached = [k \in 0 .. Height |-> IF k = 0 THEN <<>> ELSE New(k, Reached[k - 1])]
  BY <1>3, Zenon DEF Reached
<1>5. \A n \in 1 .. Height : Reached[n] = New(n, Reached[n - 1])
  <2> HIDE DEF New
  <2> QED BY <1>4, HeightNat
<1> QED BY <1>5 DEF Strung

LEMMA ShapesAre ==
  \A n \in 1 .. Height : \A v, w \in Values[n] :
    SameShape[n][v][w] = Alike(v, w, SameShape[n - 1])
<1>1. PICK f : f = [k \in 0 .. Height |-> IF k = 0 THEN BeginOf("shape")
                                          ELSE StepOf("shape", k, f[k - 1])]
  BY Recursions, HeightNat
<1> DEFINE New(n, b) == [v \in Values[n] |-> [w \in Values[n] |-> Alike(v, w, b)]]
<1>2. BeginOf("shape") = <<>> /\ \A k, b : StepOf("shape", k, b) = New(k, b)
  BY DEF BeginOf, StepOf
<1>3. f = [k \in 0 .. Height |-> IF k = 0 THEN <<>> ELSE New(k, f[k - 1])]
  <2> HIDE DEF New
  <2> QED BY <1>1, <1>2
<1>4. SameShape = [k \in 0 .. Height |-> IF k = 0 THEN <<>> ELSE New(k, SameShape[k - 1])]
  BY <1>3, Zenon DEF SameShape
<1>5. \A n \in 1 .. Height : SameShape[n] = New(n, SameShape[n - 1])
  <2> HIDE DEF New
  <2> QED BY <1>4, HeightNat
<1>6. \A n \in 1 .. Height : \A v, w \in Values[n] :
        SameShape[n][v][w] = Alike(v, w, SameShape[n - 1])
  <2> SUFFICES ASSUME NEW n \in 1 .. Height, NEW v \in Values[n], NEW w \in Values[n]
               PROVE  SameShape[n][v][w] = Alike(v, w, SameShape[n - 1])
    OBVIOUS
  <2>1. SameShape[n] = New(n, SameShape[n - 1])
    BY <1>5
  <2>2. New(n, SameShape[n - 1])[v] = [u \in Values[n] |-> Alike(v, u, SameShape[n - 1])]
    OBVIOUS
  <2> QED BY <2>1, <2>2
<1> QED BY <1>6

\* What a node of values is.
LEMMA NodesAre ==
  ASSUME NEW S, Replaced \notin S, NEW v \in Nodes(S)
  PROVE  /\ v \in [kind : Kinds, text : Strings \cup Labels, kids : Seq(S \cup {Replaced})]
         /\ WellFormed(v)
         /\ Len(v.kids) \in Nat /\ DOMAIN v.kids = 1 .. Len(v.kids)
         /\ \A i \in DOMAIN v.kids : v.kids[i] \in S \cup {Replaced}
         /\ \A i \in Places(v.kids) : v.kids[i] \in S /\ v.kids[i] # Replaced
<1>1. v \in [kind : Kinds, text : Strings \cup Labels, kids : Seq(S \cup {Replaced})]
  BY DEF Nodes
<1>2. WellFormed(v)
  BY DEF Nodes
<1>3. v.kids \in Seq(S \cup {Replaced})
  BY <1>1
<1>4. /\ Len(v.kids) \in Nat /\ DOMAIN v.kids = 1 .. Len(v.kids)
      /\ \A i \in DOMAIN v.kids : v.kids[i] \in S \cup {Replaced}
  BY ONLY <1>3
<1> QED BY <1>1, <1>2, <1>4 DEF Places

\* Of the entries with a key the last remains, where it was.
LEMMA LastOfEachKeyIs ==
  ASSUME NEW S, Replaced \notin S, NEW ps \in Seq(S \cup {Replaced})
  PROVE  LET r == LastOfEachKey(ps) IN
         /\ r \in Seq(S \cup {Replaced}) /\ DOMAIN r = DOMAIN ps /\ Len(r) = Len(ps)
         /\ Places(r) \subseteq Places(ps)
         /\ \A i \in Places(r) : r[i] = ps[i]
         /\ \A i, j \in Places(r) : r[i].kids[1] = r[j].kids[1] => i = j
         /\ \A i \in Places(ps) : \E j \in Places(r) : r[j].kids[1] = ps[i].kids[1]
         /\ \A i \in Places(ps) \ Places(r) :
              \E j \in Places(ps) : j # i /\ ps[j].kids[1] = ps[i].kids[1]
         /\ (\A i, j \in Places(ps) : ps[i].kids[1] = ps[j].kids[1] => i = j) => r = ps
<1> DEFINE r == LastOfEachKey(ps)
           Later(i) == \E j \in Places(ps) : i < j /\ ps[i].kids[1] = ps[j].kids[1]
<1>1. /\ Len(ps) \in Nat /\ DOMAIN ps = 1 .. Len(ps)
      /\ \A i \in DOMAIN ps : ps[i] \in S \cup {Replaced}
  OBVIOUS
<1>2. r = [i \in DOMAIN ps |-> IF ps[i] # Replaced /\ Later(i) THEN Replaced ELSE ps[i]]
  BY DEF LastOfEachKey
<1>3. /\ DOMAIN r = DOMAIN ps
      /\ \A i \in DOMAIN ps : r[i] = IF ps[i] # Replaced /\ Later(i) THEN Replaced ELSE ps[i]
  <2> HIDE DEF Later
  <2> QED BY <1>2
<1>4. r \in Seq(S \cup {Replaced}) /\ Len(r) = Len(ps)
  <2>1. r \in [1 .. Len(ps) -> S \cup {Replaced}]
    <3> HIDE DEF Later
    <3> QED BY <1>1, <1>2
  <2> HIDE DEF r
  <2> QED BY <1>1, <2>1
<1>5. Places(ps) \subseteq 1 .. Len(ps) /\ \A i \in Places(ps) : ps[i] # Replaced
  BY <1>1 DEF Places
<1>6. Places(r) = {i \in Places(ps) : ~Later(i)} /\ \A i \in Places(r) : r[i] = ps[i]
  <2> HIDE DEF r, Later
  <2> QED BY <1>3 DEF Places
<1>7. \A i, j \in Places(r) : r[i].kids[1] = r[j].kids[1] => i = j
  <2> SUFFICES ASSUME NEW i \in Places(r), NEW j \in Places(r), r[i].kids[1] = r[j].kids[1]
               PROVE  i = j
    OBVIOUS
  <2>1. /\ i \in Places(ps) /\ j \in Places(ps) /\ ~Later(i) /\ ~Later(j)
        /\ r[i] = ps[i] /\ r[j] = ps[j]
    <3> HIDE DEF r, Later
    <3> QED BY <1>6
  <2>2. ps[i].kids[1] = ps[j].kids[1]
    <3> HIDE DEF r, Later
    <3> QED BY <2>1
  <2>3. ~(i < j) /\ ~(j < i)
    BY <2>1, <2>2
  <2> HIDE DEF r
  <2> QED BY <1>1, <1>5, <2>1, <2>3
<1>8. \A i \in Places(ps) : \E j \in Places(r) : r[j].kids[1] = ps[i].kids[1]
  <2> SUFFICES ASSUME NEW i \in Places(ps)
               PROVE  \E j \in Places(r) : r[j].kids[1] = ps[i].kids[1]
    OBVIOUS
  <2> DEFINE same == {j \in Places(ps) : ps[j].kids[1] = ps[i].kids[1]}
             T == {Len(ps) - j : j \in same}
  <2>1. i \in same /\ same \subseteq 1 .. Len(ps)
    BY <1>5
  <2>2. \A j \in same : Len(ps) - j \in Nat /\ Len(ps) - j \in T
    <3> HIDE DEF same
    <3> QED BY <1>1, <2>1
  <2>3. T \subseteq Nat /\ T # {}
    <3> HIDE DEF same
    <3> QED BY <2>1, <2>2
  <2>4. PICK m \in T : \A k \in T : m <= k
    <3> HIDE DEF T
    <3> QED BY <2>3, LeastNumber
  <2>5. PICK j \in same : m = Len(ps) - j
    <3> HIDE DEF same
    <3> QED BY <2>4
  <2>6. \A k \in same : ~(j < k)
    <3> SUFFICES ASSUME NEW k \in same PROVE ~(j < k)
      OBVIOUS
    <3>1. m <= Len(ps) - k
      <4> HIDE DEF T
      <4> QED BY <2>2, <2>4
    <3>2. j \in Nat /\ k \in Nat
      <4> HIDE DEF same
      <4> QED BY <1>1, <2>1, <2>5
    <3> HIDE DEF same, T
    <3> QED BY <1>1, <2>5, <3>1, <3>2
  <2>7. j \in Places(ps) /\ ps[j].kids[1] = ps[i].kids[1]
    BY <2>5
  <2>8. ~Later(j)
    <3> SUFFICES ASSUME NEW k \in Places(ps), j < k, ps[j].kids[1] = ps[k].kids[1] PROVE FALSE
      OBVIOUS
    <3>1. k \in same
      BY <2>7
    <3> QED BY <2>6, <3>1
  <2>9. j \in Places(r) /\ r[j] = ps[j]
    <3> HIDE DEF r, Later, same, T
    <3> QED BY <1>6, <2>7, <2>8
  <2> HIDE DEF r
  <2> QED BY <2>7, <2>9
<1>9. \A i \in Places(ps) \ Places(r) :
        \E j \in Places(ps) : j # i /\ ps[j].kids[1] = ps[i].kids[1]
  <2> SUFFICES ASSUME NEW i \in Places(ps), i \notin Places(r)
               PROVE  \E j \in Places(ps) : j # i /\ ps[j].kids[1] = ps[i].kids[1]
    OBVIOUS
  <2>1. Later(i)
    <3> HIDE DEF r, Later
    <3> QED BY <1>6
  <2>2. PICK j \in Places(ps) : i < j /\ ps[i].kids[1] = ps[j].kids[1]
    BY <2>1
  <2>3. j # i
    BY <1>1, <1>5, <2>2
  <2> QED BY <2>2, <2>3
<1>10. ASSUME \A i, j \in Places(ps) : ps[i].kids[1] = ps[j].kids[1] => i = j
       PROVE  r = ps
  <2>1. \A i \in DOMAIN ps : r[i] = ps[i]
    <3> SUFFICES ASSUME NEW i \in DOMAIN ps, ps[i] # Replaced, Later(i) PROVE FALSE
      <4> HIDE DEF r, Later
      <4> QED BY <1>3
    <3>1. i \in Places(ps)
      BY DEF Places
    <3>2. PICK j \in Places(ps) : i < j /\ ps[i].kids[1] = ps[j].kids[1]
      OBVIOUS
    <3>3. i = j
      BY <1>10, <3>1, <3>2
    <3> QED BY <1>1, <1>5, <3>2, <3>3
  <2> HIDE DEF Later
  <2>2. r = [i \in DOMAIN ps |-> r[i]]
    BY <1>2
  <2>3. ps = [i \in DOMAIN ps |-> ps[i]]
    OBVIOUS
  <2> HIDE DEF r
  <2> QED BY <2>1, <2>2, <2>3
<1> HIDE DEF r
<1>11. /\ r \in Seq(S \cup {Replaced}) /\ DOMAIN r = DOMAIN ps /\ Len(r) = Len(ps)
       /\ Places(r) \subseteq Places(ps)
       /\ \A i \in Places(r) : r[i] = ps[i]
  BY <1>3, <1>4, <1>6
<1> QED BY <1>7, <1>8, <1>9, <1>10, <1>11 DEF r

\* The kids of a value with the described ones replaced.
Below(v, kids) == [i \in DOMAIN v.kids |-> IF i \in Described(v) THEN kids[i] ELSE v.kids[i]]

\* What a value is made into, given what each described kid is made into.
LEMMA RebuiltIs ==
  ASSUME NEW S, Replaced \notin S, NEW v \in Nodes(S), NEW kids,
         \A i \in Described(v) : kids[i] \in S /\ kids[i].kind = v.kids[i].kind
  PROVE  LET w == Rebuilt(v, kids)
             b == Below(v, kids)
         IN
         /\ w \in Nodes(S) /\ w.kind = v.kind
         /\ v.kind = "string" => w = Repaired(v)
         /\ v.kind # "string" => w.text = v.text
         /\ DOMAIN w.kids = DOMAIN v.kids
         /\ Places(w.kids) \subseteq Places(v.kids)
         /\ \A i \in Places(w.kids) : w.kids[i] = b[i]
         /\ v.kind # "map" => Places(w.kids) = Places(v.kids)
         /\ \A i \in Places(v.kids) \ Places(w.kids) :
              /\ \E j \in Places(w.kids) : w.kids[j].kids[1] = b[i].kids[1]
              /\ \E j \in Places(v.kids) : j # i /\ b[j].kids[1] = b[i].kids[1]
         /\ v.kind # "string" /\ b = v.kids => w = v
<1> DEFINE w == Rebuilt(v, kids)
           b == Below(v, kids)
           R == S \cup {Replaced}
<1>1. /\ v \in [kind : Kinds, text : Strings \cup Labels, kids : Seq(R)]
      /\ WellFormed(v)
      /\ Len(v.kids) \in Nat /\ DOMAIN v.kids = 1 .. Len(v.kids)
      /\ \A i \in DOMAIN v.kids : v.kids[i] \in R
      /\ \A i \in Places(v.kids) : v.kids[i] \in S /\ v.kids[i] # Replaced
  BY NodesAre
<1>2. Described(v) \subseteq Places(v.kids) /\ Places(v.kids) \subseteq DOMAIN v.kids
  BY DEF Described, Places
<1>3. /\ DOMAIN b = DOMAIN v.kids
      /\ \A i \in DOMAIN v.kids : b[i] = IF i \in Described(v) THEN kids[i] ELSE v.kids[i]
  BY DEF Below
<1> HIDE DEF b
<1>4. /\ \A i \in DOMAIN v.kids : b[i] \in R
      /\ \A i \in Places(v.kids) : b[i] \in S /\ b[i].kind = v.kids[i].kind
  BY <1>1, <1>2, <1>3
<1>5. b \in Seq(R) /\ Len(b) = Len(v.kids)
  <2>1. b = [i \in 1 .. Len(v.kids) |-> b[i]]
    BY <1>1 DEF b, Below
  <2>2. b \in [1 .. Len(v.kids) -> R]
    BY <1>1, <1>4, <2>1
  <2> QED BY <1>1, <2>2
<1>6. Places(b) = Places(v.kids)
  <2>1. \A i \in DOMAIN v.kids : i \notin Places(v.kids) => v.kids[i] = Replaced
    BY DEF Places
  <2> QED BY <1>2, <1>3, <1>4, <2>1 DEF Places
<1>7. w = CASE v.kind = "string" -> Repaired(v)
            [] v.kind = "map" -> [v EXCEPT !.kids = LastOfEachKey(b)]
            [] OTHER -> [v EXCEPT !.kids = b]
  BY DEF Rebuilt, b, Below
<1> HIDE DEF w
<1>8. CASE v.kind = "string"
  <2>1. w = Repaired(v) /\ v.text \in Strings /\ v.kids = <<>>
    BY <1>1, <1>7, <1>8 DEF WellFormed
  <2>2. ToValidUTF8[v.text] \in Strings
    BY <2>1, SanitizeAssumption DEF SanitizeAssumption
  <2>3. w = [v EXCEPT !.text = ToValidUTF8[v.text]]
    BY <2>1 DEF Repaired
  <2>4. /\ w \in [kind : Kinds, text : Strings \cup Labels, kids : Seq(R)]
        /\ w.kind = "string" /\ w.kids = <<>> /\ w.text \in Strings
    BY <1>1, <1>8, <2>1, <2>2, <2>3
  <2>5. WellFormed(w)
    <3>1. Places(<<>>) = DOMAIN <<>>
      BY DEF Places
    <3> QED BY <2>4, <3>1 DEF WellFormed
  <2>6. w \in Nodes(S)
    BY <2>4, <2>5 DEF Nodes
  <2>7. Places(v.kids) = {} /\ Places(w.kids) = {} /\ DOMAIN w.kids = DOMAIN v.kids
    BY <2>1, <2>4 DEF Places
  <2> QED BY <1>8, <2>1, <2>4, <2>6, <2>7 DEF w, b
<1>9. CASE v.kind = "map"
  <2> DEFINE r == LastOfEachKey(b)
  <2>1. /\ r \in Seq(R) /\ DOMAIN r = DOMAIN b
        /\ Places(r) \subseteq Places(b)
        /\ \A i \in Places(r) : r[i] = b[i]
        /\ \A i, j \in Places(r) : r[i].kids[1] = r[j].kids[1] => i = j
        /\ \A i \in Places(b) : \E j \in Places(r) : r[j].kids[1] = b[i].kids[1]
        /\ \A i \in Places(b) \ Places(r) :
             \E j \in Places(b) : j # i /\ b[j].kids[1] = b[i].kids[1]
        /\ (\A i, j \in Places(b) : b[i].kids[1] = b[j].kids[1] => i = j) => r = b
    BY <1>5, LastOfEachKeyIs
  <2>2. w = [v EXCEPT !.kids = r]
    BY <1>7, <1>9
  <2> HIDE DEF r
  <2>3. /\ w \in [kind : Kinds, text : Strings \cup Labels, kids : Seq(R)]
        /\ w.kind = "map" /\ w.text = v.text /\ w.kids = r
    BY <1>1, <1>9, <2>1, <2>2
  <2>4. /\ v.text \in Labels
        /\ \A i, j \in Places(v.kids) : /\ v.kids[i].kind = "pair"
                                        /\ v.kids[i].kids[1] = v.kids[j].kids[1] => i = j
    BY <1>1, <1>9 DEF WellFormed
  <2>5. WellFormed(w)
    <3>1. \A i \in Places(r) : r[i].kind = "pair"
      BY <1>4, <1>6, <2>1, <2>4
    <3> QED BY <2>1, <2>3, <2>4, <3>1 DEF WellFormed
  <2>6. w \in Nodes(S)
    BY <2>3, <2>5 DEF Nodes
  <2>7. b = v.kids => w = v
    <3> SUFFICES ASSUME b = v.kids PROVE w = v
      OBVIOUS
    <3>1. r = v.kids
      BY <2>1, <2>4
    <3> QED BY <1>1, <2>2, <3>1
  <2>8. \A i \in Places(v.kids) \ Places(w.kids) :
          /\ \E j \in Places(w.kids) : w.kids[j].kids[1] = b[i].kids[1]
          /\ \E j \in Places(v.kids) : j # i /\ b[j].kids[1] = b[i].kids[1]
    BY <1>6, <2>1, <2>3
  <2> QED BY <1>3, <1>6, <1>9, <2>1, <2>3, <2>6, <2>7, <2>8 DEF w, b
<1>10. CASE v.kind # "string" /\ v.kind # "map"
  <2>1. w = [v EXCEPT !.kids = b]
    BY <1>7, <1>10
  <2>2. /\ w \in [kind : Kinds, text : Strings \cup Labels, kids : Seq(R)]
        /\ w.kind = v.kind /\ w.text = v.text /\ w.kids = b
    BY <1>1, <1>5, <2>1
  <2>3. /\ v.text \in Labels /\ Places(v.kids) = DOMAIN v.kids
        /\ v.kind = "pair" => Len(v.kids) = 2
    BY <1>1, <1>10 DEF WellFormed
  <2>4. WellFormed(w)
    BY <1>3, <1>5, <1>6, <1>10, <2>2, <2>3 DEF WellFormed
  <2>5. w \in Nodes(S)
    BY <2>2, <2>4 DEF Nodes
  <2>6. b = v.kids => w = v
    BY <1>1, <2>1
  <2> QED BY <1>3, <1>6, <1>10, <2>2, <2>5, <2>6 DEF w, b
<1> QED BY <1>8, <1>9, <1>10

\* What sanitizing does to the values of a height.
CleanKey(k) == IF k.kind = "string" THEN Repaired(k) ELSE k

CleanTo(n) ==
  \A v \in Values[n] :
    /\ Sanitized[n][v] \in Values[n] /\ Sanitized[n][v].kind = v.kind
    /\ v.kind = "string" => Sanitized[n][v] = Repaired(v)
    /\ v.kind = "pair" => Sanitized[n][v].kids[1] = CleanKey(v.kids[1])
    /\ Reached[n][Sanitized[n][v]] \subseteq Valid
    /\ Reached[n][v] \subseteq Valid => Sanitized[n][v] = v
    /\ SameShape[n][v][Sanitized[n][v]]

\* A key that is a string stays one.
LEMMA KeysAreNodes ==
  ASSUME NEW n \in 0 .. Height, NEW p \in Values[n], p.kind = "pair",
         p.kids[1].kind = "string"
  PROVE  Repaired(p.kids[1]).kind = "string"
<1>1. \A m \in 0 .. Height : \A q \in Values[m] :
        m - 1 \in 0 .. Height /\ q \in Nodes(Values[m - 1]) /\ Replaced \notin Values[m - 1]
  <2> SUFFICES ASSUME NEW m \in 0 .. Height, NEW q \in Values[m]
               PROVE  /\ m - 1 \in 0 .. Height /\ q \in Nodes(Values[m - 1])
                      /\ Replaced \notin Values[m - 1]
    OBVIOUS
  <2>1. m # 0
    BY ValuesAre
  <2>2. m \in 1 .. Height /\ m - 1 \in 0 .. Height
    BY <2>1, HeightNat
  <2> QED BY <2>2, ValuesAre, SanitizeAssumption DEF SanitizeAssumption
<1>2. /\ WellFormed(p) /\ DOMAIN p.kids = 1 .. Len(p.kids)
      /\ \A i \in Places(p.kids) : p.kids[i] \in Values[n - 1]
  <2>1. p \in Nodes(Values[n - 1]) /\ Replaced \notin Values[n - 1]
    BY <1>1
  <2> QED BY <2>1, NodesAre
<1>3. 1 \in Places(p.kids)
  BY <1>2 DEF WellFormed
<1>4. p.kids[1] \in Values[n - 1]
  BY <1>2, <1>3
<1>5. p.kids[1] \in Nodes(Values[(n - 1) - 1])
  BY <1>1, <1>4
<1> DEFINE T == Values[(n - 1) - 1]
<1>6. p.kids[1] \in [kind : Kinds, text : Strings \cup Labels, kids : Seq(T \cup {Replaced})]
  BY <1>5 DEF Nodes
<1> HIDE DEF T
<1> QED BY <1>6 DEF Repaired

\* It is so one height up: nothing that is clean changes, what is described gets clean, and
\* entries go only where their keys become equal to that of another.
LEMMA OneHigher ==
  ASSUME NEW n \in 1 .. Height, CleanTo(n - 1)
  PROVE  CleanTo(n)
<1> DEFINE S == Values[n - 1]
<1>1. n - 1 \in 0 .. Height /\ Replaced \notin S /\ Values[n] = Nodes(S)
  BY HeightNat, ValuesAre, SanitizeAssumption DEF SanitizeAssumption
<1> SUFFICES ASSUME NEW v \in Values[n]
             PROVE  /\ Sanitized[n][v] \in Values[n] /\ Sanitized[n][v].kind = v.kind
                    /\ v.kind = "string" => Sanitized[n][v] = Repaired(v)
                    /\ v.kind = "pair" => Sanitized[n][v].kids[1] = CleanKey(v.kids[1])
                    /\ Reached[n][Sanitized[n][v]] \subseteq Valid
                    /\ Reached[n][v] \subseteq Valid => Sanitized[n][v] = v
                    /\ SameShape[n][v][Sanitized[n][v]]
  BY DEF CleanTo
<1> DEFINE kids == [i \in Described(v) |-> Sanitized[n - 1][v.kids[i]]]
           w == Sanitized[n][v]
           b == Below(v, kids)
<1>2. /\ v \in [kind : Kinds, text : Strings \cup Labels, kids : Seq(S \cup {Replaced})]
      /\ WellFormed(v)
      /\ Len(v.kids) \in Nat /\ DOMAIN v.kids = 1 .. Len(v.kids)
      /\ \A i \in DOMAIN v.kids : v.kids[i] \in S \cup {Replaced}
      /\ \A i \in Places(v.kids) : v.kids[i] \in S /\ v.kids[i] # Replaced
  <2>1. v \in Nodes(S) /\ Replaced \notin S
    BY <1>1
  <2> HIDE DEF S
  <2> QED BY <2>1, NodesAre
<1>3. w = Rebuilt(v, kids)
  BY SanitizedAre, Zenon
<1>4. Described(v) \subseteq Places(v.kids) /\ Places(v.kids) \subseteq DOMAIN v.kids
  BY DEF Described, Places
<1>5. \A i \in Described(v) :
        /\ v.kids[i] \in S /\ kids[i] = Sanitized[n - 1][v.kids[i]]
        /\ kids[i] \in S /\ kids[i].kind = v.kids[i].kind
        /\ v.kids[i].kind = "string" => kids[i] = Repaired(v.kids[i])
        /\ v.kids[i].kind = "pair" => kids[i].kids[1] = CleanKey(v.kids[i].kids[1])
        /\ Reached[n - 1][kids[i]] \subseteq Valid
        /\ Reached[n - 1][v.kids[i]] \subseteq Valid => kids[i] = v.kids[i]
        /\ SameShape[n - 1][v.kids[i]][kids[i]]
  BY <1>2, <1>4 DEF CleanTo
<1> HIDE DEF kids, w
<1>6. /\ w \in Nodes(S) /\ w.kind = v.kind
      /\ v.kind = "string" => w = Repaired(v)
      /\ v.kind # "string" => w.text = v.text
      /\ DOMAIN w.kids = DOMAIN v.kids
      /\ Places(w.kids) \subseteq Places(v.kids)
      /\ \A i \in Places(w.kids) : w.kids[i] = b[i]
      /\ v.kind # "map" => Places(w.kids) = Places(v.kids)
      /\ \A i \in Places(v.kids) \ Places(w.kids) :
           /\ \E j \in Places(w.kids) : w.kids[j].kids[1] = b[i].kids[1]
           /\ \E j \in Places(v.kids) : j # i /\ b[j].kids[1] = b[i].kids[1]
      /\ v.kind # "string" /\ b = v.kids => w = v
  <2>1. \A i \in Described(v) : kids[i] \in S /\ kids[i].kind = v.kids[i].kind
    BY <1>5
  <2>2. v \in Nodes(S) /\ Replaced \notin S
    BY <1>1
  <2> HIDE DEF S
  <2> QED BY <1>3, <2>1, <2>2, RebuiltIs
<1>7. \A i \in DOMAIN v.kids : b[i] = IF i \in Described(v) THEN kids[i] ELSE v.kids[i]
  BY DEF Below
<1>8. w \in Values[n]
  BY <1>1, <1>6
<1>9. b = [i \in DOMAIN v.kids |-> b[i]]
  BY DEF Below
<1> HIDE DEF b, S
\* Strings.
<1>10. ASSUME v.kind = "string"
       PROVE  /\ w = Repaired(v) /\ w.text = ToValidUTF8[v.text] /\ v.text \in Strings
              /\ v.kids = <<>> /\ w.kids = <<>> /\ w.text \in Valid
              /\ Reached[n][v] = {v.text} /\ Reached[n][w] = {w.text}
              /\ v.text \in Valid => w = v
  <2>1. w = Repaired(v) /\ v.text \in Strings /\ v.kids = <<>>
    BY <1>2, <1>6, <1>10 DEF WellFormed
  <2>2. w.text = ToValidUTF8[v.text] /\ w.kids = <<>>
    BY <1>2, <2>1 DEF Repaired
  <2>3. w.text \in Valid
    BY <2>1, <2>2, SanitizeAssumption DEF SanitizeAssumption
  <2>4. v.text \in Valid => w = v
    <3> SUFFICES ASSUME v.text \in Valid PROVE w = v
      OBVIOUS
    <3>1. ToValidUTF8[v.text] = v.text
      BY SanitizeAssumption DEF SanitizeAssumption
    <3> QED BY <1>2, <2>1, <3>1 DEF Repaired
  <2>5. Reached[n][v] = {v.text} /\ Reached[n][w] = {w.text}
    BY <1>6, <1>8, <1>10, ReachedAre
  <2> QED BY <2>1, <2>2, <2>3, <2>4, <2>5
\* The keys of pairs.
<1>11. ASSUME v.kind = "pair"
       PROVE  w.kids[1] = CleanKey(v.kids[1])
  <2>1. 1 \in Places(v.kids) /\ 1 \in DOMAIN v.kids
    BY <1>2, <1>11 DEF WellFormed
  <2>2. w.kids[1] = b[1]
    BY <1>6, <1>11, <2>1
  <2>3. 1 \in Described(v) <=> v.kids[1].kind = "string"
    BY <1>11, <2>1 DEF Described
  <2> QED BY <1>5, <1>7, <2>1, <2>2, <2>3 DEF CleanKey
\* What is described in the new value is so in the old one.
<1>12. v.kind # "string" => Described(w) \subseteq Described(v)
  <2> SUFFICES ASSUME v.kind # "string", NEW i \in Described(w) PROVE i \in Described(v)
    OBVIOUS
  <2>1. /\ i \in Places(w.kids) /\ w.kind \notin {"iface", "other"}
        /\ ~(w.kind = "field" /\ w.text = "hidden")
        /\ w.kind = "pair" /\ i = 1 => w.kids[1].kind = "string"
    BY DEF Described
  <2>2. /\ i \in Places(v.kids) /\ v.kind \notin {"iface", "other"}
        /\ ~(v.kind = "field" /\ v.text = "hidden")
    BY <1>6, <2>1
  <2>3. ASSUME v.kind = "pair", i = 1 PROVE v.kids[1].kind = "string"
    <3>1. w.kids[1].kind = "string" /\ w.kids[1] = CleanKey(v.kids[1])
      BY <1>6, <1>11, <2>1, <2>3
    <3> QED BY <3>1 DEF CleanKey
  <2> QED BY <2>2, <2>3 DEF Described
<1>13. Reached[n][w] \subseteq Valid
  <2>1. CASE v.kind = "string"
    BY <1>10, <2>1
  <2>2. CASE v.kind # "string"
    <3>1. Reached[n][w] = UNION {Reached[n - 1][w.kids[i]] : i \in Described(w)}
      BY <1>6, <1>8, <2>2, ReachedAre
    <3>2. \A i \in Described(w) : Reached[n - 1][w.kids[i]] \subseteq Valid
      <4> SUFFICES ASSUME NEW i \in Described(w)
                   PROVE  Reached[n - 1][w.kids[i]] \subseteq Valid
        OBVIOUS
      <4>1. i \in Described(v) /\ i \in Places(w.kids) /\ i \in DOMAIN v.kids
        BY <1>4, <1>12, <2>2 DEF Described
      <4>2. w.kids[i] = kids[i]
        BY <1>6, <1>7, <4>1
      <4> QED BY <1>5, <4>1, <4>2
    <3> QED BY <3>1, <3>2
  <2> QED BY <2>1, <2>2
<1>14. ASSUME Reached[n][v] \subseteq Valid PROVE w = v
  <2>1. CASE v.kind = "string"
    BY <1>10, <1>14, <2>1
  <2>2. CASE v.kind # "string"
    <3>1. Reached[n][v] = UNION {Reached[n - 1][v.kids[i]] : i \in Described(v)}
      BY <2>2, ReachedAre
    <3>2. \A i \in Described(v) : kids[i] = v.kids[i]
      <4>1. \A i \in Described(v) : Reached[n - 1][v.kids[i]] \subseteq Valid
        BY <1>14, <3>1
      <4> QED BY <1>5, <4>1
    <3>3. \A i \in DOMAIN v.kids : b[i] = v.kids[i]
      BY <1>7, <3>2
    <3>4. v.kids = [i \in DOMAIN v.kids |-> v.kids[i]]
      BY <1>2
    <3>5. b = v.kids
      BY <1>9, <3>3, <3>4
    <3> QED BY <1>6, <2>2, <3>5
  <2> QED BY <2>1, <2>2
<1>15. \A i \in Places(w.kids) :
         IF i \in Described(v) THEN SameShape[n - 1][v.kids[i]][w.kids[i]]
         ELSE w.kids[i] = v.kids[i]
  <2> SUFFICES ASSUME NEW i \in Places(w.kids)
               PROVE  IF i \in Described(v) THEN SameShape[n - 1][v.kids[i]][w.kids[i]]
                      ELSE w.kids[i] = v.kids[i]
    OBVIOUS
  <2>1. w.kids[i] = b[i] /\ i \in DOMAIN v.kids
    BY <1>4, <1>6
  <2>2. w.kids[i] = IF i \in Described(v) THEN kids[i] ELSE v.kids[i]
    BY <1>7, <2>1
  <2>3. CASE i \in Described(v)
    <3>1. w.kids[i] = kids[i]
      BY <2>2, <2>3
    <3> QED BY <1>5, <2>3, <3>1
  <2>4. CASE i \notin Described(v)
    BY <2>2, <2>4
  <2> QED BY <2>3, <2>4
\* Entries that go.
<1>16. ASSUME NEW i \in Places(v.kids) \ Places(w.kids)
       PROVE  /\ v.kind = "map" /\ v.kids[i].kids[1].kind = "string"
              /\ \E j \in Places(w.kids) : w.kids[j].kids[1] = Repaired(v.kids[i].kids[1])
  <2>1. v.kind = "map"
    BY <1>6, <1>16
  <2>2. /\ \A k \in Places(v.kids) : v.kids[k].kind = "pair"
        /\ \A k, j \in Places(v.kids) : v.kids[k].kids[1] = v.kids[j].kids[1] => k = j
    BY <1>2, <2>1 DEF WellFormed
  <2>3. Described(v) = Places(v.kids)
    BY <2>1 DEF Described
  <2>4. \A k \in Places(v.kids) : b[k].kids[1] = CleanKey(v.kids[k].kids[1])
    BY <1>4, <1>5, <1>7, <2>2, <2>3
  <2>5. PICK j \in Places(v.kids) : j # i /\ b[j].kids[1] = b[i].kids[1]
    BY <1>6
  <2>6. PICK k \in Places(w.kids) : w.kids[k].kids[1] = b[i].kids[1]
    BY <1>6
  <2> DEFINE x == v.kids[i].kids[1]
             y == v.kids[j].kids[1]
  <2>7. CleanKey(x) = CleanKey(y) /\ x # y
    BY <2>2, <2>4, <2>5
  <2>8. /\ x.kind = "string" => CleanKey(x) = Repaired(x)
        /\ x.kind # "string" => CleanKey(x) = x
        /\ y.kind = "string" => CleanKey(y) = Repaired(y)
        /\ y.kind # "string" => CleanKey(y) = y
    BY DEF CleanKey
  <2>9. /\ x.kind = "string" => Repaired(x).kind = "string"
        /\ y.kind = "string" => Repaired(y).kind = "string"
    BY <1>1, <1>2, <2>2, KeysAreNodes DEF S
  <2>10. x.kind = "string"
    BY <2>7, <2>8, <2>9
  <2> QED BY <2>1, <2>4, <2>6, <2>8, <2>10
<1>17. SameShape[n][v][w]
  <2>1. Alike(v, w, SameShape[n - 1])
    BY <1>6, <1>15, <1>16, Zenon DEF Alike
  <2> QED BY <1>8, <2>1, ShapesAre
<1>18. /\ w \in Values[n] /\ w.kind = v.kind
       /\ v.kind = "string" => w = Repaired(v)
       /\ v.kind = "pair" => w.kids[1] = CleanKey(v.kids[1])
       /\ Reached[n][w] \subseteq Valid
       /\ Reached[n][v] \subseteq Valid => w = v
       /\ SameShape[n][v][w]
  BY <1>6, <1>8, <1>11, <1>13, <1>14, <1>17
<1> QED BY ONLY <1>18 DEF w

LEMMA CleanEverywhere == \A n \in 0 .. Height : CleanTo(n)
<1> DEFINE T == {n \in 0 .. Height : ~CleanTo(n)}
<1> SUFFICES ASSUME T # {} PROVE FALSE
  OBVIOUS
<1>1. PICK n \in T : \A k \in T : n <= k
  <2>1. T \subseteq Nat
    OBVIOUS
  <2> HIDE DEF T
  <2> QED BY <2>1, LeastNumber
<1>2. n # 0
  BY ValuesAre DEF CleanTo
<1>3. n \in 1 .. Height /\ n - 1 \in 0 .. Height /\ ~(n <= n - 1)
  BY <1>2, HeightNat
<1>4. CleanTo(n - 1)
  BY <1>1, <1>3
<1> QED BY <1>3, <1>4, OneHigher

\* What a message has become.
SanitizeInv ==
  /\ form \in Forms /\ schema \in BOOLEAN /\ body \in Bodies
  /\ schema /\ form \in {"value", "pointer"} => output \in {<<>>, Sanitized[Height][body]}

LEMMA SanitizeBegins == SanitizeInit => SanitizeInv
BY DEF SanitizeInit, SanitizeInv

LEMMA SanitizeKeeps == SanitizeInv /\ [SanitizeMessage]_sanitizeVars => SanitizeInv'
BY DEF SanitizeMessage, sanitizeVars, SanitizeInv

\* No string with invalid bytes that the schema describes is written, and messages are not
\* otherwise changed (sanitizeValueByType), for values of any height.
THEOREM SanitizesAll == SanitizeSpec => []SanitizedClean
<1>1. SanitizeInv => SanitizedClean
  <2> SUFFICES ASSUME SanitizeInv, output # <<>>, schema, form \in {"value", "pointer"}
               PROVE  /\ output \in Values[Height]
                      /\ Reached[Height][output] \subseteq Valid
                      /\ SameShape[Height][body][output]
                      /\ Reached[Height][body] \subseteq Valid => output = body
                      /\ Sanitized[Height][output] = output
    BY DEF SanitizedClean
  <2>1. Height \in 0 .. Height /\ CleanTo(Height)
    BY HeightNat, CleanEverywhere
  <2>2. body \in Values[Height]
    BY SanitizeAssumption DEF SanitizeAssumption, SanitizeInv
  <2>3. output = Sanitized[Height][body]
    BY DEF SanitizeInv
  <2>4. /\ output \in Values[Height]
        /\ Reached[Height][output] \subseteq Valid
        /\ SameShape[Height][body][output]
        /\ Reached[Height][body] \subseteq Valid => output = body
    BY <2>1, <2>2, <2>3 DEF CleanTo
  <2>5. Sanitized[Height][output] = output
    BY <2>1, <2>4 DEF CleanTo
  <2> QED BY <2>4, <2>5
<1> QED BY <1>1, SanitizeBegins, SanitizeKeeps, PTL DEF SanitizeSpec

-----------------------------------------------------------------------------
(* The parts together                                                      *)

\* Every behaviour of the run is a behaviour of each of its parts, so that what is proved
\* of a part holds of the run.
THEOREM ProcessParts ==
  ProcessSpec =>
    JobControlSpec /\ ShutdownSpec /\ SubscriptionsSpec /\ Spec /\ SanitizeSpec
<1>1. ProcessInit => JobControlInit /\ ShutdownInit /\ SubscriptionsInit /\ Init /\ SanitizeInit
  BY DEF ProcessInit
<1>2. [ProcessNext]_processVars =>
        /\ [JobControlNext]_jobVars /\ [ShutdownNext]_shutdownVars
        /\ [SubscriptionsNext]_subVars /\ [Next]_vars /\ [SanitizeMessage]_sanitizeVars
  BY DEF ProcessNext, Alone, processVars
<1> QED BY <1>1, <1>2, PTL
        DEF ProcessSpec, JobControlSpec, ShutdownSpec, SubscriptionsSpec, Spec, SanitizeSpec

\* The part that runs keeps the types of its variables.
THEOREM ProcessTypeCorrect == ProcessSpec => []PartsTypeOK
<1>1. ProcessSpec => [](part \in Parts)
  <2>1. ProcessInit => part \in Parts
    BY DEF ProcessInit
  <2>2. part \in Parts /\ [ProcessNext]_processVars => (part \in Parts)'
    BY DEF ProcessNext, Alone, processVars
  <2> QED BY <2>1, <2>2, PTL DEF ProcessSpec
<1>2. Spec => []TypeOK
  <2>1. HandedInv => TypeOK
    BY DEF HandedInv
  <2> QED BY <2>1, HandedInit, HandedStep, PTL DEF Spec
<1>3. SanitizeSpec => []SanitizeInv
  BY SanitizeBegins, SanitizeKeeps, PTL DEF SanitizeSpec
<1>4. /\ part \in Parts /\ JobControlTypeOK /\ TypeOK /\ ShutdownTypeOK /\ SubscriptionsTypeOK
      /\ SanitizeInv
      => PartsTypeOK
  BY DEF PartsTypeOK, Parts, SanitizeInv
<1> QED BY <1>1, <1>2, <1>3, <1>4, ProcessParts, JobControlTypeCorrect, ShutdownTypeCorrect,
           SubscriptionsTypeCorrect, PTL
=============================================================================
