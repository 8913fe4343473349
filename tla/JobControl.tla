----------------------------- MODULE JobControl -----------------------------
(***************************************************************************)
(* Jobs inside one process: registration (pkg/schedule/cron.go startCron), *)
(* firings and manual runs (Run), the wrapper that retries, recovers and   *)
(* records (options.go wrapFuncJob), and the record kept of the last       *)
(* success (history.go), which a starting process rewrites as well.        *)
(*                                                                         *)
(* A run of a job is its number; the record of a job is the run whose      *)
(* result it holds and the schedule it shows.  Leadership, which decides   *)
(* whether a firing comes to anything, is the module LeaderElection.       *)
(***************************************************************************)
EXTENDS Naturals, Sequences, FiniteSets

CONSTANTS
  Jobs,         \* registered names
  Unknown,      \* a name nobody registered
  Schedules,    \* the configurations: per job "cron", "fine" (@every below a second),
                \* "off", "odd" (cron refuses it) or "bad" (@every, and no duration)
  NoGlobal,     \* jobs that ignore ScheduleDisabled
  NoHistory,    \* jobs without history
  RetryTimes,   \* attempts after the first one
  Workers,      \* goroutines: firings, manual runs
  Booters,      \* processes that start and persist their schedules
  MaxRuns       \* bound on the runs of all jobs

ASSUME JobsAssumption ==
  /\ Unknown \notin Jobs /\ NoGlobal \subseteq Jobs /\ NoHistory \subseteq Jobs
  /\ Schedules \subseteq [Jobs -> {"cron", "fine", "off", "odd", "bad"}]
  /\ RetryTimes \in Nat /\ MaxRuns \in Nat

VARIABLES
  scheduleDisabled,   \* the flag ScheduleDisabled
  configured,         \* its value before any manual run
  schedule,           \* the configuration of the jobs
  reg,                \* per job: what startCron made of it
  cached,             \* cachedJobSchedules: per job [off, next], or Nothing
  work,               \* per worker: its run
  runs,               \* number of runs begun
  outcome,            \* per run: how its last attempt ended (history)
  store,              \* per job: the record in the hash
  latest,             \* per job: the latest run whose success was persisted (history)
  boot,               \* per booter: persistCachedJobSchedules, with the record read
  overlapped,         \* two manual runs were in progress at once (history)
  torn,               \* jobs whose record was written by two at once (history)
  jobPanic            \* NewTicker panicked

switchVars == <<scheduleDisabled, configured, overlapped>>
regVars == <<schedule, reg, cached, jobPanic>>
runVars == <<work, runs, outcome>>
recordVars == <<store, latest, torn>>
jobVars == <<scheduleDisabled, configured, overlapped, schedule, reg, cached, jobPanic,
             work, runs, outcome, store, latest, torn, boot>>

Nothing == [off |-> FALSE, next |-> "none"]
NoRecord == [run |-> 0, off |-> FALSE, next |-> "none"]
Nexts == {"none", "entry", "finish+every", "parsed"}
Records == [run : 0 .. MaxRuns, off : BOOLEAN, next : Nexts]

IdleWork == [pc |-> "idle", job |-> Unknown, raw |-> FALSE, manual |-> FALSE, run |-> 0,
             attempt |-> 0, succeed |-> TRUE]

ManualRuns == {w \in Workers : work[w].manual}

JobControlTypeOK ==
  /\ scheduleDisabled \in BOOLEAN /\ configured \in BOOLEAN
  /\ reg \in [Jobs -> {"new", "off", "cron", "ticker", "refused"}]
  /\ cached \in [Jobs -> [off : BOOLEAN, next : Nexts]]
  /\ \A w \in Workers :
       /\ work[w].pc \in {"idle", "set", "find", "attempt", "push", "persist", "restore"}
       /\ work[w].job \in Jobs \cup {Unknown} /\ work[w].attempt \in 0 .. RetryTimes
       /\ work[w].run \in 0 .. runs
  /\ runs \in 0 .. MaxRuns /\ DOMAIN outcome = 1 .. runs
  /\ store \in [Jobs -> Records]
  /\ boot \in [Booters -> [pc : {"off", "read", "write", "done"}, todo : SUBSET Jobs,
                           job : Jobs \cup {Unknown}, seen : Records]]
  /\ torn \subseteq Jobs

JobControlInit ==
  /\ configured \in BOOLEAN /\ scheduleDisabled = configured
  /\ schedule \in Schedules
  /\ reg = [j \in Jobs |-> "new"] /\ cached = [j \in Jobs |-> Nothing]
  /\ work = [w \in Workers |-> IdleWork]
  /\ runs = 0 /\ outcome = <<>>
  /\ store = [j \in Jobs |-> NoRecord] /\ latest = [j \in Jobs |-> 0]
  /\ boot = [b \in Booters |->
               [pc |-> "off", todo |-> {}, job |-> Unknown, seen |-> NoRecord]]
  /\ overlapped = FALSE /\ torn = {} /\ jobPanic = FALSE

-----------------------------------------------------------------------------
(* startCron.  "@every x" with an x that does not parse is a duration of 0. *)
(* What cron refuses can still be run by hand.                               *)

Disabled(j) == (scheduleDisabled /\ j \notin NoGlobal) \/ schedule[j] = "off"

CacheSchedule(j, off, next) ==
  cached' = [cached EXCEPT ![j] = [off |-> off, next |-> next]]

StartCron(j) ==
  /\ ~jobPanic /\ reg[j] = "new"
  /\ \/ /\ Disabled(j)
        /\ reg' = [reg EXCEPT ![j] = "off"] /\ CacheSchedule(j, TRUE, "none")
        /\ UNCHANGED jobPanic
     \/ /\ ~Disabled(j) /\ schedule[j] = "fine"
        /\ reg' = [reg EXCEPT ![j] = "ticker"] /\ CacheSchedule(j, FALSE, "finish+every")
        /\ UNCHANGED jobPanic
     \/ /\ ~Disabled(j) /\ schedule[j] = "cron"
        /\ reg' = [reg EXCEPT ![j] = "cron"] /\ CacheSchedule(j, FALSE, "entry")
        /\ UNCHANGED jobPanic
     \/ /\ ~Disabled(j) /\ schedule[j] = "odd"
        /\ reg' = [reg EXCEPT ![j] = "refused"] /\ UNCHANGED <<cached, jobPanic>>
     \/ /\ ~Disabled(j) /\ schedule[j] = "bad"
        /\ jobPanic' = TRUE /\ UNCHANGED <<reg, cached>>
  /\ UNCHANGED <<switchVars, schedule, runVars, recordVars, boot>>

\* resolveJobNextRuntime: the cron entry, else the interval, else the parser.
NextRuntime(j) ==
  CASE reg[j] = "cron"      -> "entry"
    [] schedule[j] = "fine" -> "finish+every"
    [] schedule[j] = "cron" -> "parsed"
    [] OTHER                -> "none"

-----------------------------------------------------------------------------
(* Beginning a run *)

Begin(w, j, manual, raw) ==
  /\ runs < MaxRuns /\ runs' = runs + 1
  /\ outcome' = Append(outcome, "running")
  /\ work' = [work EXCEPT ![w] = [IdleWork EXCEPT !.pc = "attempt", !.job = j,
                                    !.manual = manual, !.raw = raw, !.run = runs + 1]]

\* CheckIfEnabled wraps the jobs of cron that heed the flag, no ticker.  A ticker
\* has one goroutine, cron starts one for each firing.
Fire(w, j) ==
  /\ ~jobPanic /\ work[w].pc = "idle"
  /\ \/ reg[j] = "cron" /\ (scheduleDisabled => j \in NoGlobal)
     \/ reg[j] = "ticker" /\ \A v \in Workers : work[v].job = j => work[v].manual
  /\ Begin(w, j, FALSE, FALSE)
  /\ UNCHANGED <<switchVars, regVars, recordVars, boot>>

\* rawSetting := ScheduleDisabled
RunSave(w, j) ==
  /\ ~jobPanic /\ work[w].pc = "idle" /\ runs < MaxRuns
  /\ work' = [work EXCEPT ![w] = [IdleWork EXCEPT !.pc = "set", !.job = j, !.manual = TRUE,
                                    !.raw = scheduleDisabled]]
  /\ overlapped' = (overlapped \/ ManualRuns # {})
  /\ UNCHANGED <<regVars, recordVars, scheduleDisabled, configured, runs, outcome, boot>>

\* ScheduleDisabled = true
RunSet(w) ==
  /\ ~jobPanic /\ work[w].pc = "set"
  /\ scheduleDisabled' = TRUE
  /\ work' = [work EXCEPT ![w].pc = "find"]
  /\ UNCHANGED <<regVars, recordVars, configured, runs, outcome, boot, overlapped>>

\* jobs[jobname]: every registered job is there, disabled ones too.
RunFind(w) ==
  /\ ~jobPanic /\ work[w].pc = "find"
  /\ IF work[w].job \in {j \in Jobs : reg[j] # "new"}
     THEN Begin(w, work[w].job, TRUE, work[w].raw)
     ELSE work' = [work EXCEPT ![w].pc = "restore"] /\ UNCHANGED <<runs, outcome>>
  /\ UNCHANGED <<switchVars, regVars, recordVars, boot>>

\* Slip: the flag is cleared instead of restored.
RunClear(w) ==
  /\ ~jobPanic /\ work[w].pc = "restore"
  /\ scheduleDisabled' = FALSE
  /\ work' = [work EXCEPT ![w] = IdleWork]
  /\ UNCHANGED <<regVars, recordVars, configured, runs, outcome, boot, overlapped>>

\* The deferred function of Run.
RunRestore(w) ==
  /\ ~jobPanic /\ work[w].pc = "restore"
  /\ scheduleDisabled' = work[w].raw
  /\ work' = [work EXCEPT ![w] = IdleWork]
  /\ UNCHANGED <<regVars, recordVars, configured, runs, outcome, boot, overlapped>>

-----------------------------------------------------------------------------
(* wrapFuncJob.  A panic ends the attempts; so does a success.             *)

EndsWith(w, result, succeed) ==
  /\ outcome' = [outcome EXCEPT ![work[w].run] = result]
  /\ work' = [work EXCEPT ![w].succeed = succeed, ![w].pc = "push"]

\* Slip: succeed keeps its value when the last attempt fails.
AttemptUnjudged(w) ==
  /\ ~jobPanic /\ work[w].pc = "attempt"
  /\ \/ EndsWith(w, "ok", TRUE)
     \/ EndsWith(w, "panic", FALSE)
     \/ work[w].attempt = RetryTimes /\ EndsWith(w, "error", work[w].succeed)
     \/ /\ work[w].attempt < RetryTimes
        /\ work' = [work EXCEPT ![w].attempt = @ + 1]
        /\ UNCHANGED outcome
  /\ UNCHANGED <<switchVars, regVars, recordVars, runs, boot>>

\* Slip: there is one attempt too many.
AttemptOnceMore(w) ==
  /\ ~jobPanic /\ work[w].pc = "attempt"
  /\ \/ EndsWith(w, "ok", TRUE)
     \/ EndsWith(w, "panic", FALSE)
     \/ work[w].attempt > RetryTimes /\ EndsWith(w, "error", FALSE)
     \/ /\ work[w].attempt <= RetryTimes
        /\ work' = [work EXCEPT ![w].attempt = @ + 1]
        /\ UNCHANGED outcome
  /\ UNCHANGED <<switchVars, regVars, recordVars, runs, boot>>

Attempt(w) ==
  /\ ~jobPanic /\ work[w].pc = "attempt"
  /\ \/ EndsWith(w, "ok", TRUE)
     \/ EndsWith(w, "panic", FALSE)
     \/ work[w].attempt = RetryTimes /\ EndsWith(w, "error", FALSE)
     \/ /\ work[w].attempt < RetryTimes
        /\ work' = [work EXCEPT ![w].attempt = @ + 1]
        /\ UNCHANGED outcome
  /\ UNCHANGED <<switchVars, regVars, recordVars, runs, boot>>

\* A panic of the job goes no further than the wrapper.
AfterRun(w) == [work EXCEPT ![w] = IF @.manual THEN [@ EXCEPT !.pc = "restore"] ELSE IdleWork]

\* SetJobhistory: every result goes to the adaptor (which may block), ...
PushHistory(w) ==
  /\ ~jobPanic /\ work[w].pc = "push"
  /\ work' = IF work[w].succeed /\ work[w].job \notin NoHistory
             THEN [work EXCEPT ![w].pc = "persist"] ELSE AfterRun(w)
  /\ UNCHANGED <<switchVars, regVars, recordVars, runs, outcome, boot>>

\* The record a success leaves, which is never marked disabled.
SuccessRecord(w) == [run |-> work[w].run, off |-> FALSE, next |-> NextRuntime(work[w].job)]

\* ... a success replaces the whole record as well, unless the hash fails, which is
\* ignored.  Of two overlapping runs the one that began first may come last.
Persist(w) ==
  /\ ~jobPanic /\ work[w].pc = "persist"
  /\ LET j == work[w].job IN
     \/ /\ store' = [store EXCEPT ![j] = SuccessRecord(w)]
        /\ latest' = [latest EXCEPT ![j] = IF @ > work[w].run THEN @ ELSE work[w].run]
        /\ torn' = IF latest[j] > work[w].run THEN torn \cup {j} ELSE torn
     \/ UNCHANGED recordVars
  /\ work' = AfterRun(w)
  /\ UNCHANGED <<switchVars, regVars, runs, outcome, boot>>

-----------------------------------------------------------------------------
(* persistCachedJobSchedules and UpsertJobSchedule, on EventStarted of this *)
(* process or of another one that shares the hash.                          *)

BootStarted(b) ==
  /\ ~jobPanic /\ boot[b].pc = "off"
  /\ boot' = [boot EXCEPT ![b].pc = "read", ![b].todo = {j \in Jobs : cached[j] # Nothing}]
  /\ UNCHANGED <<switchVars, regVars, runVars, recordVars>>

\* GetValues; an error is taken for an absent record.
UpsertRead(b, j) ==
  /\ ~jobPanic /\ boot[b].pc = "read" /\ j \in boot[b].todo
  /\ \E seen \in {store[j], NoRecord} :
       boot' = [boot EXCEPT ![b] = [pc |-> "write", todo |-> boot[b].todo \ {j}, job |-> j,
                                    seen |-> seen]]
  /\ UNCHANGED <<switchVars, regVars, runVars, recordVars>>

\* SetValues, whose error is logged.
UpsertWrite(b) ==
  /\ ~jobPanic /\ boot[b].pc = "write"
  /\ LET j == boot[b].job IN
     \/ /\ store' = [store EXCEPT ![j] = [run |-> boot[b].seen.run, off |-> cached[j].off,
                                          next |-> cached[j].next]]
        /\ torn' = IF store[j].run # boot[b].seen.run THEN torn \cup {j} ELSE torn
     \/ UNCHANGED <<store, torn>>
  /\ boot' = [boot EXCEPT ![b].pc = IF boot[b].todo = {} THEN "done" ELSE "read",
                          ![b].job = Unknown, ![b].seen = NoRecord]
  /\ UNCHANGED <<switchVars, regVars, runVars, latest>>

-----------------------------------------------------------------------------

WorkerNext(w) ==
  \/ \E j \in Jobs : Fire(w, j)
  \/ \E j \in Jobs \cup {Unknown} : RunSave(w, j)
  \/ RunSet(w) \/ RunFind(w) \/ Attempt(w) \/ PushHistory(w) \/ Persist(w) \/ RunRestore(w)

JobControlNext ==
  \/ \E j \in Jobs : StartCron(j)
  \/ \E w \in Workers : WorkerNext(w)
  \/ \E b \in Booters :
       BootStarted(b) \/ UpsertWrite(b) \/ \E j \in Jobs : UpsertRead(b, j)

JobControlSpec == JobControlInit /\ [][JobControlNext]_jobVars

-----------------------------------------------------------------------------
(* Properties *)

\* As long as no two manual runs overlap, the schedule switch is as configured
\* whenever none is in progress, through unknown jobs, errors and panics; and while
\* one is past its first step, the switch is off (Run, cron.go:82).
SwitchRestored ==
  ~overlapped =>
    /\ ManualRuns = {} => scheduleDisabled = configured
    /\ \A w \in ManualRuns : work[w].pc # "set" => scheduleDisabled

\* The record of a job is the result of a run whose last attempt succeeded, however
\* many failed before it, and it is the latest of them that was stored: starting
\* processes that rewrite the schedule keep it.  The exceptions are the two races this
\* code has, two writers of the record that overlap and a read that fails (torn).
HistoryTrue ==
  \A j \in Jobs :
    /\ store[j].run # 0 => outcome[store[j].run] = "ok"
    /\ j \notin torn => store[j].run = latest[j]
=============================================================================
