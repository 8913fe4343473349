-------------------------------- MODULE Steps --------------------------------
(***************************************************************************)
(* The two step runners of pkg/schedule/steps.go: RunStepsWithContext, one *)
(* step after the other, and RunStepsAsync, a goroutine per step and a     *)
(* WaitGroup.  A step that fails or panics does not keep the others from   *)
(* running; a cancelled context keeps those from running that have not     *)
(* been started.                                                           *)
(***************************************************************************)
EXTENDS Naturals, Sequences, FiniteSets, SequencesExt

CONSTANTS
  N,         \* number of steps
  NilSteps   \* the steps without a function

ASSUME StepsAssumption == N \in Nat \ {0} /\ NilSteps \subseteq 1 .. N

VARIABLES
  async,      \* which of the two was called
  cancelled,  \* ctx.Err() # nil
  loopAt,     \* the step the loop is at
  stepPc,     \* per step: "new", "running", "stored" (its result is), "ended" (its error is
              \* appended), "counted" (wg.Done) or "skipped"
  results,    \* per step: what its StepResult says
  errs,       \* the steps whose errors were appended, in that order
  wg,         \* the counter of the WaitGroup
  returned    \* the caller has its results

stepVars == <<async, cancelled, loopAt, stepPc, results, errs, wg, returned>>

Outcomes == {"none", "ok", "failed", "panic", "nilFunction", "cancelled"}

\* The types; in particular the WaitGroup never counts below zero, where it would panic.
StepsTypeOK ==
  /\ async \in BOOLEAN /\ cancelled \in BOOLEAN /\ returned \in BOOLEAN
  /\ loopAt \in 1 .. N + 1 /\ wg \in 0 .. N
  /\ stepPc \in [1 .. N -> {"new", "running", "stored", "ended", "counted", "skipped"}]
  /\ results \in [1 .. N -> Outcomes]
  /\ errs \in Seq(1 .. N)

StepsInit ==
  /\ async \in BOOLEAN /\ cancelled = FALSE
  /\ loopAt = 1 /\ stepPc = [i \in 1 .. N |-> "new"]
  /\ results = [i \in 1 .. N |-> "none"] /\ errs = <<>>
  /\ wg = (IF async THEN N ELSE 0) /\ returned = FALSE

CancelSteps ==
  /\ ~cancelled /\ cancelled' = TRUE
  /\ UNCHANGED <<async, loopAt, stepPc, results, errs, wg, returned>>

-----------------------------------------------------------------------------
(* The loop.  One after the other, it waits for the step it has called.     *)

Waiting == ~async /\ \E i \in 1 .. N : stepPc[i] \in {"running", "stored"}
Looping == loopAt <= N /\ ~Waiting

\* Slip: the WaitGroup is not told of a step that was skipped.
SkipStepUncounted ==
  /\ Looping /\ cancelled
  /\ results' = [results EXCEPT ![loopAt] = "cancelled"]
  /\ errs' = Append(errs, loopAt)
  /\ stepPc' = [stepPc EXCEPT ![loopAt] = "skipped"]
  /\ loopAt' = loopAt + 1
  /\ UNCHANGED <<async, cancelled, wg, returned>>

\* Slip: without its continue, the loop goes on to start the step.
SkipStepStarts ==
  /\ Looping /\ cancelled
  /\ results' = [results EXCEPT ![loopAt] = "cancelled"]
  /\ errs' = Append(errs, loopAt)
  /\ stepPc' = [stepPc EXCEPT ![loopAt] = "running"]
  /\ loopAt' = loopAt + 1
  /\ wg' = IF async THEN wg - 1 ELSE wg
  /\ UNCHANGED <<async, cancelled, returned>>

\* The loop finds the context cancelled.  Nobody but this goroutine waits for wg.
SkipStep ==
  /\ Looping /\ cancelled
  /\ results' = [results EXCEPT ![loopAt] = "cancelled"]
  /\ errs' = Append(errs, loopAt)
  /\ stepPc' = [stepPc EXCEPT ![loopAt] = "skipped"]
  /\ loopAt' = loopAt + 1
  /\ wg' = IF async THEN wg - 1 ELSE wg
  /\ UNCHANGED <<async, cancelled, returned>>

\* The loop starts a step: calls it, or its goroutine.
StartStep ==
  /\ Looping /\ ~cancelled
  /\ stepPc' = [stepPc EXCEPT ![loopAt] = "running"]
  /\ loopAt' = loopAt + 1
  /\ UNCHANGED <<async, cancelled, results, errs, wg, returned>>

-----------------------------------------------------------------------------
(* A step.  Its goroutine stores the result, appends the error under the      *)
(* mutex and, as the last thing it does, tells the WaitGroup.                 *)

\* It returns or panics, and its result is stored; it may take notice of the context
\* or not.
EndStep(i) ==
  /\ stepPc[i] = "running"
  /\ \E o \in IF i \in NilSteps THEN {"nilFunction"} ELSE {"ok", "failed", "panic"} :
       results' = [results EXCEPT ![i] = o]
  /\ stepPc' = [stepPc EXCEPT ![i] = "stored"]
  /\ UNCHANGED <<async, cancelled, loopAt, errs, wg, returned>>

AppendError(i) ==
  /\ stepPc[i] = "stored"
  /\ errs' = IF results[i] = "ok" THEN errs ELSE Append(errs, i)
  /\ stepPc' = [stepPc EXCEPT ![i] = "ended"]
  /\ UNCHANGED <<async, cancelled, loopAt, results, wg, returned>>

\* Slip: the WaitGroup is told before the error is appended.
StepDoneEarly(i) ==
  /\ async /\ stepPc[i] = "stored"
  /\ wg' = wg - 1
  /\ stepPc' = [stepPc EXCEPT ![i] = "counted"]
  /\ UNCHANGED <<async, cancelled, loopAt, results, errs, returned>>

StepDone(i) ==
  /\ async /\ stepPc[i] = "ended"
  /\ wg' = wg - 1
  /\ stepPc' = [stepPc EXCEPT ![i] = "counted"]
  /\ UNCHANGED <<async, cancelled, loopAt, results, errs, returned>>

\* The end of the loop, or of wg.Wait.
ReturnResults ==
  /\ ~returned /\ loopAt = N + 1
  /\ IF async THEN wg = 0 ELSE ~Waiting
  /\ returned' = TRUE
  /\ UNCHANGED <<async, cancelled, loopAt, stepPc, results, errs, wg>>

StepNext(i) == EndStep(i) \/ AppendError(i) \/ StepDone(i)

StepsNext == CancelSteps \/ SkipStep \/ StartStep \/ (\E i \in 1 .. N : StepNext(i)) \/ ReturnResults

StepsSpec == StepsInit /\ [][StepsNext]_stepVars

-----------------------------------------------------------------------------
(* Properties *)

Failing == {i \in 1 .. N : results[i] \notin {"none", "ok"}}

\* What the caller gets accounts for every step: each has its result in its place,
\* every failure, panic and cancellation is among the joined errors exactly once and
\* nothing else is; the sequential runner reports them in the order of the steps, and
\* no step ran after one that the cancelled context kept from running.
StepsAccounted ==
  returned =>
    /\ \A i \in 1 .. N : results[i] # "none"
    /\ ToSet(errs) = Failing /\ Len(errs) = Cardinality(Failing)
    /\ ~async => \A m, n \in 1 .. Len(errs) : m < n => errs[m] < errs[n]
    /\ \A i, k \in 1 .. N : i < k /\ stepPc[i] = "skipped" => stepPc[k] = "skipped"
=============================================================================
