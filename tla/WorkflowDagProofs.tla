-------------------------- MODULE WorkflowDagProofs --------------------------
(***************************************************************************)
(* Proofs about WorkflowDag, for every number of steps, every dependency   *)
(* map and every bound on attempts.                                        *)
(***************************************************************************)
EXTENDS WorkflowDag, WellFoundedInduction, TLAPS

(***************************************************************************)
(* The operations column by column.                                        *)
(***************************************************************************)
Columns == {"status", "dependencies", "step", "attempt", "attempts", "ready", "blocking"}

HasColumns(d) == d = [c \in Columns |-> d[c]]

(* The readiness columns of e are what recomputeReadiness makes of the rest. *)
Recomputed(e) ==
    /\ e.blocking = [s \in Steps |-> BlockingStepIds(e, s)]
    /\ e.ready = [s \in Steps |-> e.step[s] = "pending" /\ BlockingStepIds(e, s) = {}]

(* e has the dependencies of d and the columns named, and is recomputed. *)
Becomes(e, d, status, step, attempt, attempts) ==
    /\ HasColumns(e)
    /\ e.status = status
    /\ e.dependencies = d.dependencies
    /\ e.step = step
    /\ e.attempt = attempt
    /\ e.attempts = attempts
    /\ Recomputed(e)

LEMMA DagRowsHaveColumns == ASSUME NEW d \in DagRows PROVE HasColumns(d)
  BY DEF DagRows, HasColumns, Columns

LEMMA RecomputeReadinessColumns ==
    ASSUME NEW d, HasColumns(d)
    PROVE  Becomes(RecomputeReadiness(d), d, d.status, d.step, d.attempt, d.attempts)
<1> DEFINE e == RecomputeReadiness(d)
           ready == [s \in Steps |-> d.step[s] = "pending" /\ BlockingStepIds(d, s) = {}]
           blocking == [s \in Steps |-> BlockingStepIds(d, s)]
<1>1. e = [d EXCEPT !.ready = ready, !.blocking = blocking]
  BY DEF RecomputeReadiness
<1> HIDE DEF e, ready, blocking
<1>2. /\ HasColumns(e)
      /\ e.status = d.status /\ e.dependencies = d.dependencies /\ e.step = d.step
      /\ e.attempt = d.attempt /\ e.attempts = d.attempts
      /\ e.ready = ready /\ e.blocking = blocking
  BY <1>1 DEF HasColumns, Columns
<1>3. \A s : BlockingStepIds(e, s) = BlockingStepIds(d, s)
  BY <1>2 DEF BlockingStepIds
<1>4. Recomputed(e)
  BY <1>2, <1>3 DEF Recomputed, ready, blocking
<1>5. QED
  BY <1>2, <1>4 DEF Becomes, e

LEMMA StartStepColumns ==
    ASSUME NEW d \in DagRows, NEW s \in Steps
    PROVE  Becomes(StartStep(d, s), d, "running",
                   [d.step EXCEPT ![s] = "running"],
                   [d.attempt EXCEPT ![s] = @ + 1],
                   [d.attempts EXCEPT ![s] = WithAttempt(@, d.attempt[s] + 1, "running")])
<1> DEFINE step == [d.step EXCEPT ![s] = "running"]
           attempt == [d.attempt EXCEPT ![s] = @ + 1]
           attempts == [d.attempts EXCEPT ![s] = WithAttempt(@, d.attempt[s] + 1, "running")]
           f == [d EXCEPT !.status = "running",
                          !.step = step, !.attempt = attempt, !.attempts = attempts]
<1>1. StartStep(d, s) = RecomputeReadiness(f)
  BY DagRowsHaveColumns DEF StartStep, HasColumns, Columns
<1> HIDE DEF step, attempt, attempts
<1>2. /\ HasColumns(f)
      /\ f.status = "running" /\ f.dependencies = d.dependencies
      /\ f.step = step /\ f.attempt = attempt /\ f.attempts = attempts
  BY DagRowsHaveColumns DEF HasColumns, Columns
<1> HIDE DEF f
<1>3. Becomes(StartStep(d, s), d, "running", step, attempt, attempts)
  BY <1>1, <1>2, RecomputeReadinessColumns DEF Becomes
<1>4. QED
  BY <1>3 DEF step, attempt, attempts

(* The status that finalizeRun leaves. *)
FinalStatus(status, step) ==
    IF \A t \in Steps : step[t] = "completed" THEN "completed"
    ELSE IF status \notin {"failed", "resumable"} THEN "running" ELSE status

LEMMA FinalizeRunColumns ==
    ASSUME NEW d, HasColumns(d), Recomputed(d)
    PROVE  Becomes(FinalizeRun(d), d, FinalStatus(d.status, d.step),
                   d.step, d.attempt, d.attempts)
<1> DEFINE e == FinalizeRun(d)
           status == FinalStatus(d.status, d.step)
<1>1. e = [d EXCEPT !.status = status]
  BY DEF FinalizeRun, FinalStatus, HasColumns, Columns
<1> HIDE DEF e, status
<1>2. /\ HasColumns(e)
      /\ e.status = status /\ e.dependencies = d.dependencies /\ e.step = d.step
      /\ e.attempt = d.attempt /\ e.attempts = d.attempts
      /\ e.ready = d.ready /\ e.blocking = d.blocking
  BY <1>1 DEF HasColumns, Columns
<1>3. \A s : BlockingStepIds(e, s) = BlockingStepIds(d, s)
  BY <1>2 DEF BlockingStepIds
<1>4. Recomputed(e)
  BY <1>2, <1>3 DEF Recomputed
<1>5. QED
  BY <1>2, <1>4 DEF Becomes, e, status

LEMMA CompleteStepColumns ==
    ASSUME NEW d \in DagRows, NEW s \in Steps
    PROVE  LET step == [d.step EXCEPT ![s] = "completed"] IN
           Becomes(CompleteStep(d, s), d, FinalStatus(d.status, step), step, d.attempt,
                   [d.attempts EXCEPT ![s] = WithAttempt(@, d.attempt[s], "completed")])
<1> DEFINE step == [d.step EXCEPT ![s] = "completed"]
           attempts == [d.attempts EXCEPT ![s] = WithAttempt(@, d.attempt[s], "completed")]
           f == [d EXCEPT !.step = step, !.attempts = attempts]
           g == RecomputeReadiness(f)
<1>1. CompleteStep(d, s) = FinalizeRun(g)
  BY DagRowsHaveColumns DEF CompleteStep, HasColumns, Columns
<1> HIDE DEF step, attempts
<1>2. /\ HasColumns(f)
      /\ f.status = d.status /\ f.dependencies = d.dependencies
      /\ f.step = step /\ f.attempt = d.attempt /\ f.attempts = attempts
  BY DagRowsHaveColumns DEF HasColumns, Columns
<1> HIDE DEF f
<1>3. Becomes(g, d, d.status, step, d.attempt, attempts)
  BY <1>2, RecomputeReadinessColumns DEF Becomes
<1> HIDE DEF g
<1>4. Becomes(CompleteStep(d, s), d, FinalStatus(d.status, step), step, d.attempt, attempts)
  BY <1>1, <1>3, FinalizeRunColumns DEF Becomes
<1>5. QED
  BY <1>4 DEF step, attempts

LEMMA FailStepColumns ==
    ASSUME NEW d \in DagRows, NEW s \in Steps
    PROVE  Becomes(FailStep(d, s), d, "failed",
                   [d.step EXCEPT ![s] = "failed"], d.attempt,
                   [d.attempts EXCEPT ![s] = WithAttempt(@, d.attempt[s], "failed")])
<1> DEFINE step == [d.step EXCEPT ![s] = "failed"]
           attempts == [d.attempts EXCEPT ![s] = WithAttempt(@, d.attempt[s], "failed")]
           f == [d EXCEPT !.status = "failed", !.step = step, !.attempts = attempts]
<1>1. FailStep(d, s) = RecomputeReadiness(f)
  BY DagRowsHaveColumns DEF FailStep, HasColumns, Columns
<1> HIDE DEF step, attempts
<1>2. /\ HasColumns(f)
      /\ f.status = "failed" /\ f.dependencies = d.dependencies
      /\ f.step = step /\ f.attempt = d.attempt /\ f.attempts = attempts
  BY DagRowsHaveColumns DEF HasColumns, Columns
<1> HIDE DEF f
<1>3. Becomes(FailStep(d, s), d, "failed", step, d.attempt, attempts)
  BY <1>1, <1>2, RecomputeReadinessColumns DEF Becomes
<1>4. QED
  BY <1>3 DEF step, attempts

LEMMA CancelStepColumns ==
    ASSUME NEW d \in DagRows, NEW s \in Steps, d.step[s] # "cancelled"
    PROVE  Becomes(CancelStep(d, s), d, "cancelled",
                   [d.step EXCEPT ![s] = "cancelled"], d.attempt,
                   [d.attempts EXCEPT ![s] = IF d.attempt[s] > 0
                                             THEN WithAttempt(@, d.attempt[s], "cancelled")
                                             ELSE @])
<1> DEFINE step == [d.step EXCEPT ![s] = "cancelled"]
           attempts == [d.attempts EXCEPT ![s] = IF d.attempt[s] > 0
                                                 THEN WithAttempt(@, d.attempt[s], "cancelled")
                                                 ELSE @]
           f == [d EXCEPT !.status = "cancelled", !.step = step, !.attempts = attempts]
<1>1. CancelStep(d, s) = RecomputeReadiness(f)
  BY DagRowsHaveColumns DEF CancelStep, HasColumns, Columns
<1> HIDE DEF step, attempts
<1>2. /\ HasColumns(f)
      /\ f.status = "cancelled" /\ f.dependencies = d.dependencies
      /\ f.step = step /\ f.attempt = d.attempt /\ f.attempts = attempts
  BY DagRowsHaveColumns DEF HasColumns, Columns
<1> HIDE DEF f
<1>3. Becomes(CancelStep(d, s), d, "cancelled", step, d.attempt, attempts)
  BY <1>1, <1>2, RecomputeReadinessColumns DEF Becomes
<1>4. QED
  BY <1>3 DEF step, attempts

LEMMA RecoverColumns ==
    ASSUME NEW d \in DagRows, RunningSteps(d) # {}
    PROVE  Becomes(RecoverStaleRunningSteps(d), d, "resumable",
                   [s \in Steps |-> IF s \in RunningSteps(d) THEN "failed" ELSE d.step[s]],
                   d.attempt,
                   [s \in Steps |-> IF s \in RunningSteps(d)
                                    THEN WithAttempt(d.attempts[s], d.attempt[s], "failed")
                                    ELSE d.attempts[s]])
<1> DEFINE step == [s \in Steps |-> IF s \in RunningSteps(d) THEN "failed" ELSE d.step[s]]
           attempts == [s \in Steps |-> IF s \in RunningSteps(d)
                                        THEN WithAttempt(d.attempts[s], d.attempt[s], "failed")
                                        ELSE d.attempts[s]]
           f == [d EXCEPT !.status = "resumable", !.step = step, !.attempts = attempts]
<1>1. RecoverStaleRunningSteps(d) = RecomputeReadiness(f)
  BY DEF RecoverStaleRunningSteps
<1> HIDE DEF step, attempts
<1>2. /\ HasColumns(f)
      /\ f.status = "resumable" /\ f.dependencies = d.dependencies
      /\ f.step = step /\ f.attempt = d.attempt /\ f.attempts = attempts
  BY DagRowsHaveColumns DEF HasColumns, Columns
<1> HIDE DEF f
<1>3. Becomes(RecoverStaleRunningSteps(d), d, "resumable", step, d.attempt, attempts)
  BY <1>1, <1>2, RecomputeReadinessColumns DEF Becomes
<1>4. QED
  BY <1>3 DEF step, attempts

(* The steps that a resume puts back to pending. *)
Affected(d) == DescendantStepIds(d, FirstFailedStep(d))

LEMMA ResumeColumns ==
    ASSUME NEW d \in DagRows, FailedSteps(d) # {}
    PROVE  Becomes(ResumeFromFirstFailedStep(d), d, "pending",
                   [s \in Steps |-> IF s \in Affected(d) THEN "pending" ELSE d.step[s]],
                   d.attempt, d.attempts)
<1> DEFINE step == [s \in Steps |-> IF s \in Affected(d) THEN "pending" ELSE d.step[s]]
           f == [d EXCEPT !.status = "pending", !.step = step]
<1>1. ResumeFromFirstFailedStep(d) = RecomputeReadiness(f)
  BY DEF ResumeFromFirstFailedStep, Affected
<1> HIDE DEF step
<1>2. /\ HasColumns(f)
      /\ f.status = "pending" /\ f.dependencies = d.dependencies
      /\ f.step = step /\ f.attempt = d.attempt /\ f.attempts = d.attempts
  BY DagRowsHaveColumns DEF HasColumns, Columns
<1> HIDE DEF f
<1>3. Becomes(ResumeFromFirstFailedStep(d), d, "pending", step, d.attempt, d.attempts)
  BY <1>1, <1>2, RecomputeReadinessColumns DEF Becomes
<1>4. QED
  BY <1>3 DEF step

(***************************************************************************)
(* The inductive invariant of Spec: the rows have their types, attempt     *)
(* rows are numbered without a gap, and a running step has been started    *)
(* (without which a recovery would write an attempt row 0).                *)
(***************************************************************************)
WellFormed(d) ==
    /\ d \in DagRows
    /\ \A s \in Steps : DOMAIN d.attempts[s] = 1 .. d.attempt[s]
    /\ \A s \in Steps : d.step[s] = "running" => d.attempt[s] > 0

(* What a transition may do to step s: leave its attempts alone, or write  *)
(* the row of the latest or of the next attempt with the step's status.    *)
KeepsAttempts(d, e, s) ==
    /\ e.attempt[s] = d.attempt[s]
    /\ e.attempts[s] = d.attempts[s]
    /\ \/ e.step[s] \in {d.step[s], "pending"}
       \/ e.step[s] = "cancelled" /\ d.attempt[s] = 0

WritesAttempt(d, e, s) ==
    /\ e.attempt[s] \in {d.attempt[s], d.attempt[s] + 1}
    /\ e.attempt[s] > 0
    /\ e.step[s] \in AttemptStatuses
    /\ e.attempts[s] = WithAttempt(d.attempts[s], e.attempt[s], e.step[s])

(* The part of DagRows that the next lemmas need. *)
Typed(d) == /\ d.status \in RunStatuses
            /\ d.step \in [Steps -> StepStatuses]
            /\ d.attempt \in [Steps -> 0 .. MaxAttempts]
            /\ d.attempts = [s \in Steps |-> d.attempts[s]]

LEMMA DagRowsAreTyped == ASSUME NEW d \in DagRows PROVE Typed(d)
  BY DEF DagRows, Typed

Updates(d, e) ==
    /\ HasColumns(e)
    /\ Typed(e)
    /\ e.dependencies = d.dependencies
    /\ Recomputed(e)
    /\ \A s \in Steps : KeepsAttempts(d, e, s) \/ WritesAttempt(d, e, s)

LEMMA StartUpdates ==
    ASSUME NEW d, WellFormed(d), NEW s \in Steps, d.attempt[s] < MaxAttempts
    PROVE  Updates(d, StartStep(d, s))
<1> DEFINE e == StartStep(d, s)
<1>1. d \in DagRows /\ Typed(d)
  BY DagRowsAreTyped DEF WellFormed
<1>2. Becomes(e, d, "running", [d.step EXCEPT ![s] = "running"], [d.attempt EXCEPT ![s] = @ + 1],
              [d.attempts EXCEPT ![s] = WithAttempt(@, d.attempt[s] + 1, "running")])
  BY <1>1, StartStepColumns
<1> HIDE DEF e
<1>3. d.attempt[s] + 1 \in 0 .. MaxAttempts
  BY <1>1, MaxAttemptsAssumption DEF Typed
<1>4. \A t \in Steps : KeepsAttempts(d, e, t) \/ WritesAttempt(d, e, t)
  BY <1>1, <1>2, <1>3 DEF Typed, Becomes, KeepsAttempts, WritesAttempt, AttemptStatuses
<1>5. Typed(e)
  BY <1>1, <1>2, <1>3 DEF Typed, Becomes, RunStatuses, StepStatuses
<1>6. QED
  BY <1>2, <1>4, <1>5 DEF Becomes, Updates, e

LEMMA CompleteUpdates ==
    ASSUME NEW d, WellFormed(d), NEW s \in Steps, d.attempt[s] > 0
    PROVE  Updates(d, CompleteStep(d, s))
<1> DEFINE e == CompleteStep(d, s)
           step == [d.step EXCEPT ![s] = "completed"]
<1>1. d \in DagRows /\ Typed(d)
  BY DagRowsAreTyped DEF WellFormed
<1>2. Becomes(e, d, FinalStatus(d.status, step), step, d.attempt,
              [d.attempts EXCEPT ![s] = WithAttempt(@, d.attempt[s], "completed")])
  BY <1>1, CompleteStepColumns
<1>3. FinalStatus(d.status, step) \in RunStatuses
  BY <1>1 DEF Typed, FinalStatus, RunStatuses
<1> HIDE DEF e
<1>4. \A t \in Steps : KeepsAttempts(d, e, t) \/ WritesAttempt(d, e, t)
  BY <1>1, <1>2 DEF Typed, Becomes, KeepsAttempts, WritesAttempt, AttemptStatuses
<1>5. Typed(e)
  BY <1>1, <1>2, <1>3 DEF Typed, Becomes, StepStatuses
<1>6. QED
  BY <1>2, <1>4, <1>5 DEF Becomes, Updates, e

LEMMA FailUpdates ==
    ASSUME NEW d, WellFormed(d), NEW s \in Steps, d.attempt[s] > 0
    PROVE  Updates(d, FailStep(d, s))
<1> DEFINE e == FailStep(d, s)
<1>1. d \in DagRows /\ Typed(d)
  BY DagRowsAreTyped DEF WellFormed
<1>2. Becomes(e, d, "failed", [d.step EXCEPT ![s] = "failed"], d.attempt,
              [d.attempts EXCEPT ![s] = WithAttempt(@, d.attempt[s], "failed")])
  BY <1>1, FailStepColumns
<1> HIDE DEF e
<1>3. \A t \in Steps : KeepsAttempts(d, e, t) \/ WritesAttempt(d, e, t)
  BY <1>1, <1>2 DEF Typed, Becomes, KeepsAttempts, WritesAttempt, AttemptStatuses
<1>4. Typed(e)
  BY <1>1, <1>2 DEF Typed, Becomes, RunStatuses, StepStatuses
<1>5. QED
  BY <1>2, <1>3, <1>4 DEF Becomes, Updates, e

LEMMA CancelUpdates ==
    ASSUME NEW d, WellFormed(d), NEW s \in Steps, d.step[s] # "cancelled"
    PROVE  Updates(d, CancelStep(d, s))
<1> DEFINE e == CancelStep(d, s)
<1>1. d \in DagRows /\ Typed(d)
  BY DagRowsAreTyped DEF WellFormed
<1>2. Becomes(e, d, "cancelled", [d.step EXCEPT ![s] = "cancelled"], d.attempt,
              [d.attempts EXCEPT ![s] = IF d.attempt[s] > 0
                                        THEN WithAttempt(@, d.attempt[s], "cancelled")
                                        ELSE @])
  BY <1>1, CancelStepColumns
<1> HIDE DEF e
<1>3. \A t \in Steps : KeepsAttempts(d, e, t) \/ WritesAttempt(d, e, t)
  BY <1>1, <1>2 DEF Typed, Becomes, KeepsAttempts, WritesAttempt, AttemptStatuses
<1>4. Typed(e)
  BY <1>1, <1>2 DEF Typed, Becomes, RunStatuses, StepStatuses
<1>5. QED
  BY <1>2, <1>3, <1>4 DEF Becomes, Updates, e

LEMMA RecoverUpdates ==
    ASSUME NEW d, WellFormed(d), RunningSteps(d) # {}
    PROVE  Updates(d, RecoverStaleRunningSteps(d))
<1> DEFINE e == RecoverStaleRunningSteps(d)
<1>1. d \in DagRows /\ Typed(d) /\ \A s \in RunningSteps(d) : d.attempt[s] > 0
  BY DagRowsAreTyped DEF WellFormed, RunningSteps
<1>2. Becomes(e, d, "resumable",
              [s \in Steps |-> IF s \in RunningSteps(d) THEN "failed" ELSE d.step[s]],
              d.attempt,
              [s \in Steps |-> IF s \in RunningSteps(d)
                               THEN WithAttempt(d.attempts[s], d.attempt[s], "failed")
                               ELSE d.attempts[s]])
  BY <1>1, RecoverColumns
<1> HIDE DEF e
<1>3. \A t \in Steps : KeepsAttempts(d, e, t) \/ WritesAttempt(d, e, t)
  BY <1>1, <1>2 DEF Typed, Becomes, KeepsAttempts, WritesAttempt, AttemptStatuses
<1>4. Typed(e)
  BY <1>1, <1>2 DEF Typed, Becomes, RunStatuses, StepStatuses
<1>5. QED
  BY <1>2, <1>3, <1>4 DEF Becomes, Updates, e

LEMMA ResumeUpdates ==
    ASSUME NEW d, WellFormed(d)
    PROVE  Updates(d, ResumeFromFirstFailedStep(d))
<1> DEFINE e == ResumeFromFirstFailedStep(d)
<1>1. d \in DagRows /\ Typed(d)
  BY DagRowsAreTyped DEF WellFormed
<1>2. CASE FailedSteps(d) = {}
  <2>1. Becomes(e, d, d.status, d.step, d.attempt, d.attempts)
    BY <1>1, <1>2, DagRowsHaveColumns, RecomputeReadinessColumns DEF ResumeFromFirstFailedStep
  <2> HIDE DEF e
  <2>2. Typed(e)
    BY <1>1, <2>1 DEF Typed, Becomes
  <2>3. \A t \in Steps : KeepsAttempts(d, e, t)
    BY <2>1 DEF Becomes, KeepsAttempts
  <2>4. QED
    BY <2>1, <2>2, <2>3 DEF Becomes, Updates, e
<1>3. CASE FailedSteps(d) # {}
  <2>1. Becomes(e, d, "pending",
                [s \in Steps |-> IF s \in Affected(d) THEN "pending" ELSE d.step[s]],
                d.attempt, d.attempts)
    BY <1>1, <1>3, ResumeColumns
  <2> HIDE DEF e
  <2>2. Typed(e)
    BY <1>1, <2>1 DEF Typed, Becomes, RunStatuses, StepStatuses
  <2>3. \A t \in Steps : KeepsAttempts(d, e, t)
    BY <2>1 DEF Becomes, KeepsAttempts
  <2>4. QED
    BY <2>1, <2>2, <2>3 DEF Becomes, Updates, e
<1>4. QED
  BY <1>2, <1>3

LEMMA NextUpdates ==
    ASSUME WellFormed(dag), Next
    PROVE  dag' = dag \/ Updates(dag, dag')
<1>1. ASSUME NEW s \in Steps, Start(s) PROVE Updates(dag, dag')
  BY <1>1, StartUpdates DEF Start
<1>2. ASSUME NEW s \in Steps, Started(s), Complete(s) PROVE Updates(dag, dag')
  BY <1>2, CompleteUpdates DEF Started, Complete
<1>3. ASSUME NEW s \in Steps, Started(s), Fail(s) PROVE Updates(dag, dag')
  BY <1>3, FailUpdates DEF Started, Fail
<1>4. ASSUME NEW s \in Steps, Cancel(s) PROVE dag' = dag \/ Updates(dag, dag')
  <2>1. CASE dag.step[s] = "cancelled"
    BY <1>4, <2>1 DEF Cancel, CancelStep
  <2>2. CASE dag.step[s] # "cancelled"
    BY <1>4, <2>2, CancelUpdates DEF Cancel
  <2>3. QED
    BY <2>1, <2>2
<1>5. ASSUME Recover PROVE dag' = dag \/ Updates(dag, dag')
  <2>1. CASE RunningSteps(dag) = {}
    BY <1>5, <2>1 DEF Recover, RecoverStaleRunningSteps
  <2>2. CASE RunningSteps(dag) # {}
    BY <1>5, <2>2, RecoverUpdates DEF Recover
  <2>3. QED
    BY <2>1, <2>2
<1>6. ASSUME Resume PROVE Updates(dag, dag')
  BY <1>6, ResumeUpdates DEF Resume
<1>7. QED
  BY <1>1, <1>2, <1>3, <1>4, <1>5, <1>6 DEF Next

(***************************************************************************)
(* Type correctness.                                                       *)
(***************************************************************************)
AttemptRows(n) == [1 .. n -> AttemptStatuses]

LEMMA WithAttemptRows ==
    ASSUME NEW k \in Nat, NEW rows \in AttemptRows(k), NEW n \in {k, k + 1}, n > 0,
           NEW status \in AttemptStatuses
    PROVE  /\ WithAttempt(rows, n, status) \in AttemptRows(n)
           /\ WithAttempt(rows, n, status)[n] = status
           /\ \A m \in 1 .. k : m # n => WithAttempt(rows, n, status)[m] = rows[m]
<1>1. DOMAIN rows \cup {n} = 1 .. n
  BY DEF AttemptRows
<1>2. QED
  BY <1>1 DEF AttemptRows, WithAttempt

LEMMA UpdatesAttemptRows ==
    ASSUME NEW d, WellFormed(d), NEW e, Updates(d, e), NEW s \in Steps
    PROVE  /\ d.attempt[s] \in Nat /\ d.attempts[s] \in AttemptRows(d.attempt[s])
           /\ e.attempt[s] \in 0 .. MaxAttempts
           /\ e.attempts[s] \in AttemptRows(e.attempt[s])
           /\ d.attempt[s] <= e.attempt[s]
           /\ \A n \in 1 .. d.attempt[s] : n # e.attempt[s] => e.attempts[s][n] = d.attempts[s][n]
<1>1. d.attempt[s] \in 0 .. MaxAttempts /\ e.attempt[s] \in 0 .. MaxAttempts
  BY DagRowsAreTyped DEF WellFormed, Updates, Typed
<1>2. /\ d.attempts[s] \in UNION {[1 .. n -> AttemptStatuses] : n \in 0 .. MaxAttempts}
      /\ DOMAIN d.attempts[s] = 1 .. d.attempt[s]
  BY DEF WellFormed, DagRows
<1>3. d.attempts[s] \in AttemptRows(d.attempt[s])
  BY <1>1, <1>2 DEF AttemptRows
<1>4. CASE KeepsAttempts(d, e, s)
  BY <1>1, <1>3, <1>4, MaxAttemptsAssumption DEF KeepsAttempts
<1>5. CASE WritesAttempt(d, e, s)
  <2> DEFINE k == d.attempt[s]
             n == e.attempt[s]
  <2>1. k \in Nat /\ n \in 0 .. MaxAttempts /\ n \in {k, k + 1} /\ n > 0 /\ k <= n
    BY <1>1, <1>5, MaxAttemptsAssumption DEF WritesAttempt
  <2>2. e.step[s] \in AttemptStatuses /\ e.attempts[s] = WithAttempt(d.attempts[s], n, e.step[s])
    BY <1>5 DEF WritesAttempt
  <2>3. /\ WithAttempt(d.attempts[s], n, e.step[s]) \in AttemptRows(n)
        /\ \A m \in 1 .. k : m # n => WithAttempt(d.attempts[s], n, e.step[s])[m] = d.attempts[s][m]
    <3> HIDE DEF k, n
    <3>1. d.attempts[s] \in AttemptRows(k)
      BY <1>3 DEF k
    <3>2. QED
      BY <2>1, <2>2, <3>1, WithAttemptRows
  <2>4. QED
    BY <1>3, <2>1, <2>2, <2>3
<1>6. QED
  BY <1>4, <1>5 DEF Updates

LEMMA UpdatesWellFormed ==
    ASSUME NEW d, WellFormed(d), NEW e, Updates(d, e)
    PROVE  WellFormed(e)
<1>1. \A s \in Steps : e.attempts[s] \in AttemptRows(e.attempt[s])
  BY UpdatesAttemptRows
<1>2. Typed(e) /\ HasColumns(e) /\ Recomputed(e) /\ e.dependencies = d.dependencies
  BY DEF Updates
<1>3. d.dependencies \in DependencyMaps
  BY DEF WellFormed, DagRows
<1>4. e.attempts \in [Steps -> UNION {[1 .. n -> AttemptStatuses] : n \in 0 .. MaxAttempts}]
  <2>1. \A s \in Steps : e.attempts[s] \in UNION {[1 .. n -> AttemptStatuses] : n \in 0 .. MaxAttempts}
    BY <1>1, <1>2 DEF Typed, AttemptRows
  <2>2. e.attempts = [s \in Steps |-> e.attempts[s]]
    BY <1>2 DEF Typed
  <2>3. QED
    BY <2>1, <2>2
<1>5. e.ready \in [Steps -> BOOLEAN]
  BY <1>2 DEF Recomputed
<1>6. e.blocking \in [Steps -> SUBSET Steps]
  BY <1>2, <1>3 DEF Recomputed, BlockingStepIds, DependencyMaps
<1>7. e \in DagRows
  BY <1>2, <1>3, <1>4, <1>5, <1>6 DEF DagRows, HasColumns, Columns, Typed
<1>8. \A s \in Steps : DOMAIN e.attempts[s] = 1 .. e.attempt[s]
  BY <1>1 DEF AttemptRows
<1>9. \A s \in Steps : e.step[s] = "running" => e.attempt[s] > 0
  BY DEF Updates, WellFormed, KeepsAttempts, WritesAttempt
<1>10. QED
  BY <1>7, <1>8, <1>9 DEF WellFormed

LEMMA InitWellFormed == Init => WellFormed(dag)
<1> SUFFICES ASSUME NEW deps \in DependencyMaps, dag = CreatedRun(deps)
             PROVE  WellFormed(dag)
  BY DEF Init
<1>1. << >> \in [1 .. 0 -> AttemptStatuses] /\ DOMAIN << >> = 1 .. 0
  OBVIOUS
<1>2. 0 \in 0 .. MaxAttempts
  BY MaxAttemptsAssumption
<1>3. << >> \in UNION {[1 .. n -> AttemptStatuses] : n \in 0 .. MaxAttempts}
  BY <1>1, <1>2
<1>4. dag \in DagRows
  BY <1>2, <1>3 DEF CreatedRun, DagRows, RunStatuses, StepStatuses, DependencyMaps
<1>5. QED
  BY <1>1, <1>4 DEF WellFormed, CreatedRun

LEMMA WellFormedIsInvariant == Spec => []WellFormed(dag)
<1>1. WellFormed(dag) /\ [Next]_dag => WellFormed(dag)'
  BY NextUpdates, UpdatesWellFormed
<1>2. QED
  BY InitWellFormed, <1>1, PTL DEF Spec

(* TypeOK holds under any caller: whatever order starts, late results,     *)
(* cancellations, recoveries and resumes come in, the rows keep their      *)
(* types and the attempt rows of a step are numbered without a gap.        *)
THEOREM TypeCorrectness == Spec => []TypeOK
<1>1. WellFormed(dag) => TypeOK
  BY DEF WellFormed, TypeOK
<1>2. QED
  BY WellFormedIsInvariant, <1>1, PTL

(***************************************************************************)
(* Readiness and the attempt history.                                      *)
(***************************************************************************)
LEMMA InitRecomputed == Init => Recomputed(dag)
<1> SUFFICES ASSUME NEW deps \in DependencyMaps, dag = CreatedRun(deps)
             PROVE  Recomputed(dag)
  BY DEF Init
<1>1. \A s \in Steps : BlockingStepIds(dag, s) = deps[s]
  BY DEF BlockingStepIds, CreatedRun, DependencyMaps
<1>2. deps = [s \in Steps |-> deps[s]]
  BY DEF DependencyMaps
<1>3. QED
  BY <1>1, <1>2 DEF Recomputed, CreatedRun

(* No operation leaves readiness behind: a step is offered exactly when it *)
(* is pending with every dependency completed, and blockingStepIds names   *)
(* exactly the dependencies that are not.                                  *)
THEOREM ReadinessIsExact == Spec => []ReadinessExact
<1>1. WellFormed(dag) /\ Recomputed(dag) /\ [Next]_dag => Recomputed(dag)'
  <2> SUFFICES ASSUME WellFormed(dag), Recomputed(dag), [Next]_dag
               PROVE  Recomputed(dag')
    OBVIOUS
  <2>1. CASE dag' = dag
    BY <2>1
  <2>2. CASE Next
    BY <2>2, NextUpdates DEF Updates
  <2>3. QED
    BY <2>1, <2>2
<1>2. Recomputed(dag) => ReadinessExact
  BY DEF Recomputed, ReadinessExact, BlockingStepIds
<1>3. QED
  BY InitRecomputed, WellFormedIsInvariant, <1>1, <1>2, PTL DEF Spec

(* The newest attempt row of a step that runs or has ended says what the   *)
(* step row says, so the history never contradicts the step.               *)
THEOREM LatestAttemptIsTheStep == Spec => []LatestAttemptAgrees
<1>1. Init => LatestAttemptAgrees
  BY DEF Init, CreatedRun, LatestAttemptAgrees
<1>2. WellFormed(dag) /\ LatestAttemptAgrees /\ [Next]_dag => LatestAttemptAgrees'
  <2> SUFFICES ASSUME WellFormed(dag), LatestAttemptAgrees, [Next]_dag
               PROVE  LatestAttemptAgrees'
    OBVIOUS
  <2>1. CASE dag' = dag
    BY <2>1 DEF LatestAttemptAgrees
  <2>2. CASE Next /\ Updates(dag, dag')
    <3> SUFFICES ASSUME NEW s \in Steps, dag'.step[s] # "pending", dag'.attempt[s] > 0
                 PROVE  dag'.attempts[s][dag'.attempt[s]] = dag'.step[s]
      BY DEF LatestAttemptAgrees
    <3>1. CASE KeepsAttempts(dag, dag', s)
      BY <3>1 DEF KeepsAttempts, LatestAttemptAgrees
    <3>2. CASE WritesAttempt(dag, dag', s)
      <4>1. dag.attempt[s] \in Nat /\ dag.attempts[s] \in AttemptRows(dag.attempt[s])
        BY <2>2, UpdatesAttemptRows
      <4>2. QED
        BY <3>2, <4>1, WithAttemptRows DEF WritesAttempt
    <3>3. QED
      BY <2>2, <3>1, <3>2 DEF Updates
  <2>3. QED
    BY <2>1, <2>2, NextUpdates
<1>3. QED
  BY <1>1, <1>2, WellFormedIsInvariant, PTL DEF Spec

(* The attempt history is append-only: no transition changes or removes    *)
(* the row of an attempt that a later one has followed.                    *)
THEOREM AttemptHistoryIsAppendOnly == Spec => OlderAttemptsFrozen
<1>1. ASSUME WellFormed(dag), WellFormed(dag)', [Next]_dag, dag' # dag, NEW s \in Steps
      PROVE  /\ dag'.attempt[s] >= dag.attempt[s]
             /\ \A n \in DOMAIN dag.attempts[s] :
                   /\ n \in DOMAIN dag'.attempts[s]
                   /\ n < dag.attempt[s] => dag'.attempts[s][n] = dag.attempts[s][n]
  <2>1. Updates(dag, dag')
    BY <1>1, NextUpdates
  <2>2. /\ dag.attempt[s] \in Nat /\ dag'.attempt[s] \in 0 .. MaxAttempts
        /\ dag.attempt[s] <= dag'.attempt[s]
        /\ \A n \in 1 .. dag.attempt[s] : n # dag'.attempt[s]
                                       => dag'.attempts[s][n] = dag.attempts[s][n]
    BY <1>1, <2>1, UpdatesAttemptRows
  <2>3. /\ DOMAIN dag.attempts[s] = 1 .. dag.attempt[s]
        /\ DOMAIN dag'.attempts[s] = 1 .. dag'.attempt[s]
    BY <1>1 DEF WellFormed
  <2>4. QED
    BY <2>2, <2>3, MaxAttemptsAssumption
<1>2. WellFormed(dag) /\ WellFormed(dag)' /\ [Next]_dag
        => [\A s \in Steps :
              /\ dag'.attempt[s] >= dag.attempt[s]
              /\ \A n \in DOMAIN dag.attempts[s] :
                    /\ n \in DOMAIN dag'.attempts[s]
                    /\ n < dag.attempt[s] => dag'.attempts[s][n] = dag.attempts[s][n]]_dag
  BY <1>1
<1>3. QED
  BY <1>2, WellFormedIsInvariant, PTL DEF Spec, OlderAttemptsFrozen

(***************************************************************************)
(* The steps a resume puts back: the first failed one and its descendants. *)
(***************************************************************************)
LEMMA LeastNumber ==
    ASSUME NEW T \in SUBSET Nat, T # {}
    PROVE  \E x \in T : \A y \in T : x <= y
<1>1. \E x \in T : \A y \in T : ~ (<<y, x>> \in OpToRel(<, Nat))
  BY NatLessThanWellFounded, WFMin
<1>2. PICK x \in T : \A y \in T : ~ (<<y, x>> \in OpToRel(<, Nat))
  BY <1>1
<1>3. \A y \in T : <<y, x>> \in OpToRel(<, Nat) <=> y < x
  BY DEF OpToRel
<1>4. \A y \in T : ~ (y < x)
  BY <1>2, <1>3, Zenon
<1>5. \A y \in T : x <= y
  BY <1>4
<1>6. QED
  BY <1>5

LEMMA FirstFailedStepFails ==
    ASSUME NEW d, FailedSteps(d) # {}
    PROVE  FirstFailedStep(d) \in Steps /\ IsFirstFailedStep(d, FirstFailedStep(d))
<1>1. FailedSteps(d) \in SUBSET Nat /\ FailedSteps(d) \subseteq Steps
  BY StepCountAssumption DEF FailedSteps, Steps
<1>2. \E s \in Steps : IsFirstFailedStep(d, s)
  BY <1>1, LeastNumber DEF IsFirstFailedStep
<1>3. QED
  BY <1>2 DEF FirstFailedStep

LEMMA AffectedSteps ==
    ASSUME NEW d, FailedSteps(d) # {}
    PROVE  /\ FirstFailedStep(d) \in Affected(d)
           /\ Affected(d) \subseteq Steps
           /\ \A S \in SUBSET Steps :
                 FirstFailedStep(d) \in S /\ ClosedUnderDependents(d, S) => Affected(d) \subseteq S
  BY FirstFailedStepFails DEF Affected, DescendantStepIds

(***************************************************************************)
(* The status of the run.                                                  *)
(***************************************************************************)
LEMMA NextCompletedExact ==
    ASSUME WellFormed(dag), CompletedExact, Next
    PROVE  CompletedExact'
<1>0. dag \in DagRows /\ Typed(dag)
  BY DagRowsAreTyped DEF WellFormed
<1>1. ASSUME NEW s \in Steps, Start(s) PROVE CompletedExact'
  <2>1. dag'.status = "running" /\ dag'.step = [dag.step EXCEPT ![s] = "running"]
    BY <1>0, <1>1, StartStepColumns DEF Start, Becomes
  <2>2. QED
    BY <1>0, <2>1 DEF CompletedExact, Typed
<1>2. ASSUME NEW s \in Steps, Complete(s) PROVE CompletedExact'
  <2>1. dag'.status = FinalStatus(dag.status, dag'.step)
    BY <1>0, <1>2, CompleteStepColumns DEF Complete, Becomes
  <2>2. QED
    BY <2>1 DEF CompletedExact, FinalStatus
<1>3. ASSUME NEW s \in Steps, Fail(s) PROVE CompletedExact'
  <2>1. dag'.status = "failed" /\ dag'.step = [dag.step EXCEPT ![s] = "failed"]
    BY <1>0, <1>3, FailStepColumns DEF Fail, Becomes
  <2>2. QED
    BY <1>0, <2>1 DEF CompletedExact, Typed
<1>4. ASSUME NEW s \in Steps, Cancel(s) PROVE CompletedExact'
  <2>1. CASE dag.step[s] = "cancelled"
    BY <1>4, <2>1 DEF Cancel, CancelStep, CompletedExact
  <2>2. CASE dag.step[s] # "cancelled"
    <3>1. dag'.status = "cancelled" /\ dag'.step = [dag.step EXCEPT ![s] = "cancelled"]
      BY <1>0, <1>4, <2>2, CancelStepColumns DEF Cancel, Becomes
    <3>2. QED
      BY <1>0, <3>1 DEF CompletedExact, Typed
  <2>3. QED
    BY <2>1, <2>2
<1>5. ASSUME Recover PROVE CompletedExact'
  <2>1. CASE RunningSteps(dag) = {}
    BY <1>5, <2>1 DEF Recover, RecoverStaleRunningSteps, CompletedExact
  <2>2. CASE RunningSteps(dag) # {}
    <3>1. /\ dag'.status = "resumable"
          /\ dag'.step = [s \in Steps |-> IF s \in RunningSteps(dag) THEN "failed" ELSE dag.step[s]]
      BY <1>0, <1>5, <2>2, RecoverColumns DEF Recover, Becomes
    <3>2. QED
      BY <2>2, <3>1 DEF CompletedExact, RunningSteps
  <2>3. QED
    BY <2>1, <2>2
<1>6. ASSUME Resume PROVE CompletedExact'
  <2>1. CASE FailedSteps(dag) = {}
    <3>1. dag'.status = dag.status /\ dag'.step = dag.step
      BY <1>0, <1>6, <2>1, DagRowsHaveColumns, RecomputeReadinessColumns
         DEF Resume, ResumeFromFirstFailedStep, Becomes
    <3>2. QED
      BY <3>1 DEF CompletedExact
  <2>2. CASE FailedSteps(dag) # {}
    <3>1. /\ dag'.status = "pending"
          /\ dag'.step = [s \in Steps |-> IF s \in Affected(dag) THEN "pending" ELSE dag.step[s]]
      BY <1>0, <1>6, <2>2, ResumeColumns DEF Resume, Becomes
    <3>2. QED
      BY <2>2, <3>1, AffectedSteps DEF CompletedExact
  <2>3. QED
    BY <2>1, <2>2
<1>7. QED
  BY <1>1, <1>2, <1>3, <1>4, <1>5, <1>6 DEF Next

(* A run reads completed exactly while all its steps are completed.        *)
THEOREM CompletedIsExact == Spec => []CompletedExact
<1>1. Init => CompletedExact
  <2> SUFFICES ASSUME NEW deps \in DependencyMaps, dag = CreatedRun(deps)
               PROVE  CompletedExact
    BY DEF Init
  <2>1. 1 \in Steps
    BY StepCountAssumption DEF Steps
  <2>2. dag.status = "pending" /\ dag.step[1] = "pending"
    BY <2>1 DEF CreatedRun
  <2>3. QED
    BY <2>1, <2>2 DEF CompletedExact
<1>2. WellFormed(dag) /\ CompletedExact /\ [Next]_dag => CompletedExact'
  <2>1. CASE dag' = dag
    BY <2>1 DEF CompletedExact
  <2>2. QED
    BY <2>1, NextCompletedExact
<1>3. QED
  BY <1>1, <1>2, WellFormedIsInvariant, PTL DEF Spec

(***************************************************************************)
(* The executor's discipline.  It only restricts the callers, so all of    *)
(* the above holds for it too.                                             *)
(***************************************************************************)
LEMMA DisciplinedNextIsNext ==
    ASSUME WellFormed(dag), DisciplinedNext
    PROVE  Next
  BY DEF WellFormed, DisciplinedNext, Next, Running, Started

LEMMA DisciplinedInvariant == DisciplinedSpec => [](WellFormed(dag) /\ Recomputed(dag))
<1>1. /\ WellFormed(dag) /\ Recomputed(dag) /\ [DisciplinedNext]_dag
      => WellFormed(dag)' /\ Recomputed(dag)'
  <2> SUFFICES ASSUME WellFormed(dag), Recomputed(dag), [DisciplinedNext]_dag
               PROVE  WellFormed(dag') /\ Recomputed(dag')
    OBVIOUS
  <2>1. CASE dag' = dag
    BY <2>1
  <2>2. CASE Updates(dag, dag')
    BY <2>2, UpdatesWellFormed DEF Updates
  <2>3. QED
    BY <2>1, <2>2, NextUpdates, DisciplinedNextIsNext
<1>2. QED
  BY InitWellFormed, InitRecomputed, <1>1, PTL DEF DisciplinedSpec

(* What a disciplined transition does to the stages of the steps.          *)
BeginsStep(s) ==
    /\ dag.step[s] = "pending"
    /\ \A p \in dag.dependencies[s] : dag.step[p] = "completed"
    /\ dag'.step = [dag.step EXCEPT ![s] = "running"]

EndsStep(s, status) ==
    /\ dag.step[s] = "running"
    /\ dag'.step = [dag.step EXCEPT ![s] = status]

GivesUp ==
    dag'.step = [s \in Steps |-> IF s \in RunningSteps(dag) THEN "failed" ELSE dag.step[s]]

PutsBack ==
    dag'.step = [s \in Steps |-> IF s \in Affected(dag) THEN "pending" ELSE dag.step[s]]

LEMMA DisciplinedSteps ==
    ASSUME WellFormed(dag), Recomputed(dag), DisciplinedNext
    PROVE  /\ dag'.dependencies = dag.dependencies
           /\ \/ \E s \in Steps : BeginsStep(s)
              \/ \E s \in Steps, status \in {"completed", "failed", "cancelled"} :
                    EndsStep(s, status)
              \/ GivesUp
              \/ FailedSteps(dag) # {} /\ PutsBack
              \/ dag'.step = dag.step
<1>0. dag \in DagRows
  BY DEF WellFormed
<1>1. ASSUME NEW s \in Steps, Selectable(s), Start(s)
      PROVE  dag'.dependencies = dag.dependencies /\ BeginsStep(s)
  <2>1. \A p \in dag.dependencies[s] : dag.step[p] = "completed"
    BY <1>1 DEF Selectable, Recomputed, BlockingStepIds
  <2>2. QED
    BY <1>0, <1>1, <2>1, StartStepColumns DEF Start, Selectable, Becomes, BeginsStep
<1>2. ASSUME NEW s \in Steps, Running(s), Complete(s)
      PROVE  dag'.dependencies = dag.dependencies /\ EndsStep(s, "completed")
  BY <1>0, <1>2, CompleteStepColumns DEF Running, Complete, Becomes, EndsStep
<1>3. ASSUME NEW s \in Steps, Running(s), Fail(s)
      PROVE  dag'.dependencies = dag.dependencies /\ EndsStep(s, "failed")
  BY <1>0, <1>3, FailStepColumns DEF Running, Fail, Becomes, EndsStep
<1>4. ASSUME NEW s \in Steps, Running(s), Cancel(s)
      PROVE  dag'.dependencies = dag.dependencies /\ EndsStep(s, "cancelled")
  BY <1>0, <1>4, CancelStepColumns DEF Running, Cancel, Becomes, EndsStep
<1>5. ASSUME Recover
      PROVE  dag'.dependencies = dag.dependencies /\ (GivesUp \/ dag'.step = dag.step)
  <2>1. CASE RunningSteps(dag) = {}
    BY <1>5, <2>1 DEF Recover, RecoverStaleRunningSteps
  <2>2. CASE RunningSteps(dag) # {}
    BY <1>0, <1>5, <2>2, RecoverColumns DEF Recover, Becomes, GivesUp
  <2>3. QED
    BY <2>1, <2>2
<1>6. ASSUME Resume
      PROVE  /\ dag'.dependencies = dag.dependencies
             /\ (FailedSteps(dag) # {} /\ PutsBack) \/ dag'.step = dag.step
  <2>1. CASE FailedSteps(dag) = {}
    BY <1>0, <1>6, <2>1, DagRowsHaveColumns, RecomputeReadinessColumns
       DEF Resume, ResumeFromFirstFailedStep, Becomes
  <2>2. CASE FailedSteps(dag) # {}
    BY <1>0, <1>6, <2>2, ResumeColumns DEF Resume, Becomes, PutsBack
  <2>3. QED
    BY <2>1, <2>2
<1>7. QED
  BY <1>1, <1>2, <1>3, <1>4, <1>5, <1>6 DEF DisciplinedNext

(* The descendants of a failed step have not begun, given DependencyOrder. *)
LEMMA AffectedUnfinished ==
    ASSUME WellFormed(dag), DependencyOrder, FailedSteps(dag) # {}
    PROVE  \A s \in Affected(dag) : dag.step[s] \notin {"running", "completed"}
<1> DEFINE unfinished == {s \in Steps : dag.step[s] \notin {"running", "completed"}}
<1>1. FirstFailedStep(dag) \in unfinished
  BY FirstFailedStepFails DEF IsFirstFailedStep, FailedSteps
<1>2. ClosedUnderDependents(dag, unfinished)
  BY DEF ClosedUnderDependents, DependencyOrder
<1>3. Affected(dag) \subseteq unfinished
  BY <1>1, <1>2, AffectedSteps
<1>4. QED
  BY <1>3

LEMMA DisciplinedDependencyOrder ==
    ASSUME WellFormed(dag), Recomputed(dag), DependencyOrder, DisciplinedNext
    PROVE  DependencyOrder'
<1>0. Typed(dag) /\ dag'.dependencies = dag.dependencies /\ dag.dependencies \in DependencyMaps
  BY DagRowsAreTyped, DisciplinedSteps DEF WellFormed, DagRows
<1>1. \A s \in Steps : \A p \in dag.dependencies[s] : p \in Steps
  BY <1>0 DEF DependencyMaps
<1> SUFFICES ASSUME NEW s \in Steps, dag'.step[s] # "pending",
                    NEW p \in dag.dependencies[s]
             PROVE  dag'.step[p] = "completed"
  BY <1>0 DEF DependencyOrder
<1>2. CASE \E t \in Steps : BeginsStep(t)
  <2>1. PICK t \in Steps : BeginsStep(t)
    BY <1>2
  <2>2. dag.step[p] = "completed"
    BY <1>0, <2>1 DEF BeginsStep, DependencyOrder, Typed
  <2>3. QED
    BY <1>0, <1>1, <2>1, <2>2 DEF BeginsStep, Typed
<1>3. CASE \E t \in Steps, status \in {"completed", "failed", "cancelled"} : EndsStep(t, status)
  <2>1. PICK t \in Steps, status \in {"completed", "failed", "cancelled"} : EndsStep(t, status)
    BY <1>3
  <2>2. dag.step[p] = "completed"
    BY <1>0, <2>1 DEF EndsStep, DependencyOrder, Typed
  <2>3. QED
    BY <1>0, <1>1, <2>1, <2>2 DEF EndsStep, Typed
<1>4. CASE GivesUp
  BY <1>1, <1>4 DEF GivesUp, DependencyOrder, RunningSteps
<1>5. CASE FailedSteps(dag) # {} /\ PutsBack
  BY <1>1, <1>5, AffectedUnfinished DEF PutsBack, DependencyOrder
<1>6. CASE dag'.step = dag.step
  BY <1>6 DEF DependencyOrder
<1>7. QED
  BY <1>2, <1>3, <1>4, <1>5, <1>6, DisciplinedSteps

LEMMA InitDependencyOrder == Init => DependencyOrder
  BY DEF Init, CreatedRun, DependencyOrder

(* A step leaves pending only after all its dependencies are completed, and*)
(* this outlives failures, recoveries and resumes.  It is inductive only   *)
(* together with exact readiness, on which the executor's choice relies.   *)
THEOREM DependenciesFirst == DisciplinedSpec => []DependencyOrder
<1>1. WellFormed(dag) /\ Recomputed(dag) /\ DependencyOrder /\ [DisciplinedNext]_dag
        => DependencyOrder'
  <2>1. CASE dag' = dag
    BY <2>1 DEF DependencyOrder
  <2>2. QED
    BY <2>1, DisciplinedDependencyOrder
<1>2. QED
  BY InitDependencyOrder, DisciplinedInvariant, <1>1, PTL DEF DisciplinedSpec

LEMMA DisciplinedCompletedForever ==
    ASSUME WellFormed(dag), Recomputed(dag), DependencyOrder, DisciplinedNext,
           NEW s \in Steps, dag.step[s] = "completed"
    PROVE  dag'.step[s] = "completed"
<1>1. Typed(dag)
  BY DagRowsAreTyped DEF WellFormed
<1>2. ASSUME NEW t \in Steps, BeginsStep(t) PROVE dag'.step[s] = "completed"
  BY <1>1, <1>2 DEF BeginsStep, Typed
<1>3. ASSUME NEW t \in Steps, NEW status, EndsStep(t, status) PROVE dag'.step[s] = "completed"
  BY <1>1, <1>3 DEF EndsStep, Typed
<1>4. CASE GivesUp
  BY <1>4 DEF GivesUp, RunningSteps
<1>5. CASE FailedSteps(dag) # {} /\ PutsBack
  BY <1>5, AffectedUnfinished DEF PutsBack
<1>6. QED
  BY <1>2, <1>3, <1>4, <1>5, DisciplinedSteps

(* Finished work is never thrown away: a resume resets the descendants of  *)
(* the first failed step, none of which can be running or completed.       *)
THEOREM CompletedStaysCompleted == DisciplinedSpec => CompletedForever
<1>1. WellFormed(dag) /\ Recomputed(dag) /\ DependencyOrder /\ [DisciplinedNext]_dag
        => [\A s \in Steps : dag.step[s] = "completed" => dag'.step[s] = "completed"]_dag
  BY DisciplinedCompletedForever
<1>2. QED
  BY DisciplinedInvariant, DependenciesFirst, <1>1, PTL DEF DisciplinedSpec, CompletedForever

(***************************************************************************)
(* The disciplined run implements StepOrder: an initial state maps to an   *)
(* initial state and every step to a step or a stutter.                    *)
(***************************************************************************)
Stage == [s \in Steps |-> StageOf(dag.step[s])]

LEMMA InitImplements == Init => Order!Init
<1> SUFFICES ASSUME NEW deps \in DependencyMaps, dag = CreatedRun(deps)
             PROVE  Order!Init
  BY DEF Init
<1>1. dag.dependencies \in [Steps -> SUBSET Steps]
  BY DEF CreatedRun, DependencyMaps
<1>2. \A s \in Steps : dag.step[s] = "pending"
  BY DEF CreatedRun
<1>3. QED
  BY <1>1, <1>2 DEF Order!Init, StageOf

LEMMA NextImplements ==
    ASSUME WellFormed(dag), WellFormed(dag'), Recomputed(dag), DependencyOrder, DisciplinedNext
    PROVE  Order!Next \/ UNCHANGED Order!vars
<1>1. Typed(dag) /\ Typed(dag') /\ dag'.dependencies = dag.dependencies
  BY DagRowsAreTyped, DisciplinedSteps DEF WellFormed
<1>2. dag.dependencies \in DependencyMaps
  BY DEF WellFormed, DagRows
<1>3. ASSUME NEW s \in Steps, BeginsStep(s) PROVE Order!Begin(s)
  <2>1. dag.dependencies[s] \subseteq Order!Done
    BY <1>2, <1>3 DEF BeginsStep, Order!Done, StageOf, DependencyMaps
  <2>2. StageOf(dag.step[s]) = "waiting"
    BY <1>3 DEF BeginsStep, StageOf
  <2>3. Stage' = [t \in Steps |-> IF t \in {s} THEN "running" ELSE Stage[t]]
    BY <1>1, <1>3 DEF BeginsStep, Stage, StageOf, Typed
  <2>4. QED
    BY <1>1, <2>1, <2>2, <2>3 DEF Order!Begin, Order!Move, Stage
<1>4. ASSUME NEW s \in Steps, EndsStep(s, "completed") PROVE Order!Finish(s)
  <2>1. StageOf(dag.step[s]) = "running"
    BY <1>4 DEF EndsStep, StageOf
  <2>2. Stage' = [t \in Steps |-> IF t \in {s} THEN "done" ELSE Stage[t]]
    BY <1>1, <1>4 DEF EndsStep, Stage, StageOf, Typed
  <2>3. QED
    BY <1>1, <2>1, <2>2 DEF Order!Finish, Order!Move, Stage
<1>5. ASSUME NEW s \in Steps, NEW status \in {"failed", "cancelled"}, EndsStep(s, status)
      PROVE  Order!Stop({s})
  <2>1. StageOf(dag.step[s]) = "running"
    BY <1>5 DEF EndsStep, StageOf
  <2>2. Stage' = [t \in Steps |-> IF t \in {s} THEN "stopped" ELSE Stage[t]]
    BY <1>1, <1>5 DEF EndsStep, Stage, StageOf, Typed
  <2>3. QED
    BY <1>1, <2>1, <2>2 DEF Order!Stop, Order!Move, Stage
<1>6. CASE GivesUp
  <2>1. \A s \in RunningSteps(dag) : s \in Steps /\ StageOf(dag.step[s]) = "running"
    BY DEF RunningSteps, StageOf
  <2>2. Stage' = [t \in Steps |-> IF t \in RunningSteps(dag) THEN "stopped" ELSE Stage[t]]
    BY <1>6 DEF GivesUp, Stage, StageOf
  <2>3. Order!Stop(RunningSteps(dag))
    BY <1>1, <2>1, <2>2 DEF Order!Stop, Order!Move, Stage
  <2>4. RunningSteps(dag) \in SUBSET Steps
    BY DEF RunningSteps
  <2>5. QED
    BY <2>3, <2>4 DEF Order!Next
<1>7. CASE FailedSteps(dag) # {} /\ PutsBack
  <2>1. Affected(dag) \in SUBSET Steps
    BY <1>7, AffectedSteps
  <2>2. \A s \in Affected(dag) : StageOf(dag.step[s]) \in {"waiting", "stopped"}
    BY <1>1, <1>7, <2>1, AffectedUnfinished DEF StageOf, Typed, StepStatuses
  <2>3. Stage' = [t \in Steps |-> IF t \in Affected(dag) THEN "waiting" ELSE Stage[t]]
    BY <1>7 DEF PutsBack, Stage, StageOf
  <2>4. Order!Retry(Affected(dag))
    BY <1>1, <2>1, <2>2, <2>3 DEF Order!Retry, Order!Move, Stage
  <2>5. QED
    BY <2>1, <2>4 DEF Order!Next
<1>8. CASE dag'.step = dag.step
  BY <1>1, <1>8 DEF Order!vars
<1>9. QED
  <2>1. CASE \E s \in Steps : BeginsStep(s)
    BY <1>3, <2>1 DEF Order!Next
  <2>2. CASE \E s \in Steps, status \in {"completed", "failed", "cancelled"} : EndsStep(s, status)
    <3>1. PICK s \in Steps, status \in {"completed", "failed", "cancelled"} : EndsStep(s, status)
      BY <2>2
    <3>2. Order!Finish(s) \/ Order!Stop({s})
      BY <1>4, <1>5, <3>1
    <3>3. QED
      BY <3>2 DEF Order!Next
  <2>3. QED
    BY <1>6, <1>7, <1>8, <2>1, <2>2, DisciplinedSteps

(* A DAG run under the executor's discipline is a StepOrder: begun only    *)
(* after its dependencies, done for ever, put back only when stopped.      *)
THEOREM ImplementsOrder == DisciplinedSpec => ImplementsStepOrder
<1>1. WellFormed(dag) /\ WellFormed(dag)' /\ Recomputed(dag) /\ DependencyOrder
        /\ [DisciplinedNext]_dag => [Order!Next]_(Order!vars)
  <2> SUFFICES ASSUME WellFormed(dag), WellFormed(dag)', Recomputed(dag), DependencyOrder,
                      [DisciplinedNext]_dag
               PROVE  [Order!Next]_(Order!vars)
    OBVIOUS
  <2>1. CASE dag' = dag
    BY <2>1 DEF Order!vars
  <2>2. CASE DisciplinedNext
    BY <2>2, NextImplements
  <2>3. QED
    BY <2>1, <2>2
<1>2. QED
  BY InitImplements, DisciplinedInvariant, DependenciesFirst, <1>1, PTL
     DEF DisciplinedSpec, ImplementsStepOrder, Order!Spec
=============================================================================
