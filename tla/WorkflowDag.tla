---------------------------- MODULE WorkflowDag ----------------------------
(***************************************************************************)
(* The durable state of one workflow DAG run (tables workflow_dag_runs,    *)
(* workflow_dag_run_steps and workflow_dag_run_step_attempts) and the      *)
(* operations of LocalWorkflowStateService on it.  Every operation is one  *)
(* SQLite transaction on a synchronous connection, so it is one operator   *)
(* from the old row set to the new one.                                    *)
(*                                                                         *)
(* A step is named by its position in the run's stepOrder.  The order is   *)
(* topological (parseWorkflowTemplateDag rejects every other graph), so    *)
(* dependencies have smaller names than the steps that wait for them.      *)
(***************************************************************************)
EXTENDS Naturals

CONSTANTS StepCount,    \* length of stepOrder; an empty template is rejected
          MaxAttempts   \* bound: no step is started more often than this

ASSUME StepCountAssumption == StepCount \in Nat \ {0}
ASSUME MaxAttemptsAssumption == MaxAttempts \in Nat \ {0}

Steps == 1 .. StepCount

RunStatuses == {"pending", "running", "completed", "failed", "resumable", "cancelled"}
StepStatuses == {"pending", "running", "completed", "failed", "cancelled"}
AttemptStatuses == {"running", "completed", "failed", "cancelled"}

DependencyMaps ==
    {deps \in [Steps -> SUBSET Steps] : \A s \in Steps : \A p \in deps[s] : p < s}

(***************************************************************************)
(* Readiness: a pure function of the step rows, recomputed at the end of   *)
(* every transition.                                                       *)
(***************************************************************************)
BlockingStepIds(d, s) == {p \in d.dependencies[s] : d.step[p] # "completed"}

RecomputeReadiness(d) ==
    [d EXCEPT
        !.ready = [s \in Steps |-> d.step[s] = "pending" /\ BlockingStepIds(d, s) = {}],
        !.blocking = [s \in Steps |-> BlockingStepIds(d, s)]]

(* WorkflowDagRunRepository.create, called through createRun. *)
CreatedRun(deps) ==
    [status       |-> "pending",
     dependencies |-> deps,
     step         |-> [s \in Steps |-> "pending"],
     attempt      |-> [s \in Steps |-> 0],
     attempts     |-> [s \in Steps |-> << >>],
     ready        |-> [s \in Steps |-> deps[s] = {}],
     blocking     |-> deps]

(* startAttempt and finishAttempt both end in an upsert of row n. *)
WithAttempt(rows, n, status) ==
    [m \in DOMAIN rows \cup {n} |-> IF m = n THEN status ELSE rows[m]]

StartStep(d, s) ==
    RecomputeReadiness(
        [d EXCEPT !.status = "running",
                  !.step[s] = "running",
                  !.attempt[s] = @ + 1,
                  !.attempts[s] = WithAttempt(@, d.attempt[s] + 1, "running")])

(* Mutant: one completed step is enough. *)
FinalizeRunEarly(d) ==
    [d EXCEPT !.status =
        IF \E s \in Steps : d.step[s] = "completed" THEN "completed"
        ELSE IF @ \notin {"failed", "resumable"} THEN "running" ELSE @]

(* The last write of completeStep: the run's status follows its steps. *)
FinalizeRun(d) ==
    [d EXCEPT !.status =
        IF \A s \in Steps : d.step[s] = "completed" THEN "completed"
        ELSE IF @ \notin {"failed", "resumable"} THEN "running" ELSE @]

CompleteStep(d, s) ==
    FinalizeRun(RecomputeReadiness(
        [d EXCEPT !.step[s] = "completed",
                  !.attempts[s] = WithAttempt(@, d.attempt[s], "completed")]))

(* Mutant: finishAttempt is forgotten. *)
FailStepOnly(d, s) ==
    RecomputeReadiness([d EXCEPT !.status = "failed", !.step[s] = "failed"])

FailStep(d, s) ==
    RecomputeReadiness(
        [d EXCEPT !.status = "failed",
                  !.step[s] = "failed",
                  !.attempts[s] = WithAttempt(@, d.attempt[s], "failed")])

(* A second cancellation of the same step returns the snapshot as it is. *)
CancelStep(d, s) ==
    IF d.step[s] = "cancelled" THEN d
    ELSE RecomputeReadiness(
            [d EXCEPT !.status = "cancelled",
                      !.step[s] = "cancelled",
                      !.attempts[s] = IF d.attempt[s] > 0
                                      THEN WithAttempt(@, d.attempt[s], "cancelled")
                                      ELSE @])

RunningSteps(d) == {s \in Steps : d.step[s] = "running"}

(* Mutant: recovered steps are queued again at once. *)
RecoverAsPending(d) ==
    IF RunningSteps(d) = {} THEN d
    ELSE RecomputeReadiness(
            [d EXCEPT !.status = "resumable",
                      !.step = [s \in Steps |->
                          IF s \in RunningSteps(d) THEN "pending" ELSE d.step[s]]])

RecoverStaleRunningSteps(d) ==
    IF RunningSteps(d) = {} THEN d
    ELSE RecomputeReadiness(
            [d EXCEPT !.status = "resumable",
                      !.step = [s \in Steps |->
                          IF s \in RunningSteps(d) THEN "failed" ELSE d.step[s]],
                      !.attempts = [s \in Steps |->
                          IF s \in RunningSteps(d)
                          THEN WithAttempt(d.attempts[s], d.attempt[s], "failed")
                          ELSE d.attempts[s]]])

(***************************************************************************)
(* collectDescendantStepIds: a breadth-first closure, here the least set   *)
(* that holds the start step and every dependent of its members.           *)
(***************************************************************************)
ClosedUnderDependents(d, S) ==
    \A s \in Steps : d.dependencies[s] \cap S # {} => s \in S

DescendantStepIds(d, start) ==
    {s \in Steps : \A S \in SUBSET Steps :
                      start \in S /\ ClosedUnderDependents(d, S) => s \in S}

FailedSteps(d) == {s \in Steps : d.step[s] = "failed"}
IsFirstFailedStep(d, s) == s \in FailedSteps(d) /\ \A t \in FailedSteps(d) : s <= t
FirstFailedStep(d) == CHOOSE s \in Steps : IsFirstFailedStep(d, s)

ResumeFromFirstFailedStep(d) ==
    IF FailedSteps(d) = {} THEN RecomputeReadiness(d)
    ELSE LET affected == DescendantStepIds(d, FirstFailedStep(d))
         IN RecomputeReadiness(
                [d EXCEPT !.status = "pending",
                          !.step = [s \in Steps |->
                              IF s \in affected THEN "pending" ELSE d.step[s]]])
-----------------------------------------------------------------------------
VARIABLE dag    \* the rows of the run

Init == \E deps \in DependencyMaps : dag = CreatedRun(deps)

Start(s) == dag.attempt[s] < MaxAttempts /\ dag' = StartStep(dag, s)
Complete(s) == dag' = CompleteStep(dag, s)
Fail(s) == dag' = FailStep(dag, s)
Cancel(s) == dag' = CancelStep(dag, s)
Recover == dag' = RecoverStaleRunningSteps(dag)
Resume == dag' = ResumeFromFirstFailedStep(dag)

(***************************************************************************)
(* Any caller: LocalWorkflowStateService checks no step status, so a task  *)
(* run that ends late may complete, fail or cancel a step whatever has     *)
(* become of it.  The one thing every caller in the repository does first  *)
(* is to start the step (task-workbench.ts).                               *)
(***************************************************************************)
Started(s) == dag.attempt[s] > 0

Next == \/ \E s \in Steps : \/ Start(s)
                            \/ Started(s) /\ Complete(s)
                            \/ Started(s) /\ Fail(s)
                            \/ Cancel(s)
        \/ Recover
        \/ Resume

Spec == Init /\ [][Next]_dag

(***************************************************************************)
(* The discipline of one executor that nobody interferes with: it starts a *)
(* pending ready step (selectNextReadyStep) and ends only steps that run.  *)
(***************************************************************************)
Selectable(s) == dag.step[s] = "pending" /\ dag.ready[s]
Running(s) == dag.step[s] = "running"

DisciplinedNext == \/ \E s \in Steps : \/ Selectable(s) /\ Start(s)
                                       \/ Running(s) /\ Complete(s)
                                       \/ Running(s) /\ Fail(s)
                                       \/ Running(s) /\ Cancel(s)
                   \/ Recover
                   \/ Resume

DisciplinedSpec == Init /\ [][DisciplinedNext]_dag
-----------------------------------------------------------------------------
DagRows == [status : RunStatuses,
            dependencies : DependencyMaps,
            step : [Steps -> StepStatuses],
            attempt : [Steps -> 0 .. MaxAttempts],
            attempts : [Steps -> UNION {[1 .. n -> AttemptStatuses] : n \in 0 .. MaxAttempts}],
            ready : [Steps -> BOOLEAN],
            blocking : [Steps -> SUBSET Steps]]

(* The rows are well formed, and the attempt rows of a step are numbered 1 *)
(* to step.attempt without a gap: no operation can leave a step whose      *)
(* latest attempt has no row (startStep, finishAttempt).                   *)
TypeOK == /\ dag \in DagRows
          /\ \A s \in Steps : DOMAIN dag.attempts[s] = 1 .. dag.attempt[s]

(* A step is offered to the executor exactly when it is pending and all    *)
(* its dependencies are completed, and blockingStepIds names exactly the   *)
(* dependencies that are not, whatever operation ran last.                 *)
ReadinessExact ==
    \A s \in Steps :
        /\ dag.blocking[s] = {p \in dag.dependencies[s] : dag.step[p] # "completed"}
        /\ dag.ready[s] <=> dag.step[s] = "pending" /\ dag.blocking[s] = {}

(* The run reads completed exactly while every step is completed: no order *)
(* of starts, late results, recoveries and resumes leaves a run completed  *)
(* with work outstanding, or finished work unreported.                     *)
CompletedExact ==
    dag.status = "completed" <=> \A s \in Steps : dag.step[s] = "completed"

(* The newest attempt row of a step that is running or has ended says what *)
(* the step row says.                                                      *)
LatestAttemptAgrees ==
    \A s \in Steps : dag.step[s] # "pending" /\ dag.attempt[s] > 0
                        => dag.attempts[s][dag.attempt[s]] = dag.step[s]

(* Attempt history is append-only: once a later attempt has started, the   *)
(* row of an earlier one never changes, and no row disappears.             *)
OlderAttemptsFrozen ==
    [][\A s \in Steps :
          /\ dag'.attempt[s] >= dag.attempt[s]
          /\ \A n \in DOMAIN dag.attempts[s] :
                /\ n \in DOMAIN dag'.attempts[s]
                /\ n < dag.attempt[s] => dag'.attempts[s][n] = dag.attempts[s][n]]_dag

(* Under the executor's discipline a step that has left pending has all    *)
(* its dependencies completed, even after failures, recoveries of stale    *)
(* steps and resumes from the first failed step.                           *)
DependencyOrder ==
    \A s \in Steps : dag.step[s] # "pending"
                        => \A p \in dag.dependencies[s] : dag.step[p] = "completed"

(* Completed work is never thrown away: resuming from a failed step resets *)
(* its descendants, and none of those can be completed or running.         *)
CompletedForever ==
    [][\A s \in Steps : dag.step[s] = "completed" => dag'.step[s] = "completed"]_dag

(***************************************************************************)
(* The disciplined DAG run implements the abstract contract of StepOrder.  *)
(***************************************************************************)
StageOf(status) == CASE status = "pending"   -> "waiting"
                     [] status = "running"   -> "running"
                     [] status = "completed" -> "done"
                     [] OTHER                -> "stopped"

Order == INSTANCE StepOrder
            WITH dependencies <- dag.dependencies,
                 stage <- [s \in Steps |-> StageOf(dag.step[s])]

ImplementsStepOrder == Order!Spec
=============================================================================
