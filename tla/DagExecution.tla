---------------------------- MODULE DagExecution ----------------------------
(***************************************************************************)
(* One workflow DAG run being executed: the executors that walk it         *)
(* (LocalWorkflowDagExecutorService), the task runs they and the API start *)
(* (LocalTaskWorkbenchService.runTask), the child processes, cancellation, *)
(* and a crash of the control plane with the recovery at the next startup. *)
(*                                                                         *)
(* Node.js runs one callback at a time, so everything between two awaits   *)
(* is one step as far as other callbacks can see.  It is not one step for  *)
(* a crash: such a section writes the task row, the run row and the DAG    *)
(* rows in separate SQLite transactions.  The variable todo holds the      *)
(* transactions a section still has to make; while it is not empty nothing *)
(* else happens, except a crash.                                           *)
(*                                                                         *)
(* Every step s of the run has the one task that the template projected    *)
(* from it (findByWorkflowDagStep), so tasks are named by their steps.     *)
(***************************************************************************)
EXTENDS WorkflowDag, Sequences, FiniteSets

CONSTANTS
    MaxRuns,        \* bound: task runs ever created
    CallBudget,     \* bound: an executor is called only while this many are left
    MaxCrashes,     \* bound: crashes of the control plane
    Executors,      \* executor instances: the API's own, one per schedule run
    ApiUsers,       \* whether people also run, ready and cancel tasks
    AwaitingSteps,  \* steps whose agent needs a model provider or shared memory
    HttpSteps,      \* steps whose agent is an HTTP endpoint, not a child process
    RetryLimit      \* RetryLimit[s]: maxAttempts of the retry policy, 1 if none

ASSUME ExecutionAssumption ==
    /\ MaxRuns \in Nat \ {0} /\ MaxRuns <= MaxAttempts
    /\ CallBudget \in Nat
    /\ MaxCrashes \in Nat
    /\ ApiUsers \in BOOLEAN
    /\ AwaitingSteps \subseteq Steps
    /\ HttpSteps \subseteq Steps
    /\ RetryLimit \in [Steps -> Nat \ {0}]

VARIABLES task,     \* task[s]: status of the projected task (table tasks)
          runs,     \* runs[r]: the row of a task run and the call that attends it
          exec,     \* exec[e]: where an executor is in executeInternal
          todo,     \* transactions left in the current synchronous section
          crashes   \* crashes so far
vars == <<dag, task, runs, exec, todo, crashes>>

Runs == 1 .. MaxRuns
Api == "api"
NoStep == 0

TaskStatuses == {"ready", "running", "completed", "failed", "cancelled"}
RowStatuses == {"none", "running", "completed", "failed", "cancelled", "stopped-by-limit"}

(***************************************************************************)
(* The call of runTask that attends a run, held in memory:                 *)
(*   prelude  it passed the readiness checks and awaits the provider or    *)
(*            the shared memory; there is no run row yet                   *)
(*   live     the child process or HTTP request is out; activeRuns holds   *)
(*            the run                                                      *)
(*   memory   the child is gone, runtime memory requests are being served  *)
(***************************************************************************)
Phases == {"free", "prelude", "live", "memory", "gone"}
Attended(r) == runs[r].phase \in {"live", "memory"}

FreeRun == [step |-> NoStep, row |-> "none", phase |-> "free", by |-> Api,
            cancellationRequested |-> FALSE]

(* inFlightRuns of an executor: idle, inside runTask (or about to be), or  *)
(* sleeping before a retry.                                                *)
ExecPhases == {"idle", "walking", "backoff"}

ExecutionInit ==
    /\ Init
    /\ task = [s \in Steps |-> "ready"]
    /\ runs = [r \in Runs |-> FreeRun]
    /\ exec = [e \in Executors |-> "idle"]
    /\ todo = << >>
    /\ crashes = 0

(***************************************************************************)
(* The entries of todo: transactions, the updates that the executor makes  *)
(* after a resume, and the two points at the end of a section where it     *)
(* goes on in the executor.                                                *)
(***************************************************************************)
TaskWrite(s, to) == [kind |-> "task", step |-> s, to |-> to]
RowWrite(r, to) == [kind |-> "row", run |-> r, to |-> to]
DagWrite(op, s) == [kind |-> "dag", op |-> op, step |-> s]
RecoverRows == [kind |-> "recover rows"]
ResetTasks == [kind |-> "reset tasks"]
Return(r) == [kind |-> "return", run |-> r]
Choose(e) == [kind |-> "choose", by |-> e]

(* Mutant: the linked step is not started. *)
LaunchWritesRowsOnly(r, s) ==
    <<RowWrite(r, "running"), TaskWrite(s, "running")>>

LaunchWrites(r, s) ==
    <<RowWrite(r, "running"), TaskWrite(s, "running"), DagWrite("start", s)>>
CompleteTaskRun(r, s) ==
    <<TaskWrite(s, "completed"), RowWrite(r, "completed"), DagWrite("complete", s), Return(r)>>
(* Mutant: the task row is left as it is. *)
FailTaskRunRowOnly(r, s) ==
    <<RowWrite(r, "failed"), DagWrite("fail", s), Return(r)>>

FailTaskRun(r, s) ==
    <<TaskWrite(s, "failed"), RowWrite(r, "failed"), DagWrite("fail", s), Return(r)>>
StopTaskRunByLimit(r, s) ==
    <<TaskWrite(s, "failed"), RowWrite(r, "stopped-by-limit"), DagWrite("fail", s), Return(r)>>
CancelTaskRun(r, s) ==
    <<TaskWrite(s, "cancelled"), RowWrite(r, "cancelled"), DagWrite("cancel", s), Return(r)>>

Idle == todo = << >>
-----------------------------------------------------------------------------
(***************************************************************************)
(* Starting a task run.                                                    *)
(***************************************************************************)
NextFreeRun(r) == /\ runs[r].phase = "free"
                  /\ \A q \in 1 .. (r - 1) : runs[q].phase # "free"

(* runTask up to its first await.  The checks look at the task row only:   *)
(* neither the step's dependencies nor its status in the DAG are read.     *)
BeginTaskRun(r, s, caller) ==
    /\ NextFreeRun(r)
    /\ task[s] = "ready"
    /\ LET phase == IF s \in AwaitingSteps THEN "prelude" ELSE "live" IN
           runs' = [runs EXCEPT ![r] = [FreeRun EXCEPT !.step = s, !.by = caller,
                                                       !.phase = phase]]

(* After the awaits nothing is checked again. *)
PreludeEnds(r) ==
    /\ Idle /\ runs[r].phase = "prelude"
    /\ runs' = [runs EXCEPT ![r].phase = "live"]
    /\ todo' = LaunchWrites(r, runs[r].step)
    /\ UNCHANGED <<dag, task, exec, crashes>>

(* Mutant: withRunGuard keeps the rejected promise. *)
PreludeFailsGuardHeld(r) ==
    /\ Idle /\ runs[r].phase = "prelude"
    /\ runs' = [runs EXCEPT ![r].phase = "gone"]
    /\ UNCHANGED <<dag, task, exec, todo, crashes>>

(* The provider cannot be resolved: runTask throws before any write, and   *)
(* an executor's promise is rejected with it.                              *)
PreludeFails(r) ==
    /\ Idle /\ runs[r].phase = "prelude"
    /\ runs' = [runs EXCEPT ![r].phase = "gone"]
    /\ exec' = [e \in Executors |-> IF runs[r].by = e THEN "idle" ELSE exec[e]]
    /\ UNCHANGED <<dag, task, todo, crashes>>

(* POST /tasks/:id/run, or a mission that reaches the task. *)
ApiRunsTask(s) ==
    /\ ApiUsers /\ Idle
    /\ \E r \in Runs :
          /\ BeginTaskRun(r, s, Api)
          /\ todo' = IF s \in AwaitingSteps THEN << >> ELSE LaunchWrites(r, s)
    /\ UNCHANGED <<dag, task, exec, crashes>>

(* Task update: a person puts the task back to ready, whatever it is now. *)
ApiReadiesTask(s) ==
    /\ ApiUsers /\ Idle
    /\ task[s] # "ready"
    /\ task' = [task EXCEPT ![s] = "ready"]
    /\ UNCHANGED <<dag, runs, exec, todo, crashes>>

(***************************************************************************)
(* The end of a task run: the continuation of runTask after waitForExit.   *)
(***************************************************************************)
Ends(section) ==
    /\ todo' = section
    /\ UNCHANGED <<dag, task, runs, exec, crashes>>

(* The result is in hand: memory requests are awaited (the run has left    *)
(* activeRuns by then), artifacts are stored, then the run completes; a    *)
(* failure on the way fails the run.                                       *)
AwaitsMemory(r) ==
    /\ runs[r].phase = "live" /\ runs[r].step \in AwaitingSteps
    /\ runs' = [runs EXCEPT ![r].phase = "memory"]
    /\ UNCHANGED <<dag, task, exec, todo, crashes>>

Succeeds(r) ==
    \/ AwaitsMemory(r)
    \/ /\ runs[r].phase = "memory" \/ runs[r].step \notin AwaitingSteps
       /\ \/ Ends(CompleteTaskRun(r, runs[r].step))
          \/ Ends(FailTaskRun(r, runs[r].step))

(* A child closes: by itself, killed by maxRuntimeSeconds, or terminated   *)
(* by a cancellation, which then wins over every other outcome.            *)
ChildCloses(r) ==
    /\ Idle /\ runs[r].phase = "live" /\ runs[r].step \notin HttpSteps
    /\ LET s == runs[r].step IN
       IF runs[r].cancellationRequested THEN Ends(CancelTaskRun(r, s))
       ELSE \/ Ends(StopTaskRunByLimit(r, s))
            \/ Ends(FailTaskRun(r, s))
            \/ Succeeds(r)

(* The child's error event (it could not be spawned or signalled). *)
ChildErrors(r) ==
    /\ Idle /\ runs[r].phase = "live" /\ runs[r].step \notin HttpSteps
    /\ Ends(FailTaskRun(r, runs[r].step))

(* runHttpApiTask: an answer, an error, or the abort after maxRuntime.     *)
HttpAnswers(r) ==
    /\ Idle /\ runs[r].phase = "live" /\ runs[r].step \in HttpSteps
    /\ LET s == runs[r].step IN
       \/ Ends(StopTaskRunByLimit(r, s))
       \/ Ends(FailTaskRun(r, s))
       \/ Succeeds(r)

MemoryServed(r) ==
    /\ Idle /\ runs[r].phase = "memory"
    /\ Succeeds(r)

(***************************************************************************)
(* cancelRun looks in the activeRuns of its own workbench instance: it     *)
(* finds what the API started, never what an executor started, and it can  *)
(* stop a child process only (an HTTP run answers "unsupported").          *)
(***************************************************************************)
(* Mutant: the run leaves activeRuns only when runTask returns. *)
InActiveRunsToTheEnd(r) == Attended(r) /\ runs[r].by = Api

InActiveRuns(r) == runs[r].phase = "live" /\ runs[r].by = Api

CancelActiveRun(r) ==
    /\ runs' = [runs EXCEPT ![r].cancellationRequested = TRUE]
    /\ LET s == runs[r].step IN
       todo' = IF runs[r].row \in {"completed", "failed", "cancelled"}
               THEN <<TaskWrite(s, "cancelled")>>
               ELSE <<TaskWrite(s, "cancelled"), RowWrite(r, "cancelled"), DagWrite("cancel", s)>>

ApiCancelsRun(r) ==
    /\ ApiUsers /\ Idle
    /\ InActiveRuns(r) /\ runs[r].step \notin HttpSteps
    /\ CancelActiveRun(r)
    /\ UNCHANGED <<dag, task, exec, crashes>>
-----------------------------------------------------------------------------
(***************************************************************************)
(* Executors.                                                              *)
(***************************************************************************)
(* execute and resume return the promise in flight when there is one, so   *)
(* only an idle executor does anything.                                    *)
RunsLeft == CallBudget <= Cardinality({r \in Runs : runs[r].phase = "free"})

(* Mutant: no withRunGuard. *)
ExecutorExecutesUnguarded(e) ==
    /\ Idle /\ RunsLeft
    /\ exec' = [exec EXCEPT ![e] = "walking"]
    /\ todo' = <<Choose(e)>>
    /\ UNCHANGED <<dag, task, runs, crashes>>

ExecutorExecutes(e) ==
    /\ Idle /\ exec[e] = "idle" /\ RunsLeft
    /\ exec' = [exec EXCEPT ![e] = "walking"]
    /\ todo' = <<Choose(e)>>
    /\ UNCHANGED <<dag, task, runs, crashes>>

(* Mutant: no withRunGuard. *)
ExecutorResumesUnguarded(e) ==
    /\ Idle /\ RunsLeft
    /\ exec' = [exec EXCEPT ![e] = "walking"]
    /\ todo' = <<DagWrite("recover", NoStep), DagWrite("resume", NoStep), ResetTasks, Choose(e)>>
    /\ UNCHANGED <<dag, task, runs, crashes>>

ExecutorResumes(e) ==
    /\ Idle /\ exec[e] = "idle" /\ RunsLeft
    /\ exec' = [exec EXCEPT ![e] = "walking"]
    /\ todo' = <<DagWrite("recover", NoStep), DagWrite("resume", NoStep), ResetTasks, Choose(e)>>
    /\ UNCHANGED <<dag, task, runs, crashes>>

BackoffEnds(e) ==
    /\ Idle /\ exec[e] = "backoff"
    /\ exec' = [exec EXCEPT ![e] = "walking"]
    /\ todo' = <<Choose(e)>>
    /\ UNCHANGED <<dag, task, runs, crashes>>

(* selectNextReadyStep: stepOrder is the order of the names. *)
IsNextReadyStep(d, s) ==
    /\ d.step[s] = "pending" /\ d.ready[s]
    /\ \A t \in Steps : d.step[t] = "pending" /\ d.ready[t] => s <= t

Finished(d) == d.status \in {"failed", "completed", "resumable"}

StopWalking(e) ==
    /\ exec' = [exec EXCEPT ![e] = "idle"]
    /\ todo' = << >>
    /\ UNCHANGED <<task, runs>>

(* The head of the while loop, up to the first await inside runTask.  A    *)
(* task that is not ready makes runTask, and with it execute, throw.       *)
ExecutorChooses(e) ==
    /\ ~ Idle /\ Head(todo) = Choose(e)
    /\ dag' = RecomputeReadiness(dag)
    /\ \/ /\ \/ Finished(dag')
             \/ \A s \in Steps : ~ IsNextReadyStep(dag', s)
             \/ \E s \in Steps : IsNextReadyStep(dag', s) /\ task[s] # "ready"
          /\ StopWalking(e)
       \/ /\ ~ Finished(dag')
          /\ \E s \in Steps, r \in Runs :
                /\ IsNextReadyStep(dag', s)
                /\ BeginTaskRun(r, s, e)
                /\ todo' = IF s \in AwaitingSteps THEN << >> ELSE LaunchWrites(r, s)
          /\ UNCHANGED <<task, exec>>
    /\ UNCHANGED crashes

(* The rest of the loop body when runTask returns: evaluateRetryDecision,  *)
(* whose verdict beyond the attempt count depends on the kind of failure   *)
(* and the idempotency the policy declares.                                *)
RetryAllowed(d, s) == d.attempt[s] < RetryLimit[s]

ExecutorContinues(e, r) ==
    \/ /\ runs[r].row = "completed"
       /\ todo' = <<Choose(e)>>
       /\ UNCHANGED exec
    \/ /\ runs[r].row # "completed" /\ RetryAllowed(dag', runs[r].step)
       /\ todo' = <<DagWrite("resume", NoStep), ResetTasks>>
       /\ exec' = [exec EXCEPT ![e] = "backoff"]
    \/ /\ runs[r].row # "completed"
       /\ todo' = << >>
       /\ exec' = [exec EXCEPT ![e] = "idle"]

RunReturns ==
    /\ ~ Idle
    /\ \E r \in Runs :
          /\ Head(todo) = Return(r)
          /\ runs' = [runs EXCEPT ![r].phase = "gone"]
          /\ \/ /\ runs[r].by = Api
                /\ todo' = << >> /\ UNCHANGED <<dag, exec>>
             \/ /\ dag' = RecomputeReadiness(dag)
                /\ \E e \in Executors : runs[r].by = e /\ ExecutorContinues(e, r)
    /\ UNCHANGED <<task, crashes>>
-----------------------------------------------------------------------------
(***************************************************************************)
(* One transaction of the current section.                                 *)
(***************************************************************************)
WriteTask ==
    /\ ~ Idle /\ Head(todo).kind = "task"
    /\ task' = [task EXCEPT ![Head(todo).step] = Head(todo).to]
    /\ todo' = Tail(todo)
    /\ UNCHANGED <<dag, runs, exec, crashes>>

WriteRow ==
    /\ ~ Idle /\ Head(todo).kind = "row"
    /\ runs' = [runs EXCEPT ![Head(todo).run].row = Head(todo).to]
    /\ todo' = Tail(todo)
    /\ UNCHANGED <<dag, task, exec, crashes>>

(* Mutant: only runs that are resumable already are listed. *)
StartupRecoveryOfResumable(d) ==
    IF d.status = "resumable" THEN RecoverStaleRunningSteps(d) ELSE d

(* recoverStaleWorkflowDagRuns lists runs whose status is running only. *)
StartupRecovery(d) == IF d.status = "running" THEN RecoverStaleRunningSteps(d) ELSE d

AfterDagWrite(op, s) ==
    CASE op = "start"    -> StartStep(dag, s)
      [] op = "complete" -> CompleteStep(dag, s)
      [] op = "fail"     -> FailStep(dag, s)
      [] op = "cancel"   -> CancelStep(dag, s)
      [] op = "recover"  -> RecoverStaleRunningSteps(dag)
      [] op = "startup"  -> StartupRecovery(dag)
      [] op = "resume"   -> ResumeFromFirstFailedStep(dag)

WriteDag ==
    /\ ~ Idle /\ Head(todo).kind = "dag"
    /\ dag' = AfterDagWrite(Head(todo).op, Head(todo).step)
    /\ todo' = Tail(todo)
    /\ UNCHANGED <<task, runs, exec, crashes>>

(* resetProjectedTasksForPendingSteps: one after the other, the tasks of   *)
(* pending steps that are neither ready nor completed go back to ready.    *)
Resettable(s) == dag.step[s] = "pending" /\ task[s] \notin {"ready", "completed"}

ResetsTask ==
    /\ ~ Idle /\ Head(todo) = ResetTasks
    /\ \/ \E s \in Steps :
             /\ Resettable(s) /\ \A t \in Steps : Resettable(t) => s <= t
             /\ task' = [task EXCEPT ![s] = "ready"]
             /\ UNCHANGED todo
       \/ /\ \A s \in Steps : ~ Resettable(s)
          /\ todo' = Tail(todo)
          /\ UNCHANGED task
    /\ UNCHANGED <<dag, runs, exec, crashes>>

(* recoverStaleTaskAndMissionRuns, one transaction. *)
RecoverRunRows ==
    /\ ~ Idle /\ Head(todo) = RecoverRows
    /\ LET stale == {r \in Runs : runs[r].row = "running"} IN
       /\ runs' = [r \in Runs |->
                     IF r \in stale THEN [runs[r] EXCEPT !.row = "failed"] ELSE runs[r]]
       /\ task' = [s \in Steps |->
                     IF task[s] = "running" /\ \E r \in stale : runs[r].step = s
                     THEN "failed" ELSE task[s]]
    /\ todo' = Tail(todo)
    /\ UNCHANGED <<dag, exec, crashes>>

(* Mutant: the next startup recovers the DAG runs only. *)
CrashRecoveringDagOnly ==
    /\ crashes < MaxCrashes
    /\ crashes' = crashes + 1
    /\ runs' = [r \in Runs |->
                  IF runs[r].phase = "free" THEN runs[r]
                  ELSE [runs[r] EXCEPT !.phase = "gone"]]
    /\ exec' = [e \in Executors |-> "idle"]
    /\ todo' = <<DagWrite("startup", NoStep)>>
    /\ UNCHANGED <<dag, task>>

(* The control plane dies between two transactions: calls, children's      *)
(* results and executors are lost, and the next process begins with the    *)
(* recovery of createLocalControlPlaneServices.                            *)
Crash ==
    /\ crashes < MaxCrashes
    /\ crashes' = crashes + 1
    /\ runs' = [r \in Runs |->
                  IF runs[r].phase = "free" THEN runs[r]
                  ELSE [runs[r] EXCEPT !.phase = "gone"]]
    /\ exec' = [e \in Executors |-> "idle"]
    /\ todo' = <<RecoverRows, DagWrite("startup", NoStep)>>
    /\ UNCHANGED <<dag, task>>
-----------------------------------------------------------------------------
Section == \/ WriteTask \/ WriteRow \/ WriteDag \/ ResetsTask \/ RecoverRunRows \/ RunReturns
           \/ \E e \in Executors : ExecutorChooses(e)

RunStep(r) == \/ PreludeEnds(r) \/ PreludeFails(r)
              \/ ChildCloses(r) \/ ChildErrors(r) \/ HttpAnswers(r) \/ MemoryServed(r)

ExecutionNext ==
    \/ Section
    \/ \E r \in Runs : RunStep(r) \/ ApiCancelsRun(r)
    \/ \E s \in Steps : ApiRunsTask(s) \/ ApiReadiesTask(s)
    \/ \E e \in Executors : ExecutorExecutes(e) \/ ExecutorResumes(e) \/ BackoffEnds(e)
    \/ Crash

ExecutionSpec == ExecutionInit /\ [][ExecutionNext]_vars

(***************************************************************************)
(* Fairness: a synchronous section runs to its end; awaited promises       *)
(* settle (the provider's and the memory service's answers, and timers); a *)
(* child or a request ends at the latest when maxRuntimeSeconds expires,   *)
(* since waitForExit then sends SIGTERM and, a second later, SIGKILL.      *)
(* Nothing obliges people to act, executors to be called or crashes to     *)
(* happen.                                                                 *)
(***************************************************************************)
FairExecutionSpec ==
    /\ ExecutionSpec
    /\ WF_vars(Section)
    /\ \A r \in Runs : WF_vars(RunStep(r))
    /\ \A e \in Executors : WF_vars(BackoffEnds(e))
-----------------------------------------------------------------------------
ExecutionTypeOK ==
    /\ TypeOK
    /\ task \in [Steps -> TaskStatuses]
    /\ runs \in [Runs -> [step : Steps \cup {NoStep}, row : RowStatuses, phase : Phases,
                          by : Executors \cup {Api}, cancellationRequested : BOOLEAN]]
    /\ exec \in [Executors -> ExecPhases]
    /\ crashes \in 0 .. MaxCrashes

AttendedRuns(s) == {r \in Runs : Attended(r) /\ runs[r].step = s}

(* Whenever the process is between two sections, a run row that reads      *)
(* running has a call attending it: no path through runTask, cancelRun or  *)
(* a crash and recovery leaves a zombie row behind.                        *)
NoZombieRun ==
    Idle => \A r \in Runs : runs[r].row = "running" => Attended(r)

(* The same for tasks: a task that reads running is being worked on.       *)
NoZombieTask ==
    Idle => \A s \in Steps : task[s] = "running" => AttendedRuns(s) # {}

(* Rows are well formed, and whatever the four actors and a crash do, no   *)
(* row of a run or task reads running without a call that will end it.     *)
ExecutionInv == ExecutionTypeOK /\ NoZombieRun /\ NoZombieTask

(* The same for DAG steps. *)
NoZombieStep ==
    Idle => \A s \in Steps : dag.step[s] = "running" => AttendedRuns(s) # {}

(* A run whose cancellation the API acknowledged never turns up completed, *)
(* however the termination races with the child's own exit and with the    *)
(* memory requests that follow it.                                         *)
CancelledNeverCompleted ==
    \A r \in Runs : runs[r].cancellationRequested => runs[r].row # "completed"

(* No two task runs of the same step are out at once. *)
OneRunPerStep ==
    Idle => \A s \in Steps : \A q, r \in AttendedRuns(s) : q = r

(* Every run row that reads running gets a verdict: from the child's exit, *)
(* from the runtime limit, from a failed service, or from the recovery     *)
(* after a crash.                                                          *)
EveryRunEnds ==
    \A r \in Runs : runs[r].row = "running" ~> runs[r].row # "running"

(* execute and resume return: the loop over the DAG with its retries and   *)
(* backoffs cannot go round for ever, and no await in it is left hanging.  *)
ExecutorReturns ==
    \A e \in Executors : exec[e] # "idle" ~> exec[e] = "idle"
=============================================================================
