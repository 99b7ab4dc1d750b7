------------------------- MODULE DagExecutionProofs -------------------------
(***************************************************************************)
(* Proofs about DagExecution, for every number of steps, task runs,        *)
(* executors and crashes: whoever acts, the DAG rows only change by the    *)
(* operations of WorkflowDag, no run or task row is left running, and a    *)
(* cancelled run does not complete; and one executor left to itself keeps  *)
(* to the discipline under which the DAG implements StepOrder.             *)
(***************************************************************************)
EXTENDS DagExecution, WorkflowDagProofs, FiniteSetTheorems

(***************************************************************************)
(* Where a synchronous section stands: what is left of it, and what its    *)
(* earlier transactions have brought about.                                *)
(***************************************************************************)
StepOf(r) == runs[r].step

LaunchingRow(r) == todo = LaunchWrites(r, StepOf(r))
LaunchingTask(r) ==
    /\ todo = <<TaskWrite(StepOf(r), "running"), DagWrite("start", StepOf(r))>>
    /\ runs[r].row = "running"
LaunchingStep(r) == todo = <<DagWrite("start", StepOf(r))>>
Launching(r) == Attended(r) /\ (LaunchingRow(r) \/ LaunchingTask(r) \/ LaunchingStep(r))

(* The task's status, the run's and the operation on the step go together. *)
Endings == {<<"completed", "completed", "complete">>, <<"failed", "failed", "fail">>,
            <<"failed", "stopped-by-limit", "fail">>, <<"cancelled", "cancelled", "cancel">>}

EndingTask(r, end) ==
    /\ todo = <<TaskWrite(StepOf(r), end[1]), RowWrite(r, end[2]), DagWrite(end[3], StepOf(r)),
                Return(r)>>
    /\ end[2] = "completed" => ~ runs[r].cancellationRequested
EndingRow(r, end) ==
    /\ todo = <<RowWrite(r, end[2]), DagWrite(end[3], StepOf(r)), Return(r)>>
    /\ task[StepOf(r)] # "running"
    /\ end[2] = "completed" => ~ runs[r].cancellationRequested
EndingStep(r, end) ==
    /\ todo = <<DagWrite(end[3], StepOf(r)), Return(r)>>
    /\ runs[r].row # "running"
Returning(r) == todo = <<Return(r)>> /\ runs[r].row # "running"
Ending(r) ==
    /\ Attended(r)
    /\ \/ \E end \in Endings : EndingTask(r, end) \/ EndingRow(r, end) \/ EndingStep(r, end)
       \/ Returning(r)

CancellingTask(r) == \/ todo = <<TaskWrite(StepOf(r), "cancelled")>>
                     \/ todo = <<TaskWrite(StepOf(r), "cancelled"), RowWrite(r, "cancelled"),
                                 DagWrite("cancel", StepOf(r))>>
CancellingRow(r) == /\ todo = <<RowWrite(r, "cancelled"), DagWrite("cancel", StepOf(r))>>
                    /\ task[StepOf(r)] # "running"
CancellingStep(r) == todo = <<DagWrite("cancel", StepOf(r))>>
Cancelling(r) ==
    /\ Attended(r) /\ runs[r].cancellationRequested
    /\ CancellingTask(r) \/ CancellingRow(r) \/ CancellingStep(r)

Recovering == todo = <<RecoverRows, DagWrite("startup", NoStep)>>
StartingUp == todo = <<DagWrite("startup", NoStep)>>

(* A retry ends before its backoff, a resume goes on to the walk. *)
RetryResumes == todo = <<DagWrite("resume", NoStep), ResetTasks>>
RetryResets == todo = <<ResetTasks>>

WalkRecovers(e) == todo = <<DagWrite("recover", NoStep), DagWrite("resume", NoStep), ResetTasks,
                            Choose(e)>>
WalkResumes(e) == todo = <<DagWrite("resume", NoStep), ResetTasks, Choose(e)>>
WalkResets(e) == todo = <<ResetTasks, Choose(e)>>
WalkChooses(e) == todo = <<Choose(e)>>
Walking(e) == WalkRecovers(e) \/ WalkResumes(e) \/ WalkResets(e) \/ WalkChooses(e)

Sections == \/ Idle
            \/ \E r \in Runs : Launching(r) \/ Ending(r) \/ Cancelling(r)
            \/ Recovering \/ StartingUp \/ RetryResumes \/ RetryResets
            \/ \E e \in Executors : Walking(e)

(***************************************************************************)
(* The inductive invariant.                                                *)
(***************************************************************************)
RunRows == [step : Steps \cup {NoStep}, row : RowStatuses, phase : Phases,
            by : Executors \cup {Api}, cancellationRequested : BOOLEAN]

RowsTyped == /\ task \in [Steps -> TaskStatuses]
          /\ runs \in [Runs -> RunRows]
          /\ exec \in [Executors -> ExecPhases]
          /\ crashes \in 0 .. MaxCrashes

(* A run has a step once it is not free, and no row before it is launched. *)
Begun == \A r \in Runs :
            /\ runs[r].phase # "free" => StepOf(r) \in Steps
            /\ runs[r].phase \in {"free", "prelude"} => runs[r].row = "none"

(* Rows and tasks that read running: the strengthening of NoZombieRun and  *)
(* NoZombieTask.                                                           *)
RunningIsAttended ==
    ~ Recovering => \A r \in Runs : runs[r].row = "running" => Attended(r)
RunningTaskHasRow ==
    \A s \in Steps : task[s] = "running" =>
       \E r \in Runs : StepOf(r) = s /\ runs[r].row = "running"

(* Only a live child process is cancelled, and only a run that is about to *)
(* return has completed.                                                   *)
CancelledIsLive ==
    \A r \in Runs : runs[r].cancellationRequested =>
       runs[r].row # "completed" /\ runs[r].phase \in {"live", "gone"}
       /\ StepOf(r) \notin HttpSteps
CompletedReturns ==
    \A r \in Runs : Attended(r) /\ runs[r].row = "completed" =>
       Returning(r) \/ \E end \in Endings : EndingStep(r, end)

(* A step has been started as often as runs were launched for it at most,  *)
(* and at least once while a run of it is attended.                        *)
Launched == {r \in Runs : runs[r].phase \notin {"free", "prelude"}}
SomeLaunching == \E r \in Runs : Launching(r)
StartsCounted ==
    \A s \in Steps : /\ dag.attempt[s] <= Cardinality(Launched)
                     /\ SomeLaunching => dag.attempt[s] < Cardinality(Launched)
AttendedIsStarted ==
    \A r \in Runs : Attended(r) => Launching(r) \/ dag.attempt[StepOf(r)] > 0

RowsInv == /\ RowsTyped /\ Sections /\ Begun
           /\ RunningIsAttended /\ RunningTaskHasRow
           /\ CancelledIsLive /\ CompletedReturns
DagInv == WellFormed(dag) /\ Recomputed(dag) /\ StartsCounted /\ AttendedIsStarted

(***************************************************************************)
(* The entries of todo, and the first of a sequence of them.               *)
(***************************************************************************)
LEMMA TaskKind == \A s, to : TaskWrite(s, to).kind = "task"
  BY DEF TaskWrite
LEMMA RowKind == \A r, to : RowWrite(r, to).kind = "row"
  BY DEF RowWrite
LEMMA DagKind == \A op, s : DagWrite(op, s).kind = "dag"
  BY DEF DagWrite
LEMMA ReturnKind == \A r : Return(r).kind = "return"
  BY DEF Return
LEMMA ChooseKind == \A e : Choose(e).kind = "choose"
  BY DEF Choose
LEMMA OtherKind == RecoverRows.kind = "recover rows" /\ ResetTasks.kind = "reset tasks"
  BY DEF RecoverRows, ResetTasks

LEMMA TaskFields == \A s, to : TaskWrite(s, to).step = s /\ TaskWrite(s, to).to = to
  BY DEF TaskWrite
LEMMA RowFields == \A r, to : RowWrite(r, to).run = r /\ RowWrite(r, to).to = to
  BY DEF RowWrite
LEMMA DagFields == \A op, s : DagWrite(op, s).op = op /\ DagWrite(op, s).step = s
  BY DEF DagWrite

(* What kind of entry comes first. *)
FirstKind == Head(todo).kind

LEMMA OneLeft == \A a :
    todo = <<a>> => ~ Idle /\ Head(todo) = a /\ Tail(todo) = << >>
  BY DEF Idle
LEMMA TwoLeft == \A a, b :
    todo = <<a, b>> => ~ Idle /\ Head(todo) = a /\ Tail(todo) = <<b>>
  BY DEF Idle
LEMMA ThreeLeft == \A a, b, c :
    todo = <<a, b, c>> => ~ Idle /\ Head(todo) = a /\ Tail(todo) = <<b, c>>
  BY DEF Idle
LEMMA FourLeft == \A a, b, c, d :
    todo = <<a, b, c, d>> => ~ Idle /\ Head(todo) = a /\ Tail(todo) = <<b, c, d>>
  BY DEF Idle

LEMMA LaunchingKinds ==
    ASSUME NEW r \in Runs
    PROVE  /\ LaunchingRow(r) => ~ Idle /\ FirstKind = "row"
           /\ LaunchingTask(r) => ~ Idle /\ FirstKind = "task"
           /\ LaunchingStep(r) => ~ Idle /\ FirstKind = "dag"
<1>1. LaunchingRow(r) => ~ Idle /\ FirstKind = "row"
  BY ThreeLeft, RowKind DEF FirstKind, LaunchingRow, LaunchWrites
<1>2. LaunchingTask(r) => ~ Idle /\ FirstKind = "task"
  BY TwoLeft, TaskKind DEF FirstKind, LaunchingTask
<1>3. LaunchingStep(r) => ~ Idle /\ FirstKind = "dag"
  BY OneLeft, DagKind DEF FirstKind, LaunchingStep
<1>4. QED
  BY <1>1, <1>2, <1>3

LEMMA EndingKinds ==
    ASSUME NEW r \in Runs, NEW end \in Endings
    PROVE  /\ EndingTask(r, end) => ~ Idle /\ FirstKind = "task"
           /\ EndingRow(r, end) => ~ Idle /\ FirstKind = "row"
           /\ EndingStep(r, end) => ~ Idle /\ FirstKind = "dag"
<1>1. EndingTask(r, end) => ~ Idle /\ FirstKind = "task"
  BY FourLeft, TaskKind DEF FirstKind, EndingTask
<1>2. EndingRow(r, end) => ~ Idle /\ FirstKind = "row"
  BY ThreeLeft, RowKind DEF FirstKind, EndingRow
<1>3. EndingStep(r, end) => ~ Idle /\ FirstKind = "dag"
  BY TwoLeft, DagKind DEF FirstKind, EndingStep
<1>4. QED
  BY <1>1, <1>2, <1>3

LEMMA ReturningKind == \A r \in Runs : Returning(r) => FirstKind = "return"
  BY OneLeft, ReturnKind DEF FirstKind, Returning

LEMMA CancellingKinds ==
    ASSUME NEW r \in Runs
    PROVE  /\ CancellingTask(r) => ~ Idle /\ FirstKind = "task"
           /\ CancellingRow(r) => ~ Idle /\ FirstKind = "row"
           /\ CancellingStep(r) => ~ Idle /\ FirstKind = "dag"
<1>1. CancellingTask(r) => ~ Idle /\ FirstKind = "task"
  BY OneLeft, ThreeLeft, TaskKind DEF FirstKind, CancellingTask
<1>2. CancellingRow(r) => ~ Idle /\ FirstKind = "row"
  BY TwoLeft, RowKind DEF FirstKind, CancellingRow
<1>3. CancellingStep(r) => ~ Idle /\ FirstKind = "dag"
  BY OneLeft, DagKind DEF FirstKind, CancellingStep
<1>4. QED
  BY <1>1, <1>2, <1>3

LEMMA OtherKinds ==
    /\ Recovering => FirstKind = "recover rows"
    /\ StartingUp => FirstKind = "dag"
    /\ RetryResumes => FirstKind = "dag"
    /\ RetryResets => FirstKind = "reset tasks"
<1>1. Recovering => FirstKind = "recover rows"
  BY TwoLeft, OtherKind DEF FirstKind, Recovering
<1>2. StartingUp => FirstKind = "dag"
  BY OneLeft, DagKind DEF FirstKind, StartingUp
<1>3. RetryResumes => FirstKind = "dag"
  BY TwoLeft, DagKind DEF FirstKind, RetryResumes
<1>4. RetryResets => FirstKind = "reset tasks"
  BY OneLeft, OtherKind DEF FirstKind, RetryResets
<1>5. QED
  BY <1>1, <1>2, <1>3, <1>4

LEMMA WalkingKinds ==
    ASSUME NEW e \in Executors
    PROVE  /\ WalkRecovers(e) => FirstKind = "dag"
           /\ WalkResumes(e) => FirstKind = "dag"
           /\ WalkResets(e) => FirstKind = "reset tasks"
           /\ WalkChooses(e) => FirstKind = "choose"
<1>1. WalkRecovers(e) => FirstKind = "dag"
  BY FourLeft, DagKind DEF FirstKind, WalkRecovers
<1>2. WalkResumes(e) => FirstKind = "dag"
  BY ThreeLeft, DagKind DEF FirstKind, WalkResumes
<1>3. WalkResets(e) => FirstKind = "reset tasks"
  BY TwoLeft, OtherKind DEF FirstKind, WalkResets
<1>4. WalkChooses(e) => FirstKind = "choose"
  BY OneLeft, ChooseKind DEF FirstKind, WalkChooses
<1>5. QED
  BY <1>1, <1>2, <1>3, <1>4

(***************************************************************************)
(* What is left of a section when its first entry is of a given kind.      *)
(***************************************************************************)
LEMMA TaskFirst ==
    ASSUME Sections, ~ Idle, FirstKind = "task"
    PROVE  \E r \in Runs : /\ Attended(r)
                           /\ \/ LaunchingTask(r)
                              \/ \E end \in Endings : EndingTask(r, end)
                              \/ runs[r].cancellationRequested /\ CancellingTask(r)
  BY LaunchingKinds, EndingKinds, ReturningKind, CancellingKinds, OtherKinds, WalkingKinds
     DEF Sections, Launching, Ending, Cancelling, Walking

LEMMA RowFirst ==
    ASSUME Sections, ~ Idle, FirstKind = "row"
    PROVE  \E r \in Runs : /\ Attended(r)
                           /\ \/ LaunchingRow(r)
                              \/ \E end \in Endings : EndingRow(r, end)
                              \/ runs[r].cancellationRequested /\ CancellingRow(r)
  BY LaunchingKinds, EndingKinds, ReturningKind, CancellingKinds, OtherKinds, WalkingKinds
     DEF Sections, Launching, Ending, Cancelling, Walking

LEMMA DagFirst ==
    ASSUME Sections, ~ Idle, FirstKind = "dag"
    PROVE  \/ \E r \in Runs : /\ Attended(r)
                              /\ \/ LaunchingStep(r)
                                 \/ \E end \in Endings : EndingStep(r, end)
                                 \/ runs[r].cancellationRequested /\ CancellingStep(r)
           \/ StartingUp \/ RetryResumes
           \/ \E e \in Executors : WalkRecovers(e) \/ WalkResumes(e)
  BY LaunchingKinds, EndingKinds, ReturningKind, CancellingKinds, OtherKinds, WalkingKinds
     DEF Sections, Launching, Ending, Cancelling, Walking

LEMMA OtherFirst ==
    ASSUME Sections, ~ Idle
    PROVE  /\ FirstKind = "reset tasks" => RetryResets \/ \E e \in Executors : WalkResets(e)
           /\ FirstKind = "recover rows" => Recovering
           /\ FirstKind = "return" => \E r \in Runs : Attended(r) /\ Returning(r)
           /\ FirstKind = "choose" => \E e \in Executors : WalkChooses(e)
  BY LaunchingKinds, EndingKinds, ReturningKind, CancellingKinds, OtherKinds, WalkingKinds
     DEF Sections, Launching, Ending, Cancelling, Walking

LEMMA ResetFirst ==
    ASSUME Sections, ~ Idle, Head(todo) = ResetTasks
    PROVE  RetryResets \/ \E e \in Executors : WalkResets(e)
<1>1. FirstKind = "reset tasks"
  BY OtherKind, Zenon DEF FirstKind
<1>2. QED
  BY <1>1, OtherFirst, Zenon

LEMMA RecoverFirst ==
    ASSUME Sections, ~ Idle, Head(todo) = RecoverRows
    PROVE  Recovering
<1>1. FirstKind = "recover rows"
  BY OtherKind, Zenon DEF FirstKind
<1>2. QED
  BY <1>1, OtherFirst, Zenon

LEMMA ReturnFirst ==
    ASSUME Sections, ~ Idle, NEW q \in Runs, Head(todo) = Return(q)
    PROVE  Attended(q) /\ Returning(q)
<1>1. FirstKind = "return"
  BY ReturnKind, Zenon DEF FirstKind
<1>2. PICK r \in Runs : Attended(r) /\ Returning(r)
  BY <1>1, OtherFirst, Zenon
<1>3. Return(q) = Return(r)
  BY <1>2, OneLeft, Zenon DEF Returning
<1>4. q = r
  BY <1>3, SMT DEF Return
<1>5. QED
  BY <1>2, <1>4

LEMMA ChooseFirst ==
    ASSUME Sections, ~ Idle, NEW f \in Executors, Head(todo) = Choose(f)
    PROVE  WalkChooses(f)
<1>1. FirstKind = "choose"
  BY ChooseKind, Zenon DEF FirstKind
<1>2. PICK e \in Executors : WalkChooses(e)
  BY <1>1, OtherFirst, Zenon
<1>3. Choose(f) = Choose(e)
  BY <1>2, OneLeft, Zenon DEF WalkChooses
<1>4. QED
  BY <1>2, <1>3, Zenon DEF WalkChooses

(***************************************************************************)
(* The rows of runs after the assignments the actions make, field by field.*)
(***************************************************************************)
LEMMA RowSet ==
    ASSUME RowsTyped, NEW r \in Runs, NEW to \in RowStatuses,
           runs' = [runs EXCEPT ![r].row = to]
    PROVE  /\ runs' \in [Runs -> RunRows]
           /\ runs'[r].row = to
           /\ \A q \in Runs : q # r => runs'[q] = runs[q]
           /\ \A q \in Runs : /\ runs'[q].step = runs[q].step /\ runs'[q].by = runs[q].by
                               /\ runs'[q].phase = runs[q].phase
                               /\ runs'[q].cancellationRequested = runs[q].cancellationRequested
  BY DEF RowsTyped, RunRows

LEMMA PhaseSet ==
    ASSUME RowsTyped, NEW r \in Runs, NEW to \in Phases,
           runs' = [runs EXCEPT ![r].phase = to]
    PROVE  /\ runs' \in [Runs -> RunRows]
           /\ runs'[r].phase = to
           /\ \A q \in Runs : q # r => runs'[q] = runs[q]
           /\ \A q \in Runs : /\ runs'[q].step = runs[q].step /\ runs'[q].by = runs[q].by
                               /\ runs'[q].row = runs[q].row
                               /\ runs'[q].cancellationRequested = runs[q].cancellationRequested
  BY DEF RowsTyped, RunRows

LEMMA CancellationSet ==
    ASSUME RowsTyped, NEW r \in Runs,
           runs' = [runs EXCEPT ![r].cancellationRequested = TRUE]
    PROVE  /\ runs' \in [Runs -> RunRows]
           /\ runs'[r].cancellationRequested
           /\ \A q \in Runs : q # r => runs'[q] = runs[q]
           /\ \A q \in Runs : /\ runs'[q].step = runs[q].step
                               /\ runs'[q].row = runs[q].row
                               /\ runs'[q].phase = runs[q].phase
  BY DEF RowsTyped, RunRows

LEMMA Begins ==
    ASSUME RowsTyped, NEW r \in Runs, NEW s \in Steps, NEW caller \in Executors \cup {Api},
           BeginTaskRun(r, s, caller)
    PROVE  /\ runs' \in [Runs -> RunRows]
           /\ runs[r].phase = "free"
           /\ runs'[r].step = s /\ runs'[r].row = "none" /\ runs'[r].by = caller
           /\ ~ runs'[r].cancellationRequested
           /\ runs'[r].phase = IF s \in AwaitingSteps THEN "prelude" ELSE "live"
           /\ \A q \in Runs : q # r => runs'[q] = runs[q]
<1> DEFINE phase == IF s \in AwaitingSteps THEN "prelude" ELSE "live"
           new == [FreeRun EXCEPT !.step = s, !.by = caller, !.phase = phase]
<1>1. runs' = [runs EXCEPT ![r] = new] /\ runs[r].phase = "free"
  BY DEF BeginTaskRun, NextFreeRun
<1>2. phase \in Phases
  BY DEF Phases
<1> HIDE DEF phase
<1>3. /\ FreeRun \in RunRows
      /\ FreeRun.row = "none" /\ ~ FreeRun.cancellationRequested
  BY DEF FreeRun, RunRows, RowStatuses, Phases
<1>4. /\ new \in RunRows
      /\ new.step = s /\ new.row = "none" /\ new.phase = phase /\ new.by = caller
      /\ ~ new.cancellationRequested
  BY <1>2, <1>3 DEF RunRows
<1> HIDE DEF new
<1>5. QED
  BY <1>1, <1>4 DEF RowsTyped, phase

(***************************************************************************)
(* A run that reads completed is about to return, so there is none between *)
(* two sections or early in one.                                           *)
(***************************************************************************)
NoneCompleted == \A q \in Runs : Attended(q) => runs[q].row # "completed"

LEMMA CompletedIsNext ==
    ASSUME CompletedReturns, NEW q \in Runs, Attended(q), runs[q].row = "completed"
    PROVE  /\ ~ Idle
           /\ \/ Returning(q) /\ FirstKind = "return"
              \/ FirstKind = "dag" /\ Tail(todo) = <<Return(q)>>
<1>1. CASE Returning(q)
  BY <1>1, OneLeft, ReturningKind, Zenon DEF Returning
<1>2. CASE \E end \in Endings : EndingStep(q, end)
  <2>1. PICK end \in Endings : EndingStep(q, end)
    BY <1>2
  <2>2. ~ Idle /\ FirstKind = "dag"
    BY <2>1, EndingKinds
  <2>3. Tail(todo) = <<Return(q)>>
    BY <2>1, TwoLeft, Zenon DEF EndingStep
  <2>4. QED
    BY <2>2, <2>3
<1>3. QED
  BY <1>1, <1>2 DEF CompletedReturns

LEMMA IdleNoneCompleted ==
    ASSUME CompletedReturns, Idle \/ FirstKind \notin {"dag", "return"}
    PROVE  NoneCompleted
  BY CompletedIsNext DEF NoneCompleted

(***************************************************************************)
(* Each transaction preserves RowsInv.                                     *)
(***************************************************************************)
LEMMA EndingsTyped ==
    ASSUME NEW end \in Endings
    PROVE  /\ end[1] \in TaskStatuses \ {"running"}
           /\ end[2] \in RowStatuses \ {"running", "none"}
           /\ end[3] \in {"complete", "fail", "cancel"}
  BY DEF Endings, TaskStatuses, RowStatuses

LEMMA TaskWriteLeft ==
    ASSUME NEW r \in Runs
    PROVE  /\ LaunchingTask(r) => /\ Head(todo) = TaskWrite(StepOf(r), "running")
                                  /\ Tail(todo) = <<DagWrite("start", StepOf(r))>>
           /\ \A end \in Endings : EndingTask(r, end) =>
                 /\ Head(todo) = TaskWrite(StepOf(r), end[1])
                 /\ Tail(todo) = <<RowWrite(r, end[2]), DagWrite(end[3], StepOf(r)), Return(r)>>
           /\ CancellingTask(r) =>
                 /\ Head(todo) = TaskWrite(StepOf(r), "cancelled")
                 /\ \/ Tail(todo) = << >>
                    \/ Tail(todo) = <<RowWrite(r, "cancelled"), DagWrite("cancel", StepOf(r))>>
<1>1. LaunchingTask(r) => /\ Head(todo) = TaskWrite(StepOf(r), "running")
                          /\ Tail(todo) = <<DagWrite("start", StepOf(r))>>
  BY TwoLeft, Zenon DEF LaunchingTask
<1>2. ASSUME NEW end \in Endings, EndingTask(r, end)
      PROVE  /\ Head(todo) = TaskWrite(StepOf(r), end[1])
             /\ Tail(todo) = <<RowWrite(r, end[2]), DagWrite(end[3], StepOf(r)), Return(r)>>
  BY <1>2, FourLeft, Zenon DEF EndingTask
<1>3. ASSUME CancellingTask(r)
      PROVE  /\ Head(todo) = TaskWrite(StepOf(r), "cancelled")
             /\ \/ Tail(todo) = << >>
                \/ Tail(todo) = <<RowWrite(r, "cancelled"), DagWrite("cancel", StepOf(r))>>
  BY <1>3, OneLeft, ThreeLeft, Zenon DEF CancellingTask
<1>4. QED
  BY <1>1, <1>2, <1>3

LEMMA TaskWritten ==
    \A s, to : WriteTask /\ Head(todo) = TaskWrite(s, to) => task' = [task EXCEPT ![s] = to]
  BY TaskFields, Zenon DEF WriteTask

LEMMA WriteTaskRows == ASSUME RowsInv, WriteTask PROVE RowsInv'
<1>1. /\ ~ Idle /\ FirstKind = "task"
      /\ task' = [task EXCEPT ![Head(todo).step] = Head(todo).to]
      /\ todo' = Tail(todo)
      /\ runs' = runs /\ exec' = exec /\ crashes' = crashes
  BY Zenon DEF WriteTask, FirstKind
<1>2. PICK r \in Runs : /\ Attended(r)
                        /\ \/ LaunchingTask(r)
                           \/ \E end \in Endings : EndingTask(r, end)
                           \/ runs[r].cancellationRequested /\ CancellingTask(r)
  BY <1>1, TaskFirst DEF RowsInv
<1>3. \A q \in Runs : StepOf(q)' = StepOf(q) /\ (Attended(q) <=> Attended(q)')
  BY <1>1 DEF StepOf, Attended
<1>4. StepOf(r) \in Steps
  BY <1>2 DEF RowsInv, Begun, Attended
<1>5. NoneCompleted
  BY <1>1, IdleNoneCompleted DEF RowsInv
<1>6. Begun' /\ CancelledIsLive' /\ CompletedReturns' /\ RunningIsAttended'
  BY <1>1, <1>3, <1>5, OtherKinds
     DEF RowsInv, Begun, CancelledIsLive, CompletedReturns, NoneCompleted, RunningIsAttended,
         StepOf, Attended
<1>7. CASE LaunchingTask(r)
  <2>1. /\ task' = [task EXCEPT ![StepOf(r)] = "running"]
        /\ todo' = <<DagWrite("start", StepOf(r))>>
        /\ runs[r].row = "running"
    BY <1>1, <1>7, TaskWriteLeft, TaskWritten, Zenon DEF LaunchingTask
  <2>2. RowsTyped' /\ RunningTaskHasRow'
    BY <1>1, <1>3, <1>4, <2>1 DEF RowsInv, RowsTyped, RunningTaskHasRow, TaskStatuses, StepOf
  <2>3. Sections'
    BY <1>2, <1>3, <2>1 DEF Sections, Launching, LaunchingStep
  <2>4. QED
    BY <1>6, <2>2, <2>3 DEF RowsInv
<1>8. CASE \E end \in Endings : EndingTask(r, end)
  <2>1. PICK end \in Endings : EndingTask(r, end)
    BY <1>8
  <2>2. /\ task' = [task EXCEPT ![StepOf(r)] = end[1]]
        /\ todo' = <<RowWrite(r, end[2]), DagWrite(end[3], StepOf(r)), Return(r)>>
    BY <1>1, <2>1, TaskWriteLeft, TaskWritten, Zenon
  <2>3. RowsTyped' /\ RunningTaskHasRow' /\ task'[StepOf(r)] # "running"
    BY <1>1, <1>3, <1>4, <2>2, EndingsTyped
       DEF RowsInv, RowsTyped, RunningTaskHasRow, TaskStatuses, StepOf
  <2>4. EndingRow(r, end)'
    BY <1>1, <1>3, <2>1, <2>2, <2>3 DEF EndingRow, EndingTask
  <2>5. Sections'
    BY <1>2, <1>3, <2>4 DEF Sections, Ending
  <2>6. QED
    BY <1>6, <2>3, <2>5 DEF RowsInv
<1>9. CASE runs[r].cancellationRequested /\ CancellingTask(r)
  <2>1. /\ task' = [task EXCEPT ![StepOf(r)] = "cancelled"]
        /\ \/ todo' = << >>
           \/ todo' = <<RowWrite(r, "cancelled"), DagWrite("cancel", StepOf(r))>>
    BY <1>1, <1>9, TaskWriteLeft, TaskWritten, Zenon
  <2>2. RowsTyped' /\ RunningTaskHasRow' /\ task'[StepOf(r)] # "running"
    BY <1>1, <1>3, <1>4, <2>1 DEF RowsInv, RowsTyped, RunningTaskHasRow, TaskStatuses, StepOf
  <2>3. Idle' \/ CancellingRow(r)'
    BY <1>3, <2>1, <2>2 DEF Idle, CancellingRow
  <2>4. Sections'
    BY <1>1, <1>2, <1>3, <1>9, <2>3 DEF Sections, Cancelling
  <2>5. QED
    BY <1>6, <2>2, <2>4 DEF RowsInv
<1>10. QED
  BY <1>2, <1>7, <1>8, <1>9

LEMMA RowWriteLeft ==
    ASSUME NEW r \in Runs
    PROVE  /\ LaunchingRow(r) =>
                 /\ Head(todo) = RowWrite(r, "running")
                 /\ Tail(todo) = <<TaskWrite(StepOf(r), "running"), DagWrite("start", StepOf(r))>>
           /\ \A end \in Endings : EndingRow(r, end) =>
                 /\ Head(todo) = RowWrite(r, end[2])
                 /\ Tail(todo) = <<DagWrite(end[3], StepOf(r)), Return(r)>>
           /\ CancellingRow(r) => /\ Head(todo) = RowWrite(r, "cancelled")
                                  /\ Tail(todo) = <<DagWrite("cancel", StepOf(r))>>
<1>1. ASSUME LaunchingRow(r)
      PROVE  /\ Head(todo) = RowWrite(r, "running")
             /\ Tail(todo) = <<TaskWrite(StepOf(r), "running"), DagWrite("start", StepOf(r))>>
  BY <1>1, ThreeLeft, Zenon DEF LaunchingRow, LaunchWrites
<1>2. ASSUME NEW end \in Endings, EndingRow(r, end)
      PROVE  /\ Head(todo) = RowWrite(r, end[2])
             /\ Tail(todo) = <<DagWrite(end[3], StepOf(r)), Return(r)>>
  BY <1>2, ThreeLeft, Zenon DEF EndingRow
<1>3. ASSUME CancellingRow(r)
      PROVE  /\ Head(todo) = RowWrite(r, "cancelled")
             /\ Tail(todo) = <<DagWrite("cancel", StepOf(r))>>
  BY <1>3, TwoLeft, Zenon DEF CancellingRow
<1>4. QED
  BY <1>1, <1>2, <1>3

LEMMA RowWritten ==
    \A r, to : WriteRow /\ Head(todo) = RowWrite(r, to)
                  => runs' = [runs EXCEPT ![r].row = to]
<1> TAKE r, to
<1> HAVE WriteRow /\ Head(todo) = RowWrite(r, to)
<1> DEFINE run == Head(todo).run
           row == Head(todo).to
<1>1. run = r /\ row = to
  BY RowFields, Zenon
<1>2. runs' = [runs EXCEPT ![run].row = row]
  BY Zenon DEF WriteRow
<1> HIDE DEF run, row
<1>3. QED
  BY <1>1, <1>2

LEMMA WriteRowRows == ASSUME RowsInv, WriteRow PROVE RowsInv'
<1>1. /\ ~ Idle /\ FirstKind = "row"
      /\ todo' = Tail(todo)
      /\ task' = task /\ exec' = exec /\ crashes' = crashes
  BY Zenon DEF WriteRow, FirstKind
<1>2. PICK r \in Runs : /\ Attended(r)
                        /\ \/ LaunchingRow(r)
                           \/ \E end \in Endings : EndingRow(r, end)
                           \/ runs[r].cancellationRequested /\ CancellingRow(r)
  BY <1>1, RowFirst DEF RowsInv
<1>3. StepOf(r) \in Steps
  BY <1>2 DEF RowsInv, Begun, Attended
<1>4. NoneCompleted
  BY <1>1, IdleNoneCompleted DEF RowsInv
<1>5. ASSUME NEW to \in RowStatuses \ {"none"},
             runs' = [runs EXCEPT ![r].row = to],
             to # "running" => task[StepOf(r)] # "running",
             to = "completed" => /\ ~ runs[r].cancellationRequested
                                 /\ \E end \in Endings : EndingStep(r, end)',
             Sections'
      PROVE  RowsInv'
  <2>1. /\ runs' \in [Runs -> RunRows]
        /\ runs'[r].row = to
        /\ \A q \in Runs : q # r => runs'[q] = runs[q]
        /\ \A q \in Runs : /\ runs'[q].step = runs[q].step
                            /\ runs'[q].phase = runs[q].phase
                            /\ runs'[q].cancellationRequested = runs[q].cancellationRequested
    BY <1>5, RowSet DEF RowsInv
  <2>2. \A q \in Runs : StepOf(q)' = StepOf(q) /\ (Attended(q) <=> Attended(q)')
    BY <2>1 DEF StepOf, Attended
  <2>3. RowsTyped'
    BY <1>1, <2>1 DEF RowsInv, RowsTyped
  <2>4. Begun' /\ RunningIsAttended' /\ CancelledIsLive'
    BY <1>1, <1>2, <1>5, <2>1, <2>2, OtherKinds
       DEF RowsInv, Begun, RunningIsAttended, CancelledIsLive, Attended, StepOf
  <2>5. RunningTaskHasRow'
    BY <1>1, <1>5, <2>1, <2>2 DEF RowsInv, RunningTaskHasRow, StepOf
  <2>6. CompletedReturns'
    BY <1>4, <1>5, <2>1, <2>2 DEF CompletedReturns, NoneCompleted
  <2>7. QED
    BY <1>5, <2>3, <2>4, <2>5, <2>6 DEF RowsInv
<1>6. CASE LaunchingRow(r)
  <2>1. /\ runs' = [runs EXCEPT ![r].row = "running"]
        /\ todo' = <<TaskWrite(StepOf(r), "running"), DagWrite("start", StepOf(r))>>
    BY <1>1, <1>6, RowWriteLeft, RowWritten, Zenon
  <2>2. "running" \in RowStatuses \ {"none"}
    BY DEF RowStatuses
  <2>3. runs'[r].row = "running" /\ StepOf(r)' = StepOf(r) /\ Attended(r)'
    BY <1>2, <2>1, <2>2, RowSet DEF RowsInv, StepOf, Attended
  <2>4. Sections'
    BY <2>1, <2>3 DEF Sections, Launching, LaunchingTask
  <2>5. QED
    BY <1>5, <2>1, <2>2, <2>4
<1>7. CASE \E end \in Endings : EndingRow(r, end)
  <2>1. PICK end \in Endings : EndingRow(r, end)
    BY <1>7
  <2>2. /\ runs' = [runs EXCEPT ![r].row = end[2]]
        /\ todo' = <<DagWrite(end[3], StepOf(r)), Return(r)>>
    BY <1>1, <2>1, RowWriteLeft, RowWritten, Zenon
  <2>3. end[2] \in RowStatuses \ {"none"} /\ end[2] # "running"
    BY EndingsTyped
  <2>4. runs'[r].row = end[2] /\ StepOf(r)' = StepOf(r) /\ Attended(r)'
    BY <1>2, <2>2, <2>3, RowSet DEF RowsInv, StepOf, Attended
  <2>5. EndingStep(r, end)'
    BY <2>2, <2>3, <2>4 DEF EndingStep
  <2>6. Sections'
    BY <2>4, <2>5 DEF Sections, Ending
  <2>7. /\ task[StepOf(r)] # "running"
        /\ end[2] = "completed" => ~ runs[r].cancellationRequested
    BY <2>1 DEF EndingRow
  <2>8. QED
    BY <1>5, <2>2, <2>3, <2>5, <2>6, <2>7
<1>8. CASE runs[r].cancellationRequested /\ CancellingRow(r)
  <2>1. /\ runs' = [runs EXCEPT ![r].row = "cancelled"]
        /\ todo' = <<DagWrite("cancel", StepOf(r))>>
    BY <1>1, <1>8, RowWriteLeft, RowWritten, Zenon
  <2>2. "cancelled" \in RowStatuses \ {"none"}
    BY DEF RowStatuses
  <2>3. runs'[r].cancellationRequested /\ StepOf(r)' = StepOf(r) /\ Attended(r)'
    BY <1>2, <1>8, <2>1, <2>2, RowSet DEF RowsInv, StepOf, Attended
  <2>4. Sections'
    BY <2>1, <2>3 DEF Sections, Cancelling, CancellingStep
  <2>5. task[StepOf(r)] # "running"
    BY <1>8 DEF CancellingRow
  <2>6. QED
    BY <1>5, <2>1, <2>2, <2>4, <2>5
<1>9. QED
  BY <1>2, <1>6, <1>7, <1>8

(* A step that leaves the rows of tasks and runs alone. *)
LEMMA RowsKept ==
    ASSUME RowsInv, runs' = runs, task' = task, crashes' = crashes,
           exec' \in [Executors -> ExecPhases],
           ~ Recovering, Sections', CompletedReturns'
    PROVE  RowsInv'
<1>1. \A q \in Runs : StepOf(q)' = StepOf(q) /\ (Attended(q) <=> Attended(q)')
  BY DEF StepOf, Attended
<1>2. RowsTyped' /\ Begun'
  BY <1>1 DEF RowsInv, RowsTyped, Begun
<1>3. RunningIsAttended' /\ RunningTaskHasRow' /\ CancelledIsLive'
  BY <1>1 DEF RowsInv, RunningIsAttended, RunningTaskHasRow, CancelledIsLive
<1>4. QED
  BY <1>2, <1>3 DEF RowsInv

LEMMA DagWriteLeft ==
    /\ \A r \in Runs :
          /\ LaunchingStep(r) => Tail(todo) = << >>
          /\ \A end \in Endings : EndingStep(r, end) => Tail(todo) = <<Return(r)>>
          /\ CancellingStep(r) => Tail(todo) = << >>
    /\ StartingUp => Tail(todo) = << >>
    /\ RetryResumes => Tail(todo) = <<ResetTasks>>
    /\ \A e \in Executors :
          /\ WalkRecovers(e) =>
                Tail(todo) = <<DagWrite("resume", NoStep), ResetTasks, Choose(e)>>
          /\ WalkResumes(e) => Tail(todo) = <<ResetTasks, Choose(e)>>
<1>1. ASSUME NEW r \in Runs
      PROVE  /\ LaunchingStep(r) => Tail(todo) = << >>
             /\ \A end \in Endings : EndingStep(r, end) => Tail(todo) = <<Return(r)>>
             /\ CancellingStep(r) => Tail(todo) = << >>
  BY OneLeft, TwoLeft, Zenon DEF LaunchingStep, EndingStep, CancellingStep
<1>2. StartingUp => Tail(todo) = << >>
  BY OneLeft, Zenon DEF StartingUp
<1>3. RetryResumes => Tail(todo) = <<ResetTasks>>
  BY TwoLeft, Zenon DEF RetryResumes
<1>4. ASSUME NEW e \in Executors
      PROVE  /\ WalkRecovers(e) =>
                   Tail(todo) = <<DagWrite("resume", NoStep), ResetTasks, Choose(e)>>
             /\ WalkResumes(e) => Tail(todo) = <<ResetTasks, Choose(e)>>
  BY ThreeLeft, FourLeft, Zenon DEF WalkRecovers, WalkResumes
<1>5. QED
  BY <1>1, <1>2, <1>3, <1>4

LEMMA WriteDagRows == ASSUME RowsInv, WriteDag PROVE RowsInv'
<1>1. /\ ~ Idle /\ FirstKind = "dag"
      /\ todo' = Tail(todo)
      /\ task' = task /\ runs' = runs /\ exec' = exec /\ crashes' = crashes
  BY Zenon DEF WriteDag, FirstKind
<1>2. \A q \in Runs : StepOf(q)' = StepOf(q) /\ (Attended(q) <=> Attended(q)')
  BY <1>1 DEF StepOf, Attended
<1>3. ASSUME NEW q \in Runs, Attended(q), runs[q].row = "completed"
      PROVE  Returning(q)'
  <2>1. Tail(todo) = <<Return(q)>>
    BY <1>1, <1>3, CompletedIsNext DEF RowsInv
  <2>2. QED
    BY <1>1, <1>3, <2>1 DEF Returning
<1>4. CompletedReturns'
  BY <1>1, <1>2, <1>3 DEF CompletedReturns
<1>5. ~ Recovering
  BY <1>1, OtherKinds
<1>6. Sections'
  <2>1. ASSUME NEW r \in Runs, Attended(r),
               \/ LaunchingStep(r)
               \/ \E end \in Endings : EndingStep(r, end)
               \/ CancellingStep(r)
        PROVE  Idle' \/ Ending(r)'
    BY <1>1, <1>2, <2>1, DagWriteLeft DEF Idle, Ending, Returning, EndingStep
  <2>2. ASSUME StartingUp \/ RetryResumes PROVE Idle' \/ RetryResets'
    BY <1>1, <2>2, DagWriteLeft DEF Idle, RetryResets
  <2>3. ASSUME NEW e \in Executors, WalkRecovers(e) \/ WalkResumes(e) PROVE Walking(e)'
    BY <1>1, <2>3, DagWriteLeft DEF Walking, WalkResumes, WalkResets
  <2>4. QED
    BY <1>1, <2>1, <2>2, <2>3, DagFirst DEF RowsInv, Sections
<1>7. QED
  BY <1>1, <1>4, <1>5, <1>6, RowsKept DEF RowsInv, RowsTyped

LEMMA ResetsTaskRows == ASSUME RowsInv, ResetsTask PROVE RowsInv'
<1>1. /\ ~ Idle /\ Head(todo) = ResetTasks
      /\ runs' = runs /\ exec' = exec /\ crashes' = crashes
      /\ \/ /\ \E s \in Steps : task' = [task EXCEPT ![s] = "ready"]
            /\ todo' = todo
         \/ task' = task /\ todo' = Tail(todo)
  BY Zenon DEF ResetsTask
<1>2. FirstKind = "reset tasks"
  BY <1>1, OtherKind, Zenon DEF FirstKind
<1>3. RetryResets \/ \E e \in Executors : WalkResets(e)
  BY <1>1, ResetFirst DEF RowsInv
<1>4. \A q \in Runs : StepOf(q)' = StepOf(q) /\ (Attended(q) <=> Attended(q)')
  BY <1>1 DEF StepOf, Attended
<1>5. NoneCompleted
  BY <1>1, <1>2, IdleNoneCompleted DEF RowsInv
<1>6. /\ Begun' /\ CancelledIsLive' /\ CompletedReturns'
      /\ RunningIsAttended'
  BY <1>1, <1>2, <1>4, <1>5, OtherKinds
     DEF RowsInv, Begun, CancelledIsLive, CompletedReturns, NoneCompleted, RunningIsAttended
<1>7. task' \in [Steps -> TaskStatuses] /\ \A s \in Steps : task'[s] \in {task[s], "ready"}
  BY <1>1 DEF RowsInv, RowsTyped, TaskStatuses
<1>8. RowsTyped' /\ RunningTaskHasRow'
  BY <1>1, <1>4, <1>7 DEF RowsInv, RowsTyped, RunningTaskHasRow
<1>9. CASE todo' = todo
  BY <1>3, <1>9, <1>6, <1>8 DEF RowsInv, Sections, RetryResets, WalkResets, Walking
<1>10. CASE todo' = Tail(todo)
  <2>1. RetryResets => Tail(todo) = << >>
    BY OneLeft, Zenon DEF RetryResets
  <2>2. ASSUME NEW e \in Executors, WalkResets(e) PROVE Tail(todo) = <<Choose(e)>>
    BY <2>2, TwoLeft, Zenon DEF WalkResets
  <2>3. Sections'
    BY <1>3, <1>10, <2>1, <2>2 DEF Sections, Idle, Walking, WalkChooses
  <2>4. QED
    BY <1>6, <1>8, <2>3 DEF RowsInv
<1>11. QED
  BY <1>1, <1>9, <1>10

LEMMA RecoverRunRowsRows == ASSUME RowsInv, RecoverRunRows PROVE RowsInv'
<1> DEFINE stale == {r \in Runs : runs[r].row = "running"}
<1>1. /\ ~ Idle /\ Head(todo) = RecoverRows
      /\ runs' = [r \in Runs |->
                     IF r \in stale THEN [runs[r] EXCEPT !.row = "failed"] ELSE runs[r]]
      /\ task' = [s \in Steps |->
                     IF task[s] = "running" /\ \E r \in stale : runs[r].step = s
                     THEN "failed" ELSE task[s]]
      /\ todo' = Tail(todo)
      /\ exec' = exec /\ crashes' = crashes
  BY Zenon DEF RecoverRunRows
<1>2. Recovering
  BY <1>1, RecoverFirst DEF RowsInv
<1>3. todo' = <<DagWrite("startup", NoStep)>>
  BY <1>1, <1>2, TwoLeft, Zenon DEF Recovering
<1>4. NoneCompleted
  BY <1>2, OtherKinds, IdleNoneCompleted DEF RowsInv
<1>5. ASSUME NEW q \in Runs
      PROVE  /\ runs'[q] \in RunRows
             /\ runs'[q].row = IF runs[q].row = "running" THEN "failed" ELSE runs[q].row
             /\ runs'[q].step = runs[q].step /\ runs'[q].phase = runs[q].phase
             /\ runs'[q].cancellationRequested = runs[q].cancellationRequested
  BY <1>1 DEF RowsInv, RowsTyped, RunRows, RowStatuses
<1>6. \A q \in Runs : StepOf(q)' = StepOf(q) /\ (Attended(q) <=> Attended(q)')
  BY <1>5 DEF StepOf, Attended
<1>7. runs' \in [Runs -> RunRows]
  BY <1>1, <1>5
<1>8. \A s \in Steps : task'[s] # "running"
  BY <1>1 DEF RowsInv, RunningTaskHasRow, StepOf
<1>9. task' \in [Steps -> TaskStatuses]
  BY <1>1 DEF RowsInv, RowsTyped, TaskStatuses
<1>10. RowsTyped' /\ Begun'
  BY <1>1, <1>5, <1>6, <1>7, <1>9 DEF RowsInv, RowsTyped, Begun, StepOf
<1>11. RunningIsAttended' /\ RunningTaskHasRow' /\ CancelledIsLive'
  BY <1>5, <1>6, <1>8 DEF RowsInv, RunningIsAttended, RunningTaskHasRow, CancelledIsLive
<1>12. CompletedReturns'
  BY <1>4, <1>5, <1>6 DEF NoneCompleted, CompletedReturns
<1>13. Sections'
  BY <1>3 DEF Sections, StartingUp
<1>14. QED
  BY <1>10, <1>11, <1>12, <1>13 DEF RowsInv

LEMMA RunReturnsRows == ASSUME RowsInv, RunReturns PROVE RowsInv'
<1>1. PICK r \in Runs :
         /\ Head(todo) = Return(r)
         /\ runs' = [runs EXCEPT ![r].phase = "gone"]
         /\ \/ todo' = << >> /\ exec' = exec
            \/ \E e \in Executors : ExecutorContinues(e, r)
  BY Zenon DEF RunReturns
<1>2. ~ Idle /\ task' = task /\ crashes' = crashes
  BY Zenon DEF RunReturns
<1>3. Attended(r) /\ Returning(r)
  BY <1>1, <1>2, ReturnFirst DEF RowsInv
<1>4. FirstKind = "return"
  BY <1>3, ReturningKind
<1>5. "gone" \in Phases
  BY DEF Phases
<1>6. /\ runs' \in [Runs -> RunRows]
      /\ runs'[r].phase = "gone"
      /\ \A q \in Runs : q # r => runs'[q] = runs[q]
      /\ \A q \in Runs : /\ runs'[q].step = runs[q].step
                          /\ runs'[q].row = runs[q].row
                          /\ runs'[q].cancellationRequested = runs[q].cancellationRequested
  BY <1>1, <1>5, PhaseSet DEF RowsInv
<1>7. ASSUME NEW q \in Runs, Attended(q)' PROVE Attended(q) /\ q # r
  BY <1>6, <1>7 DEF Attended
<1>8. exec' \in [Executors -> ExecPhases]
  BY <1>1 DEF ExecutorContinues, RowsInv, RowsTyped, ExecPhases
<1>9. RowsTyped'
  BY <1>2, <1>6, <1>8 DEF RowsInv, RowsTyped
<1>10. Begun' /\ CancelledIsLive'
  BY <1>3, <1>6 DEF RowsInv, Begun, CancelledIsLive, Attended, StepOf
<1>11. RunningIsAttended'
  <2>1. ASSUME NEW q \in Runs, runs'[q].row = "running" PROVE Attended(q)'
    <3>1. q # r
      BY <1>3, <1>6, <2>1 DEF Returning
    <3>2. ~ Recovering
      BY <1>4, OtherKinds
    <3>3. QED
      BY <1>6, <2>1, <3>1, <3>2 DEF RowsInv, RunningIsAttended, Attended
  <2>2. QED
    BY <2>1 DEF RunningIsAttended
<1>12. RunningTaskHasRow'
  BY <1>2, <1>6 DEF RowsInv, RunningTaskHasRow, StepOf
<1>13. CompletedReturns'
  <2>1. ASSUME NEW q \in Runs, Attended(q)', runs'[q].row = "completed" PROVE FALSE
    <3>1. Attended(q) /\ q # r /\ runs[q].row = "completed"
      BY <1>6, <1>7, <2>1
    <3>2. Returning(q)
      BY <1>4, <3>1, CompletedIsNext DEF RowsInv
    <3>3. Return(q) = Return(r)
      BY <1>1, <3>2, OneLeft, Zenon DEF Returning
    <3>4. QED
      BY <3>1, <3>3, SMT DEF Return
  <2>2. QED
    BY <2>1 DEF CompletedReturns
<1>14. Sections'
  <2>1. CASE todo' = << >>
    BY <2>1 DEF Sections, Idle
  <2>2. CASE \E e \in Executors : todo' = <<Choose(e)>>
    BY <2>2 DEF Sections, Walking, WalkChooses
  <2>3. CASE todo' = <<DagWrite("resume", NoStep), ResetTasks>>
    BY <2>3 DEF Sections, RetryResumes
  <2>4. QED
    BY <1>1, <2>1, <2>2, <2>3, Zenon DEF ExecutorContinues
<1>15. QED
  BY <1>9, <1>10, <1>11, <1>12, <1>13, <1>14 DEF RowsInv

(* A task run begins: from the API or from an executor. *)
LEMMA BeginRows ==
    ASSUME RowsInv, NEW r \in Runs, NEW s \in Steps, NEW caller \in Executors \cup {Api},
           BeginTaskRun(r, s, caller), NoneCompleted, ~ Recovering,
           todo' = IF s \in AwaitingSteps THEN << >> ELSE LaunchWrites(r, s),
           task' = task, exec' = exec, crashes' = crashes
    PROVE  RowsInv'
<1>1. /\ runs' \in [Runs -> RunRows]
      /\ runs[r].phase = "free"
      /\ runs'[r].step = s /\ runs'[r].row = "none"
      /\ ~ runs'[r].cancellationRequested
      /\ runs'[r].phase = IF s \in AwaitingSteps THEN "prelude" ELSE "live"
      /\ \A q \in Runs : q # r => runs'[q] = runs[q]
  BY Begins DEF RowsInv
<1>2. runs[r].row = "none"
  BY <1>1 DEF RowsInv, Begun
<1>3. RowsTyped' /\ Begun' /\ CancelledIsLive'
  BY <1>1 DEF RowsInv, RowsTyped, Begun, CancelledIsLive, StepOf
<1>4. RunningIsAttended'
  BY <1>1 DEF RowsInv, RunningIsAttended, Attended
<1>5. RunningTaskHasRow'
  <2>1. ASSUME NEW t \in Steps, task[t] = "running"
        PROVE  \E q \in Runs : runs'[q].step = t /\ runs'[q].row = "running"
    <3>1. PICK q \in Runs : runs[q].step = t /\ runs[q].row = "running"
      BY <2>1 DEF RowsInv, RunningTaskHasRow, StepOf
    <3>2. q # r
      BY <1>2, <3>1
    <3>3. QED
      BY <1>1, <3>1, <3>2
  <2>2. QED
    BY <2>1 DEF RunningTaskHasRow, StepOf
<1>6. CompletedReturns'
  BY <1>1 DEF CompletedReturns, NoneCompleted, Attended
<1>7. Sections'
  <2>1. CASE s \in AwaitingSteps
    BY <2>1 DEF Sections, Idle
  <2>2. CASE s \notin AwaitingSteps
    <3>1. Attended(r)' /\ StepOf(r)' = s
      BY <1>1, <2>2 DEF Attended, StepOf
    <3>2. todo' = LaunchWrites(r, s)
      BY <2>2
    <3>3. LaunchingRow(r)'
      BY <3>1, <3>2, Zenon DEF LaunchingRow
    <3>4. QED
      BY <3>1, <3>3 DEF Sections, Launching
  <2>3. QED
    BY <2>1, <2>2
<1>8. QED
  BY <1>3, <1>4, <1>5, <1>6, <1>7 DEF RowsInv

LEMMA ChoosesRows ==
    ASSUME RowsInv, NEW e \in Executors, ExecutorChooses(e)
    PROVE  RowsInv'
<1>1. /\ ~ Idle /\ Head(todo) = Choose(e) /\ crashes' = crashes
      /\ \/ StopWalking(e)
         \/ /\ \E s \in Steps, r \in Runs :
                   /\ BeginTaskRun(r, s, e)
                   /\ todo' = IF s \in AwaitingSteps THEN << >> ELSE LaunchWrites(r, s)
            /\ task' = task /\ exec' = exec
  BY Zenon DEF ExecutorChooses
<1>2. FirstKind = "choose"
  BY <1>1, ChooseKind, Zenon DEF FirstKind
<1>3. NoneCompleted /\ ~ Recovering
  BY <1>2, OtherKinds, IdleNoneCompleted DEF RowsInv
<1>4. CASE StopWalking(e)
  <2>1. /\ todo' = << >> /\ task' = task /\ runs' = runs
        /\ exec' \in [Executors -> ExecPhases]
    BY <1>4 DEF StopWalking, RowsInv, RowsTyped, ExecPhases
  <2>2. CompletedReturns'
    BY <1>3, <2>1 DEF CompletedReturns, NoneCompleted, Attended
  <2>3. Sections'
    BY <2>1 DEF Sections, Idle
  <2>4. QED
    BY <1>1, <1>3, <2>1, <2>2, <2>3, RowsKept
<1>5. CASE ~ StopWalking(e)
  BY <1>1, <1>3, <1>5, BeginRows
<1>6. QED
  BY <1>4, <1>5

(***************************************************************************)
(* Steps of a run's call: a section begins, or nothing but its phase       *)
(* changes.                                                                *)
(***************************************************************************)
LEMMA NotRecovering == ASSUME Idle PROVE ~ Recovering
  BY TwoLeft, Zenon DEF Recovering

LEMMA EndsRows ==
    ASSUME RowsInv, Idle, NEW r \in Runs, Attended(r), NEW end \in Endings,
           Ends(<<TaskWrite(StepOf(r), end[1]), RowWrite(r, end[2]), DagWrite(end[3], StepOf(r)),
                  Return(r)>>),
           end[2] = "completed" => ~ runs[r].cancellationRequested
    PROVE  RowsInv'
<1>1. /\ todo' = <<TaskWrite(StepOf(r), end[1]), RowWrite(r, end[2]),
                   DagWrite(end[3], StepOf(r)), Return(r)>>
      /\ task' = task /\ runs' = runs /\ exec' = exec /\ crashes' = crashes
  BY Zenon DEF Ends
<1>2. \A q \in Runs : StepOf(q)' = StepOf(q) /\ (Attended(q) <=> Attended(q)')
  BY <1>1 DEF StepOf, Attended
<1>3. NoneCompleted /\ ~ Recovering
  BY NotRecovering, IdleNoneCompleted DEF RowsInv
<1>4. EndingTask(r, end)'
  BY <1>1, <1>2 DEF EndingTask
<1>5. Sections'
  BY <1>2, <1>4 DEF Sections, Ending
<1>6. CompletedReturns'
  BY <1>1, <1>2, <1>3 DEF CompletedReturns, NoneCompleted
<1>7. QED
  BY <1>1, <1>3, <1>5, <1>6, RowsKept DEF RowsInv, RowsTyped

LEMMA CompleteRows ==
    ASSUME RowsInv, Idle, NEW r \in Runs, Attended(r), ~ runs[r].cancellationRequested,
           Ends(CompleteTaskRun(r, runs[r].step))
    PROVE  RowsInv'
<1> DEFINE end == <<"completed", "completed", "complete">>
<1>1. end \in Endings /\ end[1] = "completed" /\ end[2] = "completed" /\ end[3] = "complete"
  BY DEF Endings
<1> HIDE DEF end
<1>2. Ends(<<TaskWrite(StepOf(r), end[1]), RowWrite(r, end[2]), DagWrite(end[3], StepOf(r)),
             Return(r)>>)
  BY <1>1, Zenon DEF CompleteTaskRun, StepOf
<1>3. QED
  BY <1>1, <1>2, EndsRows

LEMMA FailRows ==
    ASSUME RowsInv, Idle, NEW r \in Runs, Attended(r), Ends(FailTaskRun(r, runs[r].step))
    PROVE  RowsInv'
<1> DEFINE end == <<"failed", "failed", "fail">>
<1>1. end \in Endings /\ end[1] = "failed" /\ end[2] = "failed" /\ end[3] = "fail"
  BY DEF Endings
<1> HIDE DEF end
<1>2. Ends(<<TaskWrite(StepOf(r), end[1]), RowWrite(r, end[2]), DagWrite(end[3], StepOf(r)),
             Return(r)>>)
  BY <1>1, Zenon DEF FailTaskRun, StepOf
<1>3. QED
  BY <1>1, <1>2, EndsRows

LEMMA StopRows ==
    ASSUME RowsInv, Idle, NEW r \in Runs, Attended(r), Ends(StopTaskRunByLimit(r, runs[r].step))
    PROVE  RowsInv'
<1> DEFINE end == <<"failed", "stopped-by-limit", "fail">>
<1>1. end \in Endings /\ end[1] = "failed" /\ end[2] = "stopped-by-limit" /\ end[3] = "fail"
  BY DEF Endings
<1> HIDE DEF end
<1>2. Ends(<<TaskWrite(StepOf(r), end[1]), RowWrite(r, end[2]), DagWrite(end[3], StepOf(r)),
             Return(r)>>)
  BY <1>1, Zenon DEF StopTaskRunByLimit, StepOf
<1>3. QED
  BY <1>1, <1>2, EndsRows

LEMMA CancelRows ==
    ASSUME RowsInv, Idle, NEW r \in Runs, Attended(r), Ends(CancelTaskRun(r, runs[r].step))
    PROVE  RowsInv'
<1> DEFINE end == <<"cancelled", "cancelled", "cancel">>
<1>1. end \in Endings /\ end[1] = "cancelled" /\ end[2] = "cancelled" /\ end[3] = "cancel"
  BY DEF Endings
<1> HIDE DEF end
<1>2. Ends(<<TaskWrite(StepOf(r), end[1]), RowWrite(r, end[2]), DagWrite(end[3], StepOf(r)),
             Return(r)>>)
  BY <1>1, Zenon DEF CancelTaskRun, StepOf
<1>3. QED
  BY <1>1, <1>2, EndsRows

LEMMA SucceedsRows ==
    ASSUME RowsInv, Idle, NEW r \in Runs, Attended(r), ~ runs[r].cancellationRequested,
           Succeeds(r)
    PROVE  RowsInv'
<1>1. CASE AwaitsMemory(r)
  <2>1. /\ runs[r].phase = "live"
        /\ runs' = [runs EXCEPT ![r].phase = "memory"]
        /\ task' = task /\ exec' = exec /\ todo' = todo /\ crashes' = crashes
    BY <1>1, Zenon DEF AwaitsMemory
  <2>2. "memory" \in Phases
    BY DEF Phases
  <2>3. /\ runs' \in [Runs -> RunRows]
        /\ runs'[r].phase = "memory"
        /\ \A q \in Runs : q # r => runs'[q] = runs[q]
        /\ \A q \in Runs : /\ runs'[q].step = runs[q].step
                            /\ runs'[q].row = runs[q].row
                            /\ runs'[q].cancellationRequested = runs[q].cancellationRequested
    BY <2>1, <2>2, PhaseSet DEF RowsInv
  <2>4. RowsTyped' /\ Begun' /\ CancelledIsLive' /\ RunningTaskHasRow'
    BY <2>1, <2>3 DEF RowsInv, RowsTyped, Begun, CancelledIsLive, RunningTaskHasRow, StepOf
  <2>5. NoneCompleted /\ ~ Recovering
    BY NotRecovering, IdleNoneCompleted DEF RowsInv
  <2>6. \A q \in Runs : Attended(q) <=> Attended(q)'
    BY <2>1, <2>3 DEF Attended
  <2>7. RunningIsAttended' /\ CompletedReturns'
    BY <2>3, <2>5, <2>6 DEF RowsInv, RunningIsAttended, CompletedReturns, NoneCompleted
  <2>8. Sections'
    BY <2>1 DEF Sections, Idle
  <2>9. QED
    BY <2>4, <2>7, <2>8 DEF RowsInv
<1>2. CASE Ends(CompleteTaskRun(r, runs[r].step))
  BY <1>2, CompleteRows
<1>3. CASE Ends(FailTaskRun(r, runs[r].step))
  BY <1>3, FailRows
<1>4. QED
  BY <1>1, <1>2, <1>3, Zenon DEF Succeeds

LEMMA PreludeEndsRows ==
    ASSUME RowsInv, NEW r \in Runs, PreludeEnds(r)
    PROVE  RowsInv'
<1>1. /\ Idle /\ runs[r].phase = "prelude"
      /\ runs' = [runs EXCEPT ![r].phase = "live"]
      /\ todo' = LaunchWrites(r, runs[r].step)
      /\ task' = task /\ exec' = exec /\ crashes' = crashes
  BY Zenon DEF PreludeEnds
<1>2. "live" \in Phases
  BY DEF Phases
<1>3. /\ runs' \in [Runs -> RunRows]
      /\ runs'[r].phase = "live"
      /\ \A q \in Runs : q # r => runs'[q] = runs[q]
      /\ \A q \in Runs : /\ runs'[q].step = runs[q].step
                          /\ runs'[q].row = runs[q].row
                          /\ runs'[q].cancellationRequested = runs[q].cancellationRequested
  BY <1>1, <1>2, PhaseSet DEF RowsInv
<1>4. runs[r].row = "none" /\ StepOf(r) \in Steps
  BY <1>1 DEF RowsInv, Begun
<1>5. RowsTyped' /\ Begun' /\ CancelledIsLive' /\ RunningTaskHasRow'
  BY <1>1, <1>3, <1>4
     DEF RowsInv, RowsTyped, Begun, CancelledIsLive, RunningTaskHasRow, StepOf
<1>6. NoneCompleted /\ ~ Recovering
  BY <1>1, NotRecovering, IdleNoneCompleted DEF RowsInv
<1>7. RunningIsAttended' /\ CompletedReturns'
  BY <1>3, <1>4, <1>6
     DEF RowsInv, RunningIsAttended, CompletedReturns, NoneCompleted, Attended
<1>8. Attended(r)' /\ StepOf(r)' = runs[r].step
  BY <1>3 DEF Attended, StepOf
<1>9. LaunchingRow(r)'
  BY <1>1, <1>8, Zenon DEF LaunchingRow
<1>10. Sections'
  BY <1>8, <1>9 DEF Sections, Launching
<1>11. QED
  BY <1>5, <1>7, <1>10 DEF RowsInv

LEMMA PreludeFailsRows ==
    ASSUME RowsInv, NEW r \in Runs, PreludeFails(r)
    PROVE  RowsInv'
<1>1. /\ Idle /\ runs[r].phase = "prelude"
      /\ runs' = [runs EXCEPT ![r].phase = "gone"]
      /\ exec' = [e \in Executors |-> IF runs[r].by = e THEN "idle" ELSE exec[e]]
      /\ todo' = todo /\ task' = task /\ crashes' = crashes
  BY Zenon DEF PreludeFails
<1>2. "gone" \in Phases
  BY DEF Phases
<1>3. /\ runs' \in [Runs -> RunRows]
      /\ runs'[r].phase = "gone"
      /\ \A q \in Runs : q # r => runs'[q] = runs[q]
      /\ \A q \in Runs : /\ runs'[q].step = runs[q].step
                          /\ runs'[q].row = runs[q].row
                          /\ runs'[q].cancellationRequested = runs[q].cancellationRequested
  BY <1>1, <1>2, PhaseSet DEF RowsInv
<1>4. runs[r].row = "none" /\ StepOf(r) \in Steps
  BY <1>1 DEF RowsInv, Begun
<1>5. exec' \in [Executors -> ExecPhases]
  BY <1>1 DEF RowsInv, RowsTyped, ExecPhases
<1>6. RowsTyped' /\ Begun' /\ CancelledIsLive' /\ RunningTaskHasRow'
  BY <1>1, <1>3, <1>4, <1>5
     DEF RowsInv, RowsTyped, Begun, CancelledIsLive, RunningTaskHasRow, StepOf
<1>7. NoneCompleted /\ ~ Recovering
  BY <1>1, NotRecovering, IdleNoneCompleted DEF RowsInv
<1>8. RunningIsAttended' /\ CompletedReturns'
  BY <1>3, <1>4, <1>7
     DEF RowsInv, RunningIsAttended, CompletedReturns, NoneCompleted, Attended
<1>9. Sections'
  BY <1>1 DEF Sections, Idle
<1>10. QED
  BY <1>6, <1>8, <1>9 DEF RowsInv

LEMMA RunStepRows ==
    ASSUME RowsInv, NEW r \in Runs, RunStep(r)
    PROVE  RowsInv'
<1>1. CASE PreludeEnds(r)
  BY <1>1, PreludeEndsRows
<1>2. CASE PreludeFails(r)
  BY <1>2, PreludeFailsRows
<1>3. CASE ChildCloses(r)
  <2>1. Idle /\ Attended(r)
    BY <1>3 DEF ChildCloses, Attended
  <2>2. CASE runs[r].cancellationRequested
    <3>1. Ends(CancelTaskRun(r, runs[r].step))
      BY <1>3, <2>2, Zenon DEF ChildCloses
    <3>2. QED
      BY <2>1, <3>1, CancelRows
  <2>3. CASE ~ runs[r].cancellationRequested
    <3>1. \/ Ends(StopTaskRunByLimit(r, runs[r].step))
          \/ Ends(FailTaskRun(r, runs[r].step))
          \/ Succeeds(r)
      BY <1>3, <2>3, Zenon DEF ChildCloses
    <3>2. QED
      BY <2>1, <2>3, <3>1, StopRows, FailRows, SucceedsRows
  <2>4. QED
    BY <2>2, <2>3
<1>4. CASE ChildErrors(r)
  <2>1. Idle /\ Attended(r) /\ Ends(FailTaskRun(r, runs[r].step))
    BY <1>4 DEF ChildErrors, Attended
  <2>2. QED
    BY <2>1, FailRows
<1>5. CASE HttpAnswers(r)
  <2>1. /\ Idle /\ Attended(r) /\ runs[r].step \in HttpSteps
        /\ \/ Ends(StopTaskRunByLimit(r, runs[r].step))
           \/ Ends(FailTaskRun(r, runs[r].step))
           \/ Succeeds(r)
    BY <1>5 DEF HttpAnswers, Attended
  <2>2. ~ runs[r].cancellationRequested
    BY <2>1 DEF RowsInv, CancelledIsLive, StepOf
  <2>3. QED
    BY <2>1, <2>2, StopRows, FailRows, SucceedsRows
<1>6. CASE MemoryServed(r)
  <2>1. Idle /\ Attended(r) /\ runs[r].phase = "memory" /\ Succeeds(r)
    BY <1>6 DEF MemoryServed, Attended
  <2>2. ~ runs[r].cancellationRequested
    BY <2>1 DEF RowsInv, CancelledIsLive
  <2>3. QED
    BY <2>1, <2>2, SucceedsRows
<1>7. QED
  BY <1>1, <1>2, <1>3, <1>4, <1>5, <1>6 DEF RunStep

LEMMA CancelsRunRows ==
    ASSUME RowsInv, NEW r \in Runs, ApiCancelsRun(r)
    PROVE  RowsInv'
<1>1. /\ Idle /\ InActiveRuns(r) /\ runs[r].step \notin HttpSteps /\ CancelActiveRun(r)
      /\ task' = task /\ exec' = exec /\ crashes' = crashes
  BY Zenon DEF ApiCancelsRun
<1>2. /\ runs' = [runs EXCEPT ![r].cancellationRequested = TRUE]
      /\ \/ todo' = <<TaskWrite(runs[r].step, "cancelled")>>
         \/ todo' = <<TaskWrite(runs[r].step, "cancelled"), RowWrite(r, "cancelled"),
                      DagWrite("cancel", runs[r].step)>>
  BY <1>1, Zenon DEF CancelActiveRun
<1>3. runs[r].phase = "live" /\ Attended(r)
  BY <1>1 DEF InActiveRuns, Attended
<1>4. /\ runs' \in [Runs -> RunRows]
      /\ runs'[r].cancellationRequested
      /\ \A q \in Runs : q # r => runs'[q] = runs[q]
      /\ \A q \in Runs : /\ runs'[q].step = runs[q].step
                          /\ runs'[q].row = runs[q].row
                          /\ runs'[q].phase = runs[q].phase
  BY <1>2, CancellationSet DEF RowsInv
<1>5. NoneCompleted /\ ~ Recovering
  BY <1>1, NotRecovering, IdleNoneCompleted DEF RowsInv
<1>6. \A q \in Runs : StepOf(q)' = StepOf(q) /\ (Attended(q) <=> Attended(q)')
  BY <1>4 DEF StepOf, Attended
<1>7. RowsTyped' /\ Begun' /\ RunningTaskHasRow'
  BY <1>1, <1>4, <1>6 DEF RowsInv, RowsTyped, Begun, RunningTaskHasRow
<1>8. CancelledIsLive'
  BY <1>1, <1>3, <1>4, <1>5 DEF RowsInv, CancelledIsLive, NoneCompleted, StepOf
<1>9. RunningIsAttended' /\ CompletedReturns'
  BY <1>4, <1>5, <1>6 DEF RowsInv, RunningIsAttended, CompletedReturns, NoneCompleted
<1>10. \/ todo' = <<TaskWrite(StepOf(r), "cancelled")>>
       \/ todo' = <<TaskWrite(StepOf(r), "cancelled"), RowWrite(r, "cancelled"),
                    DagWrite("cancel", StepOf(r))>>
  BY <1>2, Zenon DEF StepOf
<1>11. CancellingTask(r)'
  BY <1>6, <1>10, Zenon DEF CancellingTask
<1>12. Sections'
  BY <1>3, <1>4, <1>6, <1>11 DEF Sections, Cancelling
<1>13. QED
  BY <1>7, <1>8, <1>9, <1>12 DEF RowsInv

LEMMA RunsTaskRows ==
    ASSUME RowsInv, NEW s \in Steps, ApiRunsTask(s)
    PROVE  RowsInv'
<1>1. /\ Idle /\ task' = task /\ exec' = exec /\ crashes' = crashes
      /\ \E r \in Runs :
            /\ BeginTaskRun(r, s, Api)
            /\ todo' = IF s \in AwaitingSteps THEN << >> ELSE LaunchWrites(r, s)
  BY Zenon DEF ApiRunsTask
<1>2. NoneCompleted /\ ~ Recovering
  BY <1>1, NotRecovering, IdleNoneCompleted DEF RowsInv
<1>3. QED
  BY <1>1, <1>2, BeginRows

LEMMA ReadiesTaskRows ==
    ASSUME RowsInv, NEW s \in Steps, ApiReadiesTask(s)
    PROVE  RowsInv'
<1>1. /\ Idle /\ task' = [task EXCEPT ![s] = "ready"]
      /\ runs' = runs /\ exec' = exec /\ todo' = todo /\ crashes' = crashes
  BY Zenon DEF ApiReadiesTask
<1>2. NoneCompleted /\ ~ Recovering
  BY <1>1, NotRecovering, IdleNoneCompleted DEF RowsInv
<1>3. \A q \in Runs : StepOf(q)' = StepOf(q) /\ (Attended(q) <=> Attended(q)')
  BY <1>1 DEF StepOf, Attended
<1>4. task' \in [Steps -> TaskStatuses] /\ \A t \in Steps : task'[t] \in {task[t], "ready"}
  BY <1>1 DEF RowsInv, RowsTyped, TaskStatuses
<1>5. RowsTyped' /\ Begun' /\ RunningTaskHasRow' /\ CancelledIsLive'
  BY <1>1, <1>3, <1>4 DEF RowsInv, RowsTyped, Begun, RunningTaskHasRow, CancelledIsLive
<1>6. RunningIsAttended' /\ CompletedReturns'
  BY <1>1, <1>2, <1>3 DEF RowsInv, RunningIsAttended, CompletedReturns, NoneCompleted
<1>7. Sections'
  BY <1>1 DEF Sections, Idle
<1>8. QED
  BY <1>5, <1>6, <1>7 DEF RowsInv

LEMMA ExecutorRows ==
    ASSUME RowsInv, NEW e \in Executors,
           ExecutorExecutes(e) \/ ExecutorResumes(e) \/ BackoffEnds(e)
    PROVE  RowsInv'
<1>1. /\ Idle /\ exec' = [exec EXCEPT ![e] = "walking"]
      /\ task' = task /\ runs' = runs /\ crashes' = crashes
      /\ \/ todo' = <<Choose(e)>>
         \/ todo' = <<DagWrite("recover", NoStep), DagWrite("resume", NoStep), ResetTasks,
                      Choose(e)>>
  BY Zenon DEF ExecutorExecutes, ExecutorResumes, BackoffEnds
<1>2. exec' \in [Executors -> ExecPhases]
  BY <1>1 DEF RowsInv, RowsTyped, ExecPhases
<1>3. NoneCompleted /\ ~ Recovering
  BY <1>1, NotRecovering, IdleNoneCompleted DEF RowsInv
<1>4. CompletedReturns'
  BY <1>1, <1>3 DEF CompletedReturns, NoneCompleted, Attended
<1>5. WalkChooses(e)' \/ WalkRecovers(e)'
  BY <1>1, Zenon DEF WalkChooses, WalkRecovers
<1>6. Sections'
  BY <1>5 DEF Sections, Walking
<1>7. QED
  BY <1>1, <1>2, <1>3, <1>4, <1>6, RowsKept

LEMMA CrashRows == ASSUME RowsInv, Crash PROVE RowsInv'
<1>1. /\ crashes < MaxCrashes /\ crashes' = crashes + 1
      /\ runs' = [r \in Runs |->
                    IF runs[r].phase = "free" THEN runs[r]
                    ELSE [runs[r] EXCEPT !.phase = "gone"]]
      /\ exec' = [e \in Executors |-> "idle"]
      /\ todo' = <<RecoverRows, DagWrite("startup", NoStep)>>
      /\ task' = task
  BY Zenon DEF Crash
<1>2. ASSUME NEW q \in Runs
      PROVE  /\ runs'[q] \in RunRows
             /\ runs'[q].phase = IF runs[q].phase = "free" THEN "free" ELSE "gone"
             /\ runs'[q].step = runs[q].step /\ runs'[q].row = runs[q].row
             /\ runs'[q].cancellationRequested = runs[q].cancellationRequested
  BY <1>1 DEF RowsInv, RowsTyped, RunRows, Phases
<1>3. runs' \in [Runs -> RunRows]
  BY <1>1, <1>2
<1>4. crashes' \in 0 .. MaxCrashes
  BY <1>1, ExecutionAssumption DEF RowsInv, RowsTyped
<1>5. exec' \in [Executors -> ExecPhases]
  BY <1>1 DEF ExecPhases
<1>6. RowsTyped' /\ Begun'
  BY <1>1, <1>2, <1>3, <1>4, <1>5 DEF RowsInv, RowsTyped, Begun, StepOf
<1>7. RunningTaskHasRow' /\ CancelledIsLive'
  BY <1>1, <1>2 DEF RowsInv, RunningTaskHasRow, CancelledIsLive, StepOf
<1>8. CompletedReturns'
  BY <1>2 DEF CompletedReturns, Attended
<1>9. Recovering'
  BY <1>1 DEF Recovering
<1>10. Sections' /\ RunningIsAttended'
  BY <1>9 DEF Sections, RunningIsAttended
<1>11. QED
  BY <1>6, <1>7, <1>8, <1>10 DEF RowsInv

LEMMA InitRows == ASSUME ExecutionInit PROVE RowsInv
<1>1. /\ task = [s \in Steps |-> "ready"]
      /\ runs = [r \in Runs |-> FreeRun]
      /\ exec = [e \in Executors |-> "idle"]
      /\ todo = << >> /\ crashes = 0
  BY Zenon DEF ExecutionInit
<1>2. /\ FreeRun \in RunRows
      /\ FreeRun.row = "none" /\ FreeRun.phase = "free" /\ ~ FreeRun.cancellationRequested
  BY DEF FreeRun, RunRows, RowStatuses, Phases
<1>3. RowsTyped
  BY <1>1, <1>2, ExecutionAssumption DEF RowsTyped, TaskStatuses, ExecPhases
<1>4. Begun /\ CancelledIsLive /\ CompletedReturns /\ RunningIsAttended /\ RunningTaskHasRow
  BY <1>1, <1>2
     DEF Begun, CancelledIsLive, CompletedReturns, RunningIsAttended, RunningTaskHasRow, Attended
<1>5. Sections
  BY <1>1 DEF Sections, Idle
<1>6. QED
  BY <1>3, <1>4, <1>5 DEF RowsInv

LEMMA NextRows == ASSUME RowsInv, [ExecutionNext]_vars PROVE RowsInv'
<1>1. CASE Section
  BY <1>1, WriteTaskRows, WriteRowRows, WriteDagRows, ResetsTaskRows, RecoverRunRowsRows,
     RunReturnsRows, ChoosesRows DEF Section
<1>2. ASSUME NEW r \in Runs, RunStep(r) \/ ApiCancelsRun(r) PROVE RowsInv'
  BY <1>2, RunStepRows, CancelsRunRows
<1>3. ASSUME NEW s \in Steps, ApiRunsTask(s) \/ ApiReadiesTask(s) PROVE RowsInv'
  BY <1>3, RunsTaskRows, ReadiesTaskRows
<1>4. ASSUME NEW e \in Executors, ExecutorExecutes(e) \/ ExecutorResumes(e) \/ BackoffEnds(e)
      PROVE  RowsInv'
  BY <1>4, ExecutorRows
<1>5. CASE Crash
  BY <1>5, CrashRows
<1>6. CASE UNCHANGED vars
  BY <1>6 DEF vars, RowsInv, RowsTyped, Sections, Idle, Launching, LaunchingRow, LaunchingTask,
     LaunchingStep, Ending, EndingTask, EndingRow, EndingStep, Returning, Cancelling,
     CancellingTask, CancellingRow, CancellingStep, Recovering, StartingUp, RetryResumes,
     RetryResets, Walking, WalkRecovers, WalkResumes, WalkResets, WalkChooses, Begun,
     RunningIsAttended, RunningTaskHasRow, CancelledIsLive, CompletedReturns, StepOf, Attended
<1>7. QED
  BY <1>1, <1>2, <1>3, <1>4, <1>5, <1>6 DEF ExecutionNext

(* A run whose cancellation was acknowledged never turns up completed,     *)
(* however the termination races with the child's own exit and with the    *)
(* memory requests that follow it.                                         *)
THEOREM CancelledStaysCancelled == ExecutionSpec => []CancelledNeverCompleted
<1>1. RowsInv => CancelledNeverCompleted
  BY DEF RowsInv, CancelledIsLive, CancelledNeverCompleted
<1>2. QED
  BY InitRows, NextRows, <1>1, PTL DEF ExecutionSpec

(***************************************************************************)
(* Counting launches.  A section that starts a step ends in that write; no *)
(* other section does.                                                     *)
(***************************************************************************)
EndsIn(t, x) == t # << >> /\ t[Len(t)] = x
StartsStep(t) == \E s : EndsIn(t, DagWrite("start", s))

LEMMA Lasts ==
    /\ \A a : EndsIn(<<a>>, a)
    /\ \A a, b : EndsIn(<<a, b>>, b)
    /\ \A a, b, c : EndsIn(<<a, b, c>>, c)
    /\ \A a, b, c, d : EndsIn(<<a, b, c, d>>, d)
  BY DEF EndsIn

LEMMA StartIsNothingElse ==
    /\ \A s, t, to : DagWrite("start", s) # TaskWrite(t, to)
    /\ \A s, t, op : op # "start" => DagWrite("start", s) # DagWrite(op, t)
    /\ \A s, r : DagWrite("start", s) # Return(r)
    /\ \A s, e : DagWrite("start", s) # Choose(e)
    /\ \A s : DagWrite("start", s) # ResetTasks
<1>1. ASSUME NEW s, NEW t, NEW to PROVE DagWrite("start", s) # TaskWrite(t, to)
  BY DagKind, TaskKind, Zenon
<1>2. ASSUME NEW s, NEW t, NEW op, op # "start" PROVE DagWrite("start", s) # DagWrite(op, t)
  BY <1>2, SMT DEF DagWrite
<1>3. ASSUME NEW s, NEW r PROVE DagWrite("start", s) # Return(r)
  BY DagKind, ReturnKind, Zenon
<1>4. ASSUME NEW s, NEW e PROVE DagWrite("start", s) # Choose(e)
  BY DagKind, ChooseKind, Zenon
<1>5. ASSUME NEW s PROVE DagWrite("start", s) # ResetTasks
  BY DagKind, OtherKind, Zenon
<1>6. QED
  BY <1>1, <1>2, <1>3, <1>4, <1>5, Zenon

LEMMA LaunchesStart ==
    \A r, s : /\ StartsStep(LaunchWrites(r, s))
             /\ StartsStep(<<TaskWrite(s, "running"), DagWrite("start", s)>>)
             /\ StartsStep(<<DagWrite("start", s)>>)
  BY Lasts, Zenon DEF StartsStep, LaunchWrites

LEMMA OnlyLastStarts ==
    ASSUME NEW t, NEW x, EndsIn(t, x), \A s : DagWrite("start", s) # x
    PROVE  ~ StartsStep(t)
  BY Zenon DEF EndsIn, StartsStep

LEMMA OthersStartNothing ==
    /\ ~ StartsStep(<< >>)
    /\ \A s, to : ~ StartsStep(<<TaskWrite(s, to)>>)
    /\ \A s, op : op # "start" => ~ StartsStep(<<DagWrite(op, s)>>)
    /\ \A a, s, op : op # "start" => ~ StartsStep(<<a, DagWrite(op, s)>>)
    /\ \A a, b, s, op : op # "start" => ~ StartsStep(<<a, b, DagWrite(op, s)>>)
    /\ \A r : ~ StartsStep(<<Return(r)>>)
    /\ \A a, r : ~ StartsStep(<<a, Return(r)>>)
    /\ \A a, b, r : ~ StartsStep(<<a, b, Return(r)>>)
    /\ \A a, b, c, r : ~ StartsStep(<<a, b, c, Return(r)>>)
    /\ ~ StartsStep(<<ResetTasks>>)
    /\ \A a : ~ StartsStep(<<a, ResetTasks>>)
    /\ \A e : ~ StartsStep(<<Choose(e)>>)
    /\ \A a, e : ~ StartsStep(<<a, Choose(e)>>)
    /\ \A a, b, e : ~ StartsStep(<<a, b, Choose(e)>>)
    /\ \A a, b, c, e : ~ StartsStep(<<a, b, c, Choose(e)>>)
<1>1. ~ StartsStep(<< >>)
  BY DEF StartsStep, EndsIn
<1>2. ASSUME NEW a, NEW b, NEW c, NEW x, \A s : DagWrite("start", s) # x
      PROVE  /\ ~ StartsStep(<<x>>) /\ ~ StartsStep(<<a, x>>) /\ ~ StartsStep(<<a, b, x>>)
             /\ ~ StartsStep(<<a, b, c, x>>)
  BY <1>2, Lasts, OnlyLastStarts, Zenon
<1>3. ASSUME NEW s, NEW to PROVE ~ StartsStep(<<TaskWrite(s, to)>>)
  BY <1>2, StartIsNothingElse, Zenon
<1>4. ASSUME NEW a, NEW b, NEW s, NEW op, op # "start"
      PROVE  /\ ~ StartsStep(<<DagWrite(op, s)>>) /\ ~ StartsStep(<<a, DagWrite(op, s)>>)
             /\ ~ StartsStep(<<a, b, DagWrite(op, s)>>)
  BY <1>2, <1>4, StartIsNothingElse, Zenon
<1>5. ASSUME NEW a, NEW b, NEW c, NEW r
      PROVE  /\ ~ StartsStep(<<Return(r)>>) /\ ~ StartsStep(<<a, Return(r)>>)
             /\ ~ StartsStep(<<a, b, Return(r)>>) /\ ~ StartsStep(<<a, b, c, Return(r)>>)
  BY <1>2, StartIsNothingElse, Zenon
<1>6. ASSUME NEW a PROVE ~ StartsStep(<<ResetTasks>>) /\ ~ StartsStep(<<a, ResetTasks>>)
  BY <1>2, StartIsNothingElse, Zenon
<1>7. ASSUME NEW a, NEW b, NEW c, NEW e
      PROVE  /\ ~ StartsStep(<<Choose(e)>>) /\ ~ StartsStep(<<a, Choose(e)>>)
             /\ ~ StartsStep(<<a, b, Choose(e)>>) /\ ~ StartsStep(<<a, b, c, Choose(e)>>)
  BY <1>2, StartIsNothingElse, Zenon
<1>8. QED
  BY <1>1, <1>3, <1>4, <1>5, <1>6, <1>7, Zenon

LEMMA LaunchingStarts == ASSUME NEW r \in Runs, Launching(r) PROVE StartsStep(todo)
  BY LaunchesStart, Zenon DEF Launching, LaunchingRow, LaunchingTask, LaunchingStep

LEMMA LaunchingStartsNext == ASSUME NEW r \in Runs, Launching(r)' PROVE StartsStep(todo')
  BY LaunchesStart, Zenon DEF Launching, LaunchingRow, LaunchingTask, LaunchingStep

LEMMA RunSets ==
    ASSUME NEW S \in SUBSET Runs
    PROVE  IsFiniteSet(S) /\ Cardinality(S) \in Nat /\ Cardinality(S) <= MaxRuns
<1>1. IsFiniteSet(Runs) /\ Cardinality(Runs) = MaxRuns
  BY FS_Interval, ExecutionAssumption DEF Runs
<1>2. QED
  BY <1>1, FS_Subset, FS_CardinalityType

(* A step of the system in which no launch begins and no step is started:  *)
(* the runs attended are attended still or not at all, and a section that  *)
(* launches one goes on.                                                   *)
LEMMA CountKept ==
    ASSUME StartsCounted, AttendedIsStarted, dag' = dag, dag \in DagRows,
           \A r \in Runs : /\ runs'[r].step = runs[r].step
                           /\ Attended(r)' => Attended(r)
                           /\ runs[r].phase \notin {"free", "prelude"}
                                 => runs'[r].phase \notin {"free", "prelude"}
                           /\ Attended(r)' /\ Launching(r) => Launching(r)',
           SomeLaunching' => SomeLaunching
    PROVE  StartsCounted' /\ AttendedIsStarted'
<1>1. /\ Cardinality(Launched) \in Nat /\ Cardinality(Launched') \in Nat
      /\ Cardinality(Launched) <= Cardinality(Launched')
  <2>1. Launched \in SUBSET Launched' /\ Launched' \in SUBSET Runs
    BY DEF Launched
  <2>2. QED
    BY <2>1, RunSets, FS_Subset
<1>2. \A s \in Steps : dag.attempt[s] \in Nat
  BY DEF DagRows
<1>3. StartsCounted'
  BY <1>1, <1>2 DEF StartsCounted
<1>4. AttendedIsStarted'
  BY DEF AttendedIsStarted, StepOf
<1>5. QED
  BY <1>3, <1>4

(* Outside a launch, and in no hurry to begin one. *)
LEMMA CountKeptIdly ==
    ASSUME StartsCounted, AttendedIsStarted, dag' = dag, dag \in DagRows,
           \A r \in Runs : /\ runs'[r].step = runs[r].step
                           /\ Attended(r)' => Attended(r)
                           /\ runs[r].phase \notin {"free", "prelude"}
                                 => runs'[r].phase \notin {"free", "prelude"},
           ~ StartsStep(todo), ~ StartsStep(todo')
    PROVE  StartsCounted' /\ AttendedIsStarted'
<1>1. \A r \in Runs : ~ Launching(r) /\ ~ Launching(r)'
  BY LaunchingStarts, LaunchingStartsNext
<1>2. ~ SomeLaunching' /\ ~ SomeLaunching
  BY <1>1 DEF SomeLaunching
<1>3. QED
  BY <1>1, <1>2, CountKept

(* A run is launched: it is a new member of Launched. *)
LEMMA CountLaunch ==
    ASSUME StartsCounted, AttendedIsStarted, dag' = dag, dag \in DagRows, ~ StartsStep(todo),
           NEW r \in Runs, runs[r].phase \in {"free", "prelude"}, runs'[r].phase = "live",
           \A q \in Runs : q # r => runs'[q] = runs[q],
           todo' = LaunchWrites(r, runs'[r].step)
    PROVE  StartsCounted' /\ AttendedIsStarted'
<1>1. \A q \in Runs : ~ Launching(q)
  BY LaunchingStarts
<1>2. Launching(r)'
  BY Zenon DEF Launching, LaunchingRow, Attended, StepOf
<1>3. Launched' = Launched \cup {r} /\ r \notin Launched
  BY DEF Launched
<1>4. /\ Cardinality(Launched) \in Nat
      /\ Cardinality(Launched') = Cardinality(Launched) + 1
  <2>1. Launched \in SUBSET Runs
    BY DEF Launched
  <2>2. QED
    BY <1>3, <2>1, RunSets, FS_AddElement
<1>5. \A s \in Steps : dag.attempt[s] \in Nat
  BY DEF DagRows
<1>6. StartsCounted'
  BY <1>4, <1>5 DEF StartsCounted
<1>7. AttendedIsStarted'
  <2>1. ASSUME NEW q \in Runs, Attended(q)', q # r PROVE dag'.attempt[StepOf(q)'] > 0
    BY <1>1, <2>1 DEF AttendedIsStarted, Attended, StepOf
  <2>2. QED
    BY <1>2, <2>1 DEF AttendedIsStarted
<1>8. QED
  BY <1>6, <1>7

LEMMA RecomputeNothing ==
    ASSUME WellFormed(dag), Recomputed(dag)
    PROVE  RecomputeReadiness(dag) = dag
<1> DEFINE e == RecomputeReadiness(dag)
<1>1. HasColumns(dag)
  BY DagRowsHaveColumns DEF WellFormed
<1>2. Becomes(e, dag, dag.status, dag.step, dag.attempt, dag.attempts)
  BY <1>1, RecomputeReadinessColumns
<1> HIDE DEF e
<1>3. \A s : BlockingStepIds(e, s) = BlockingStepIds(dag, s)
  BY <1>2 DEF Becomes, BlockingStepIds
<1>4. e.blocking = dag.blocking /\ e.ready = dag.ready
  BY <1>2, <1>3 DEF Becomes, Recomputed
<1>5. \A c \in Columns : e[c] = dag[c]
  BY <1>2, <1>4 DEF Becomes, Columns
<1>6. e = dag
  BY <1>1, <1>2, <1>5 DEF Becomes, HasColumns
<1>7. QED
  BY <1>6 DEF e

(***************************************************************************)
(* Each step is a step of WorkflowDag or leaves the DAG rows alone, and    *)
(* keeps count.                                                            *)
(***************************************************************************)
Counted == StartsCounted /\ AttendedIsStarted

LEMMA WriteTaskCounts == ASSUME RowsInv, DagInv, WriteTask PROVE dag' = dag /\ Counted'
<1>1. /\ ~ Idle /\ FirstKind = "task"
      /\ todo' = Tail(todo) /\ runs' = runs /\ dag' = dag
  BY Zenon DEF WriteTask, FirstKind
<1>2. PICK r \in Runs : /\ Attended(r)
                        /\ \/ LaunchingTask(r)
                           \/ \E end \in Endings : EndingTask(r, end)
                           \/ runs[r].cancellationRequested /\ CancellingTask(r)
  BY <1>1, TaskFirst DEF RowsInv
<1>3. \A q \in Runs : StepOf(q)' = StepOf(q) /\ (Attended(q) <=> Attended(q)')
  BY <1>1 DEF StepOf, Attended
<1>4. dag \in DagRows
  BY DEF DagInv, WellFormed
<1>5. CASE LaunchingTask(r)
  <2>1. ASSUME NEW q \in Runs, Launching(q) PROVE Launching(q)'
    <3>1. LaunchingTask(q)
      BY <1>1, <2>1, LaunchingKinds DEF Launching
    <3>2. todo' = <<DagWrite("start", StepOf(q))>>
      BY <1>1, <3>1, TaskWriteLeft
    <3>3. QED
      BY <1>3, <2>1, <3>2 DEF Launching, LaunchingStep
  <2>2. Launching(r)
    BY <1>2, <1>5 DEF Launching
  <2>3. SomeLaunching
    BY <2>2 DEF SomeLaunching
  <2>4. QED
    BY <1>1, <1>3, <1>4, <2>1, <2>3, CountKept DEF DagInv, Counted
<1>6. CASE ~ LaunchingTask(r)
  <2>1. ~ StartsStep(todo)
    BY <1>2, <1>6, OthersStartNothing, EndingsTyped, Zenon DEF EndingTask, CancellingTask
  <2>2. ~ StartsStep(todo')
    <3>1. CASE \E end \in Endings : EndingTask(r, end)
      <4>1. PICK end \in Endings : EndingTask(r, end)
        BY <3>1
      <4>2. todo' = <<RowWrite(r, end[2]), DagWrite(end[3], StepOf(r)), Return(r)>>
        BY <1>1, <4>1, TaskWriteLeft
      <4>3. QED
        BY <4>2, OthersStartNothing, Zenon
    <3>2. CASE CancellingTask(r)
      <4>1. \/ todo' = << >>
            \/ todo' = <<RowWrite(r, "cancelled"), DagWrite("cancel", StepOf(r))>>
        BY <1>1, <3>2, TaskWriteLeft
      <4>2. QED
        BY <4>1, OthersStartNothing, Zenon
    <3>3. QED
      BY <1>2, <1>6, <3>1, <3>2
  <2>3. QED
    BY <1>1, <1>3, <1>4, <2>1, <2>2, CountKeptIdly DEF DagInv, Counted
<1>7. QED
  BY <1>1, <1>5, <1>6

LEMMA WriteRowCounts == ASSUME RowsInv, DagInv, WriteRow PROVE dag' = dag /\ Counted'
<1>1. /\ ~ Idle /\ FirstKind = "row"
      /\ todo' = Tail(todo) /\ dag' = dag
  BY Zenon DEF WriteRow, FirstKind
<1>2. PICK r \in Runs : /\ Attended(r)
                        /\ \/ LaunchingRow(r)
                           \/ \E end \in Endings : EndingRow(r, end)
                           \/ runs[r].cancellationRequested /\ CancellingRow(r)
  BY <1>1, RowFirst DEF RowsInv
<1>3. PICK to \in RowStatuses : Head(todo) = RowWrite(r, to)
  <2>1. "running" \in RowStatuses /\ "cancelled" \in RowStatuses
    BY DEF RowStatuses
  <2>2. QED
    BY <1>2, <2>1, RowWriteLeft, EndingsTyped
<1>4. /\ runs'[r].row = to
      /\ \A q \in Runs : runs'[q].step = runs[q].step /\ runs'[q].phase = runs[q].phase
  BY <1>3, RowWritten, RowSet DEF RowsInv
<1>5. \A q \in Runs : StepOf(q)' = StepOf(q) /\ (Attended(q) <=> Attended(q)')
  BY <1>4 DEF StepOf, Attended
<1>6. dag \in DagRows
  BY DEF DagInv, WellFormed
<1>7. CASE LaunchingRow(r)
  <2>1. ASSUME NEW q \in Runs, Launching(q) PROVE Launching(q)'
    <3>1. LaunchingRow(q)
      BY <1>1, <2>1, LaunchingKinds DEF Launching
    <3>2. Head(todo) = RowWrite(q, "running") /\ Head(todo) = RowWrite(r, "running")
      BY <1>7, <3>1, RowWriteLeft
    <3>3. RowWrite(q, "running") = RowWrite(r, "running") /\ RowWrite(r, to) = RowWrite(r, "running")
      BY <1>3, <3>2, Zenon
    <3>4. q = r /\ to = "running"
      BY <3>3, SMT DEF RowWrite
    <3>5. todo' = <<TaskWrite(StepOf(q), "running"), DagWrite("start", StepOf(q))>>
      BY <1>1, <3>1, RowWriteLeft
    <3>6. QED
      BY <1>4, <1>5, <2>1, <3>4, <3>5 DEF Launching, LaunchingTask
  <2>2. Launching(r)
    BY <1>2, <1>7 DEF Launching
  <2>3. SomeLaunching
    BY <2>2 DEF SomeLaunching
  <2>4. QED
    BY <1>1, <1>4, <1>5, <1>6, <2>1, <2>3, CountKept DEF DagInv, Counted
<1>8. CASE ~ LaunchingRow(r)
  <2>1. /\ ~ StartsStep(todo)
        /\ ~ StartsStep(todo')
    <3>1. CASE \E end \in Endings : EndingRow(r, end)
      <4>1. PICK end \in Endings : EndingRow(r, end)
        BY <3>1
      <4>2. /\ todo = <<RowWrite(r, end[2]), DagWrite(end[3], StepOf(r)), Return(r)>>
            /\ todo' = <<DagWrite(end[3], StepOf(r)), Return(r)>>
        BY <1>1, <4>1, RowWriteLeft DEF EndingRow
      <4>3. QED
        BY <4>2, OthersStartNothing, Zenon
    <3>2. CASE CancellingRow(r)
      <4>1. /\ todo = <<RowWrite(r, "cancelled"), DagWrite("cancel", StepOf(r))>>
            /\ todo' = <<DagWrite("cancel", StepOf(r))>>
        BY <1>1, <3>2, RowWriteLeft DEF CancellingRow
      <4>2. "cancel" # "start"
        OBVIOUS
      <4>3. QED
        BY <4>1, <4>2, OthersStartNothing, Zenon
    <3>3. QED
      BY <1>2, <1>8, <3>1, <3>2
  <2>2. QED
    BY <1>1, <1>4, <1>5, <1>6, <2>1, CountKeptIdly DEF DagInv, Counted
<1>9. QED
  BY <1>1, <1>7, <1>8

(* Only starting a step adds an attempt. *)
LEMMA AttemptsKept ==
    ASSUME dag \in DagRows
    PROVE  /\ \A s \in Steps : Complete(s) \/ Fail(s) \/ Cancel(s) => dag'.attempt = dag.attempt
           /\ Recover \/ Resume => dag'.attempt = dag.attempt
<1>1. ASSUME NEW s \in Steps, Complete(s) PROVE dag'.attempt = dag.attempt
  BY <1>1, CompleteStepColumns DEF Complete, Becomes
<1>2. ASSUME NEW s \in Steps, Fail(s) PROVE dag'.attempt = dag.attempt
  BY <1>2, FailStepColumns DEF Fail, Becomes
<1>3. ASSUME NEW s \in Steps, Cancel(s) PROVE dag'.attempt = dag.attempt
  <2>1. CASE dag.step[s] = "cancelled"
    BY <1>3, <2>1 DEF Cancel, CancelStep
  <2>2. CASE dag.step[s] # "cancelled"
    BY <1>3, <2>2, CancelStepColumns DEF Cancel, Becomes
  <2>3. QED
    BY <2>1, <2>2
<1>4. ASSUME Recover PROVE dag'.attempt = dag.attempt
  <2>1. CASE RunningSteps(dag) = {}
    BY <1>4, <2>1 DEF Recover, RecoverStaleRunningSteps
  <2>2. CASE RunningSteps(dag) # {}
    BY <1>4, <2>2, RecoverColumns DEF Recover, Becomes
  <2>3. QED
    BY <2>1, <2>2
<1>5. ASSUME Resume PROVE dag'.attempt = dag.attempt
  <2>1. CASE FailedSteps(dag) = {}
    BY <1>5, <2>1, DagRowsHaveColumns, RecomputeReadinessColumns
       DEF Resume, ResumeFromFirstFailedStep, Becomes
  <2>2. CASE FailedSteps(dag) # {}
    BY <1>5, <2>2, ResumeColumns DEF Resume, Becomes
  <2>3. QED
    BY <2>1, <2>2
<1>6. QED
  BY <1>1, <1>2, <1>3, <1>4, <1>5

LEMMA DagWritten ==
    \A op, s : WriteDag /\ Head(todo) = DagWrite(op, s) => dag' = AfterDagWrite(op, s)
  BY DagFields, Zenon DEF WriteDag

LEMMA StartCounts ==
    ASSUME RowsInv, DagInv, WriteDag, NEW r \in Runs, Attended(r), LaunchingStep(r)
    PROVE  Next /\ Counted'
<1> DEFINE s == StepOf(r)
<1>1. todo' = Tail(todo) /\ runs' = runs
  BY Zenon DEF WriteDag
<1>2. s \in Steps
  BY DEF RowsInv, Begun, Attended
<1>3. Head(todo) = DagWrite("start", s) /\ Tail(todo) = << >>
  BY OneLeft, Zenon DEF LaunchingStep
<1>4. dag' = StartStep(dag, s)
  <2>1. dag' = AfterDagWrite("start", s)
    BY <1>3, DagWritten, Zenon
  <2>2. QED
    BY <2>1 DEF AfterDagWrite
<1>5. dag \in DagRows
  BY DEF DagInv, WellFormed
<1>6. dag'.attempt = [dag.attempt EXCEPT ![s] = @ + 1]
  BY <1>2, <1>4, <1>5, StartStepColumns DEF Becomes
<1>7. \A t \in Steps : dag.attempt[t] \in Nat
  BY <1>5 DEF DagRows
<1>8. dag.attempt \in [Steps -> 0 .. MaxAttempts]
  BY <1>5 DEF DagRows
<1> HIDE DEF s
<1>9. SomeLaunching
  BY DEF SomeLaunching, Launching
<1>10. Launched \in SUBSET Runs /\ Launched' = Launched
  BY <1>1 DEF Launched
<1>11. Cardinality(Launched) \in Nat /\ Cardinality(Launched) <= MaxRuns
  BY <1>10, RunSets
<1>12. Next
  <2>1. dag.attempt[s] < MaxAttempts
    BY <1>2, <1>7, <1>9, <1>11, ExecutionAssumption, MaxAttemptsAssumption
       DEF DagInv, StartsCounted
  <2>2. QED
    BY <1>2, <1>4, <2>1 DEF Next, Start
<1>13. \A q \in Runs : ~ Launching(q)'
  BY <1>1, <1>3, LaunchingStartsNext, OthersStartNothing
<1>14. StartsCounted'
  <2>1. ~ SomeLaunching'
    BY <1>13 DEF SomeLaunching
  <2>2. \A t \in Steps : dag'.attempt[t] <= dag.attempt[t] + 1 /\ dag'.attempt[t] \in Nat
    BY <1>6, <1>7, <1>8
  <2>3. \A t \in Steps : dag.attempt[t] < Cardinality(Launched)
    BY <1>9 DEF DagInv, StartsCounted
  <2>4. QED
    BY <1>7, <1>10, <1>11, <2>1, <2>2, <2>3 DEF StartsCounted
<1>15. AttendedIsStarted'
  <2> SUFFICES ASSUME NEW q \in Runs, Attended(q)'
               PROVE  dag'.attempt[StepOf(q)'] > 0
    BY DEF AttendedIsStarted
  <2>1. Attended(q) /\ StepOf(q)' = StepOf(q)
    BY <1>1 DEF Attended, StepOf
  <2>2. StepOf(q) \in Steps
    BY <2>1 DEF RowsInv, Begun, Attended
  <2>3. CASE Launching(q)
    <3>1. ~ Idle /\ FirstKind = "dag"
      BY LaunchingKinds
    <3>2. LaunchingStep(q)
      BY <2>3, <3>1, LaunchingKinds DEF Launching
    <3>3. DagWrite("start", StepOf(q)) = DagWrite("start", s)
      BY <1>3, <3>2, OneLeft, Zenon DEF LaunchingStep
    <3>4. StepOf(q) = s
      BY <3>3, SMT DEF DagWrite
    <3>5. QED
      BY <1>6, <1>7, <1>8, <2>1, <2>2, <3>4
  <2>4. CASE ~ Launching(q)
    <3>1. dag.attempt[StepOf(q)] > 0
      BY <2>1, <2>4 DEF DagInv, AttendedIsStarted
    <3>2. QED
      BY <1>6, <1>7, <1>8, <2>1, <2>2, <3>1
  <2>5. QED
    BY <2>3, <2>4
<1>16. QED
  BY <1>12, <1>14, <1>15 DEF Counted

(* A write to the DAG that starts nothing keeps count. *)
LEMMA DagCountKept ==
    ASSUME RowsInv, DagInv, runs' = runs, dag'.attempt = dag.attempt,
           ~ StartsStep(todo), ~ StartsStep(todo')
    PROVE  Counted'
<1>1. \A q \in Runs : ~ Launching(q) /\ ~ Launching(q)'
  BY LaunchingStarts, LaunchingStartsNext
<1>2. ~ SomeLaunching' /\ Launched' = Launched
  BY <1>1 DEF SomeLaunching, Launched
<1>3. StartsCounted'
  BY <1>2 DEF DagInv, StartsCounted
<1>4. AttendedIsStarted'
  BY <1>1 DEF DagInv, AttendedIsStarted, Attended, StepOf
<1>5. QED
  BY <1>3, <1>4 DEF Counted

LEMMA WriteDagCounts ==
    ASSUME RowsInv, DagInv, WriteDag
    PROVE  (dag' = dag \/ Next) /\ Counted'
<1>1. /\ ~ Idle /\ FirstKind = "dag"
      /\ todo' = Tail(todo) /\ runs' = runs
  BY Zenon DEF WriteDag, FirstKind
<1>2. dag \in DagRows
  BY DEF DagInv, WellFormed
<1>3. \A op, s : Head(todo) = DagWrite(op, s) => dag' = AfterDagWrite(op, s)
  BY DagWritten
<1>4. ASSUME NEW r \in Runs, Attended(r), LaunchingStep(r)
      PROVE  (dag' = dag \/ Next) /\ Counted'
  BY <1>4, StartCounts
<1>5. ASSUME NEW r \in Runs, Attended(r), NEW end \in Endings, EndingStep(r, end)
      PROVE  (dag' = dag \/ Next) /\ Counted'
  <2>1. StepOf(r) \in Steps
    BY <1>5 DEF RowsInv, Begun, Attended
  <2>2. /\ todo = <<DagWrite(end[3], StepOf(r)), Return(r)>>
        /\ todo' = <<Return(r)>>
    BY <1>1, <1>5, DagWriteLeft DEF EndingStep
  <2>3. ~ StartsStep(todo) /\ ~ StartsStep(todo')
    BY <2>2, OthersStartNothing, Zenon
  <2>4. Started(StepOf(r))
    BY <1>5, <2>3, LaunchingStarts DEF DagInv, AttendedIsStarted, Started
  <2>5. dag' = AfterDagWrite(end[3], StepOf(r))
    BY <1>3, <2>2, TwoLeft, Zenon
  <2>6. Complete(StepOf(r)) \/ Fail(StepOf(r)) \/ Cancel(StepOf(r))
    BY <2>5, EndingsTyped DEF AfterDagWrite, Complete, Fail, Cancel
  <2>7. Next
    BY <2>1, <2>4, <2>6 DEF Next
  <2>8. QED
    BY <1>1, <1>2, <2>1, <2>3, <2>6, <2>7, AttemptsKept, DagCountKept
<1>6. ASSUME NEW r \in Runs, Attended(r), CancellingStep(r)
      PROVE  (dag' = dag \/ Next) /\ Counted'
  <2>1. StepOf(r) \in Steps
    BY <1>6 DEF RowsInv, Begun, Attended
  <2>2. todo = <<DagWrite("cancel", StepOf(r))>> /\ todo' = << >>
    BY <1>1, <1>6, DagWriteLeft DEF CancellingStep
  <2>3. "cancel" # "start"
    OBVIOUS
  <2>4. ~ StartsStep(todo) /\ ~ StartsStep(todo')
    BY <2>2, <2>3, OthersStartNothing, Zenon
  <2>5. dag' = AfterDagWrite("cancel", StepOf(r))
    BY <1>3, <2>2, OneLeft, Zenon
  <2>6. Cancel(StepOf(r))
    BY <2>5 DEF AfterDagWrite, Cancel
  <2>7. QED
    BY <1>1, <1>2, <2>1, <2>4, <2>6, AttemptsKept, DagCountKept DEF Next
<1>7. CASE StartingUp
  <2>1. todo = <<DagWrite("startup", NoStep)>> /\ todo' = << >>
    BY <1>1, <1>7, DagWriteLeft DEF StartingUp
  <2>2. "startup" # "start"
    OBVIOUS
  <2>3. ~ StartsStep(todo) /\ ~ StartsStep(todo')
    BY <2>1, <2>2, OthersStartNothing, Zenon
  <2>4. dag' = AfterDagWrite("startup", NoStep)
    BY <1>3, <2>1, OneLeft, Zenon
  <2>5. dag' = dag \/ Recover
    BY <2>4 DEF AfterDagWrite, StartupRecovery, Recover
  <2>6. QED
    BY <1>1, <1>2, <2>3, <2>5, AttemptsKept, DagCountKept DEF Next
<1>8. ASSUME \/ RetryResumes
             \/ \E e \in Executors : WalkResumes(e)
      PROVE  (dag' = dag \/ Next) /\ Counted'
  <2>1. /\ Head(todo) = DagWrite("resume", NoStep)
        /\ ~ StartsStep(todo) /\ ~ StartsStep(todo')
    <3>1. CASE RetryResumes
      <4>1. todo = <<DagWrite("resume", NoStep), ResetTasks>> /\ todo' = <<ResetTasks>>
        BY <1>1, <3>1, DagWriteLeft DEF RetryResumes
      <4>2. QED
        BY <4>1, TwoLeft, OthersStartNothing, Zenon
    <3>2. ASSUME NEW e \in Executors, WalkResumes(e)
          PROVE  /\ Head(todo) = DagWrite("resume", NoStep)
                 /\ ~ StartsStep(todo) /\ ~ StartsStep(todo')
      <4>1. /\ todo = <<DagWrite("resume", NoStep), ResetTasks, Choose(e)>>
            /\ todo' = <<ResetTasks, Choose(e)>>
        BY <1>1, <3>2, DagWriteLeft DEF WalkResumes
      <4>2. QED
        BY <4>1, ThreeLeft, OthersStartNothing, Zenon
    <3>3. QED
      BY <1>8, <3>1, <3>2
  <2>2. dag' = AfterDagWrite("resume", NoStep)
    BY <1>3, <2>1, Zenon
  <2>3. Resume
    BY <2>2 DEF AfterDagWrite, Resume
  <2>4. QED
    BY <1>1, <1>2, <2>1, <2>3, AttemptsKept, DagCountKept DEF Next
<1>9. ASSUME NEW e \in Executors, WalkRecovers(e)
      PROVE  (dag' = dag \/ Next) /\ Counted'
  <2>1. /\ todo = <<DagWrite("recover", NoStep), DagWrite("resume", NoStep), ResetTasks, Choose(e)>>
        /\ todo' = <<DagWrite("resume", NoStep), ResetTasks, Choose(e)>>
    BY <1>1, <1>9, DagWriteLeft DEF WalkRecovers
  <2>2. ~ StartsStep(todo) /\ ~ StartsStep(todo')
    BY <2>1, OthersStartNothing, Zenon
  <2>3. dag' = AfterDagWrite("recover", NoStep)
    BY <1>3, <2>1, FourLeft, Zenon
  <2>4. Recover
    BY <2>3 DEF AfterDagWrite, Recover
  <2>5. QED
    BY <1>1, <1>2, <2>2, <2>4, AttemptsKept, DagCountKept DEF Next
<1>10. QED
  BY <1>1, <1>4, <1>5, <1>6, <1>7, <1>8, <1>9, DagFirst DEF RowsInv

LEMMA ResetsTaskCounts == ASSUME RowsInv, DagInv, ResetsTask PROVE dag' = dag /\ Counted'
<1>1. /\ ~ Idle /\ Head(todo) = ResetTasks
      /\ runs' = runs /\ dag' = dag
      /\ todo' = todo \/ todo' = Tail(todo)
  BY Zenon DEF ResetsTask
<1>2. RetryResets \/ \E e \in Executors : WalkResets(e)
  BY <1>1, ResetFirst DEF RowsInv
<1>3. ~ StartsStep(todo) /\ ~ StartsStep(todo')
  <2>1. CASE RetryResets
    BY <1>1, <2>1, OneLeft, OthersStartNothing, Zenon DEF RetryResets
  <2>2. ASSUME NEW e \in Executors, WalkResets(e)
        PROVE  ~ StartsStep(todo) /\ ~ StartsStep(todo')
    BY <1>1, <2>2, TwoLeft, OthersStartNothing, Zenon DEF WalkResets
  <2>3. QED
    BY <1>2, <2>1, <2>2
<1>4. QED
  BY <1>1, <1>3, CountKeptIdly DEF DagInv, WellFormed, Attended, Counted

LEMMA RecoverRunRowsCounts ==
    ASSUME RowsInv, DagInv, RecoverRunRows
    PROVE  dag' = dag /\ Counted'
<1> DEFINE stale == {r \in Runs : runs[r].row = "running"}
<1>1. /\ ~ Idle /\ Head(todo) = RecoverRows /\ todo' = Tail(todo) /\ dag' = dag
      /\ runs' = [r \in Runs |->
                     IF r \in stale THEN [runs[r] EXCEPT !.row = "failed"] ELSE runs[r]]
  BY Zenon DEF RecoverRunRows
<1>2. /\ todo = <<RecoverRows, DagWrite("startup", NoStep)>>
      /\ todo' = <<DagWrite("startup", NoStep)>>
  <2>1. Recovering
    BY <1>1, RecoverFirst DEF RowsInv
  <2>2. QED
    BY <1>1, <2>1, TwoLeft, Zenon DEF Recovering
<1>3. "startup" # "start"
  OBVIOUS
<1>4. ~ StartsStep(todo) /\ ~ StartsStep(todo')
  BY <1>2, <1>3, OthersStartNothing, Zenon
<1>5. \A q \in Runs : runs'[q].step = runs[q].step /\ runs'[q].phase = runs[q].phase
  BY <1>1 DEF RowsInv, RowsTyped, RunRows
<1>6. QED
  BY <1>1, <1>4, <1>5, CountKeptIdly DEF DagInv, WellFormed, Attended, Counted

LEMMA RunReturnsCounts == ASSUME RowsInv, DagInv, RunReturns PROVE dag' = dag /\ Counted'
<1>1. PICK r \in Runs :
         /\ Head(todo) = Return(r)
         /\ runs' = [runs EXCEPT ![r].phase = "gone"]
         /\ \/ todo' = << >> /\ dag' = dag
            \/ /\ dag' = RecomputeReadiness(dag)
               /\ \E e \in Executors : ExecutorContinues(e, r)
  BY Zenon DEF RunReturns
<1>2. ~ Idle
  BY Zenon DEF RunReturns
<1>3. Attended(r) /\ Returning(r)
  BY <1>1, <1>2, ReturnFirst DEF RowsInv
<1>4. dag' = dag
  BY <1>1, RecomputeNothing DEF DagInv
<1>5. "gone" \in Phases
  BY DEF Phases
<1>6. /\ runs'[r].phase = "gone"
      /\ \A q \in Runs : q # r => runs'[q] = runs[q]
      /\ \A q \in Runs : runs'[q].step = runs[q].step
  BY <1>1, <1>5, PhaseSet DEF RowsInv
<1>7. ~ StartsStep(todo)
  BY <1>3, OthersStartNothing, Zenon DEF Returning
<1>8. ~ StartsStep(todo')
  <2>1. \/ todo' = << >>
        \/ \E e \in Executors : todo' = <<Choose(e)>>
        \/ todo' = <<DagWrite("resume", NoStep), ResetTasks>>
    BY <1>1, Zenon DEF ExecutorContinues
  <2>2. QED
    BY <2>1, OthersStartNothing, Zenon
<1>9. QED
  BY <1>4, <1>6, <1>7, <1>8, CountKeptIdly DEF DagInv, WellFormed, Attended, Counted

LEMMA BeginCounts ==
    ASSUME RowsInv, DagInv, dag' = dag, ~ StartsStep(todo),
           NEW r \in Runs, NEW s \in Steps, NEW caller \in Executors \cup {Api},
           BeginTaskRun(r, s, caller),
           todo' = IF s \in AwaitingSteps THEN << >> ELSE LaunchWrites(r, s)
    PROVE  Counted'
<1>1. /\ runs[r].phase = "free" /\ runs'[r].step = s
      /\ runs'[r].phase = IF s \in AwaitingSteps THEN "prelude" ELSE "live"
      /\ \A q \in Runs : q # r => runs'[q] = runs[q]
  BY Begins DEF RowsInv
<1>2. dag \in DagRows /\ StartsCounted /\ AttendedIsStarted
  BY DEF DagInv, WellFormed
<1>3. CASE s \notin AwaitingSteps
  <2>1. runs'[r].phase = "live" /\ todo' = LaunchWrites(r, runs'[r].step)
    BY <1>1, <1>3, Zenon
  <2>2. QED
    BY <1>1, <1>2, <2>1, CountLaunch DEF Counted
<1>4. CASE s \in AwaitingSteps
  <2>1. runs'[r].phase = "prelude" /\ ~ StartsStep(todo')
    BY <1>1, <1>4, OthersStartNothing, Zenon
  <2>2. Launched' = Launched
    BY <1>1, <2>1 DEF Launched
  <2>3. \A q \in Runs : ~ Launching(q) /\ ~ Launching(q)'
    BY <2>1, LaunchingStarts, LaunchingStartsNext
  <2>4. StartsCounted'
    BY <1>2, <2>2, <2>3 DEF StartsCounted, SomeLaunching
  <2>5. AttendedIsStarted'
    BY <1>1, <1>2, <2>1, <2>3 DEF AttendedIsStarted, Attended, StepOf
  <2>6. QED
    BY <2>4, <2>5 DEF Counted
<1>5. QED
  BY <1>3, <1>4

LEMMA ChoosesCounts ==
    ASSUME RowsInv, DagInv, NEW e \in Executors, ExecutorChooses(e)
    PROVE  dag' = dag /\ Counted'
<1>1. /\ ~ Idle /\ Head(todo) = Choose(e)
      /\ dag' = RecomputeReadiness(dag)
      /\ \/ StopWalking(e)
         \/ \E s \in Steps, r \in Runs :
               /\ BeginTaskRun(r, s, e)
               /\ todo' = IF s \in AwaitingSteps THEN << >> ELSE LaunchWrites(r, s)
  BY Zenon DEF ExecutorChooses
<1>2. dag' = dag
  BY <1>1, RecomputeNothing DEF DagInv
<1>3. ~ StartsStep(todo)
  <2>1. todo = <<Choose(e)>>
    BY <1>1, ChooseFirst DEF RowsInv, WalkChooses
  <2>2. QED
    BY <2>1, OthersStartNothing, Zenon
<1>4. CASE StopWalking(e)
  <2>1. todo' = << >> /\ runs' = runs
    BY <1>4 DEF StopWalking
  <2>2. ~ StartsStep(todo')
    BY <2>1, OthersStartNothing, Zenon
  <2>3. QED
    BY <1>2, <1>3, <2>1, <2>2, CountKeptIdly DEF DagInv, WellFormed, Attended, Counted
<1>5. CASE ~ StopWalking(e)
  BY <1>1, <1>2, <1>3, <1>5, BeginCounts
<1>6. QED
  BY <1>4, <1>5

(* Outside a section: the steps that begin with an empty todo. *)
LEMMA IdleStartsNothing == ASSUME Idle PROVE ~ StartsStep(todo)
  BY OthersStartNothing, Zenon DEF Idle

LEMMA RunStepCounts ==
    ASSUME RowsInv, DagInv, NEW r \in Runs, RunStep(r)
    PROVE  dag' = dag /\ Counted'
<1>1. dag \in DagRows /\ StartsCounted /\ AttendedIsStarted
  BY DEF DagInv, WellFormed
<1>2. CASE PreludeEnds(r)
  <2>1. /\ Idle /\ runs[r].phase = "prelude" /\ dag' = dag
        /\ runs' = [runs EXCEPT ![r].phase = "live"]
        /\ todo' = LaunchWrites(r, runs[r].step)
    BY <1>2, Zenon DEF PreludeEnds
  <2>2. "live" \in Phases
    BY DEF Phases
  <2>3. /\ runs'[r].phase = "live" /\ runs'[r].step = runs[r].step
        /\ \A q \in Runs : q # r => runs'[q] = runs[q]
    BY <2>1, <2>2, PhaseSet DEF RowsInv
  <2>4. todo' = LaunchWrites(r, runs'[r].step)
    BY <2>1, <2>3, Zenon
  <2>5. QED
    BY <1>1, <2>1, <2>3, <2>4, IdleStartsNothing, CountLaunch DEF Counted
<1>3. CASE PreludeFails(r)
  <2>1. /\ Idle /\ runs[r].phase = "prelude" /\ dag' = dag /\ todo' = todo
        /\ runs' = [runs EXCEPT ![r].phase = "gone"]
    BY <1>3, Zenon DEF PreludeFails
  <2>2. "gone" \in Phases
    BY DEF Phases
  <2>3. /\ runs'[r].phase = "gone" /\ \A q \in Runs : runs'[q].step = runs[q].step
        /\ \A q \in Runs : q # r => runs'[q] = runs[q]
    BY <2>1, <2>2, PhaseSet DEF RowsInv
  <2>4. QED
    BY <1>1, <2>1, <2>3, IdleStartsNothing, CountKeptIdly DEF Attended, Counted
<1>4. ASSUME NEW s, Idle,
             \/ Ends(CompleteTaskRun(r, s)) \/ Ends(FailTaskRun(r, s))
             \/ Ends(StopTaskRunByLimit(r, s)) \/ Ends(CancelTaskRun(r, s))
      PROVE  dag' = dag /\ Counted'
  <2>1. dag' = dag /\ runs' = runs
    BY <1>4, Zenon DEF Ends
  <2>2. ~ StartsStep(todo')
    BY <1>4, OthersStartNothing, Zenon
       DEF Ends, CompleteTaskRun, FailTaskRun, StopTaskRunByLimit, CancelTaskRun
  <2>3. QED
    BY <1>1, <1>4, <2>1, <2>2, IdleStartsNothing, CountKeptIdly DEF Attended, Counted
<1>5. ASSUME Idle, AwaitsMemory(r) PROVE dag' = dag /\ Counted'
  <2>1. /\ runs[r].phase = "live" /\ dag' = dag /\ todo' = todo
        /\ runs' = [runs EXCEPT ![r].phase = "memory"]
    BY <1>5, Zenon DEF AwaitsMemory
  <2>2. "memory" \in Phases
    BY DEF Phases
  <2>3. /\ runs'[r].phase = "memory" /\ \A q \in Runs : runs'[q].step = runs[q].step
        /\ \A q \in Runs : q # r => runs'[q] = runs[q]
    BY <2>1, <2>2, PhaseSet DEF RowsInv
  <2>4. QED
    BY <1>1, <1>5, <2>1, <2>3, IdleStartsNothing, CountKeptIdly DEF Attended, Counted
<1>6. CASE ChildCloses(r) \/ ChildErrors(r) \/ HttpAnswers(r) \/ MemoryServed(r)
  <2>1. Idle
    BY <1>6, Zenon DEF ChildCloses, ChildErrors, HttpAnswers, MemoryServed
  <2>2. \/ AwaitsMemory(r)
        \/ Ends(CompleteTaskRun(r, runs[r].step)) \/ Ends(FailTaskRun(r, runs[r].step))
        \/ Ends(StopTaskRunByLimit(r, runs[r].step)) \/ Ends(CancelTaskRun(r, runs[r].step))
    BY <1>6, Zenon DEF ChildCloses, ChildErrors, HttpAnswers, MemoryServed, Succeeds
  <2>3. QED
    BY <1>4, <1>5, <2>1, <2>2
<1>7. QED
  BY <1>2, <1>3, <1>6 DEF RunStep

LEMMA CancelsRunCounts ==
    ASSUME RowsInv, DagInv, NEW r \in Runs, ApiCancelsRun(r)
    PROVE  dag' = dag /\ Counted'
<1>1. /\ Idle /\ dag' = dag
      /\ runs' = [runs EXCEPT ![r].cancellationRequested = TRUE]
      /\ \/ todo' = <<TaskWrite(runs[r].step, "cancelled")>>
         \/ todo' = <<TaskWrite(runs[r].step, "cancelled"), RowWrite(r, "cancelled"),
                      DagWrite("cancel", runs[r].step)>>
  BY Zenon DEF ApiCancelsRun, CancelActiveRun
<1>2. "cancel" # "start"
  OBVIOUS
<1>3. ~ StartsStep(todo')
  BY <1>1, <1>2, OthersStartNothing, Zenon
<1>4. \A q \in Runs : runs'[q].step = runs[q].step /\ runs'[q].phase = runs[q].phase
  BY <1>1, CancellationSet DEF RowsInv
<1>5. QED
  BY <1>1, <1>3, <1>4, IdleStartsNothing, CountKeptIdly
     DEF DagInv, WellFormed, Attended, Counted

LEMMA PeopleCount ==
    ASSUME RowsInv, DagInv, NEW s \in Steps, ApiRunsTask(s) \/ ApiReadiesTask(s)
    PROVE  dag' = dag /\ Counted'
<1>1. Idle /\ dag' = dag
  BY Zenon DEF ApiRunsTask, ApiReadiesTask
<1>2. CASE ApiRunsTask(s)
  BY <1>1, <1>2, IdleStartsNothing, BeginCounts DEF ApiRunsTask
<1>3. CASE ApiReadiesTask(s)
  <2>1. runs' = runs /\ todo' = todo
    BY <1>3, Zenon DEF ApiReadiesTask
  <2>2. QED
    BY <1>1, <2>1, IdleStartsNothing, CountKeptIdly DEF DagInv, WellFormed, Attended, Counted
<1>4. QED
  BY <1>2, <1>3

LEMMA ExecutorCounts ==
    ASSUME RowsInv, DagInv, NEW e \in Executors,
           ExecutorExecutes(e) \/ ExecutorResumes(e) \/ BackoffEnds(e)
    PROVE  dag' = dag /\ Counted'
<1>1. /\ Idle /\ dag' = dag /\ runs' = runs
      /\ \/ todo' = <<Choose(e)>>
         \/ todo' = <<DagWrite("recover", NoStep), DagWrite("resume", NoStep), ResetTasks,
                      Choose(e)>>
  BY Zenon DEF ExecutorExecutes, ExecutorResumes, BackoffEnds
<1>2. ~ StartsStep(todo')
  BY <1>1, OthersStartNothing, Zenon
<1>3. QED
  BY <1>1, <1>2, IdleStartsNothing, CountKeptIdly DEF DagInv, WellFormed, Attended, Counted

LEMMA CrashCounts == ASSUME RowsInv, DagInv, Crash PROVE dag' = dag /\ Counted'
<1>1. /\ dag' = dag
      /\ runs' = [r \in Runs |->
                    IF runs[r].phase = "free" THEN runs[r]
                    ELSE [runs[r] EXCEPT !.phase = "gone"]]
      /\ todo' = <<RecoverRows, DagWrite("startup", NoStep)>>
  BY Zenon DEF Crash
<1>2. \A q \in Runs : /\ runs'[q].phase = IF runs[q].phase = "free" THEN "free" ELSE "gone"
                      /\ runs'[q].step = runs[q].step
  BY <1>1 DEF RowsInv, RowsTyped, RunRows
<1>3. \A q \in Runs : ~ Attended(q)'
  BY <1>2 DEF Attended
<1>4. ~ SomeLaunching'
  BY <1>3 DEF SomeLaunching, Launching
<1>5. dag \in DagRows
  BY DEF DagInv, WellFormed
<1>6. QED
  BY <1>1, <1>2, <1>3, <1>4, <1>5, CountKept DEF DagInv, Counted

LEMMA InitDag == ASSUME ExecutionInit PROVE DagInv
<1>1. Init /\ runs = [r \in Runs |-> FreeRun]
  BY Zenon DEF ExecutionInit
<1>2. WellFormed(dag) /\ Recomputed(dag)
  BY <1>1, InitWellFormed, InitRecomputed
<1>3. \A r \in Runs : ~ Attended(r)
  BY <1>1 DEF FreeRun, Attended
<1>4. \A s \in Steps : dag.attempt[s] = 0
  BY <1>1 DEF Init, CreatedRun
<1>5. Cardinality(Launched) \in Nat
  BY RunSets DEF Launched
<1>6. StartsCounted
  BY <1>3, <1>4, <1>5 DEF StartsCounted, SomeLaunching, Launching
<1>7. QED
  BY <1>2, <1>3, <1>6 DEF DagInv, AttendedIsStarted

(* Every step of the system is a step of WorkflowDag or leaves the DAG     *)
(* rows alone, and keeps count.                                            *)
LEMMA NextCounts ==
    ASSUME RowsInv, DagInv, [ExecutionNext]_vars
    PROVE  [Next]_dag /\ Counted'
<1>1. CASE Section
  BY <1>1, WriteTaskCounts, WriteRowCounts, WriteDagCounts, ResetsTaskCounts,
     RecoverRunRowsCounts, RunReturnsCounts, ChoosesCounts DEF Section
<1>2. ASSUME NEW r \in Runs, RunStep(r) \/ ApiCancelsRun(r) PROVE dag' = dag /\ Counted'
  BY <1>2, RunStepCounts, CancelsRunCounts
<1>3. ASSUME NEW s \in Steps, ApiRunsTask(s) \/ ApiReadiesTask(s)
      PROVE  dag' = dag /\ Counted'
  BY <1>3, PeopleCount
<1>4. ASSUME NEW e \in Executors, ExecutorExecutes(e) \/ ExecutorResumes(e) \/ BackoffEnds(e)
      PROVE  dag' = dag /\ Counted'
  BY <1>4, ExecutorCounts
<1>5. CASE Crash
  BY <1>5, CrashCounts
<1>6. CASE UNCHANGED vars
  <2>1. /\ dag \in DagRows /\ StartsCounted /\ AttendedIsStarted
        /\ dag' = dag /\ runs' = runs /\ todo' = todo
    BY <1>6 DEF DagInv, WellFormed, vars
  <2>2. \A r \in Runs : Launching(r)' <=> Launching(r)
    BY <2>1 DEF Launching, LaunchingRow, LaunchingTask, LaunchingStep, Attended, StepOf
  <2>3. SomeLaunching' => SomeLaunching
    BY <2>2 DEF SomeLaunching
  <2>4. QED
    BY <2>1, <2>2, <2>3, CountKept DEF Attended, Counted
<1>7. QED
  BY <1>1, <1>2, <1>3, <1>4, <1>5, <1>6 DEF ExecutionNext

LEMMA NextDag ==
    ASSUME RowsInv, DagInv, [ExecutionNext]_vars
    PROVE  [Next]_dag /\ DagInv'
<1>1. [Next]_dag /\ Counted'
  BY NextCounts
<1>2. WellFormed(dag) /\ Recomputed(dag)
  BY DEF DagInv
<1>3. WellFormed(dag') /\ Recomputed(dag')
  BY <1>1, <1>2, NextUpdates, UpdatesWellFormed DEF Updates
<1>4. QED
  BY <1>1, <1>3 DEF DagInv, Counted

LEMMA ExecutionInvariance == ExecutionSpec => [](RowsInv /\ DagInv)
  BY InitRows, InitDag, NextRows, NextDag, PTL DEF ExecutionSpec

(* Executors, people, children and crashes, in any order, only ever do to  *)
(* the DAG rows what some caller of WorkflowDag may do: no step is ended   *)
(* that was never started.                                                 *)
THEOREM ExecutionKeepsToTheDag == ExecutionSpec => Spec
<1>1. ExecutionInit => Init
  BY Zenon DEF ExecutionInit
<1>2. QED
  BY <1>1, ExecutionInvariance, NextDag, PTL DEF ExecutionSpec, Spec

(* Hence what holds of the DAG rows under any caller holds here.           *)
THEOREM ExecutionCompletesExactly == ExecutionSpec => []CompletedExact
  BY ExecutionKeepsToTheDag, CompletedIsExact, PTL

THEOREM ExecutionAttemptsAgree == ExecutionSpec => []LatestAttemptAgrees
  BY ExecutionKeepsToTheDag, LatestAttemptIsTheStep, PTL

(* Between two sections no run row and no task reads running without a     *)
(* call that will end it, whatever crashed or raced before.                *)
THEOREM NoZombies == ExecutionSpec => []ExecutionInv
<1>1. RowsInv /\ DagInv => ExecutionInv
  <2> SUFFICES ASSUME RowsInv, DagInv PROVE ExecutionInv
    OBVIOUS
  <2>1. ExecutionTypeOK
    BY DEF RowsInv, RowsTyped, RunRows, DagInv, WellFormed, TypeOK, ExecutionTypeOK
  <2>2. NoZombieRun
    BY NotRecovering DEF RowsInv, RunningIsAttended, NoZombieRun
  <2>3. NoZombieTask
    <3> SUFFICES ASSUME Idle, NEW s \in Steps, task[s] = "running"
                 PROVE  AttendedRuns(s) # {}
      BY DEF NoZombieTask
    <3>1. PICK r \in Runs : StepOf(r) = s /\ runs[r].row = "running"
      BY DEF RowsInv, RunningTaskHasRow
    <3>2. Attended(r)
      BY <3>1, NotRecovering DEF RowsInv, RunningIsAttended
    <3>3. QED
      BY <3>1, <3>2 DEF AttendedRuns, StepOf
  <2>4. QED
    BY <2>1, <2>2, <2>3 DEF ExecutionInv
<1>2. QED
  BY ExecutionInvariance, <1>1, PTL
-----------------------------------------------------------------------------
(***************************************************************************)
(* One executor whom nobody interferes with.  Either no task run is out,   *)
(* or there is one, which the walking executor awaits; and what the DAG    *)
(* rows say about running steps goes with where its section stands.        *)
(***************************************************************************)
Solo == ~ ApiUsers /\ \A e, f \in Executors : e = f

Busy(r) == runs[r].phase \in {"prelude", "live", "memory"}
NoneOut == \A r \in Runs : ~ Busy(r)
OnlyOut(r) == \A q \in Runs : Busy(q) <=> q = r

NoneRunning == \A s \in Steps : ~ Running(s)
OnlyRunning(s) == \A t \in Steps : Running(t) <=> t = s

Walks(e) == exec[e] = "walking" /\ Walking(e)

Resting == /\ NoneOut
           /\ \/ Recovering \/ StartingUp
              \/ /\ NoneRunning
                 /\ Idle \/ RetryResumes \/ RetryResets \/ \E e \in Executors : Walks(e)

AboutToStart(r) == /\ Selectable(StepOf(r)) /\ NoneRunning
                   /\ \/ Idle /\ runs[r].phase = "prelude"
                      \/ Launching(r)

EndingSoon(r) == \E end \in Endings : EndingTask(r, end) \/ EndingRow(r, end) \/ EndingStep(r, end)

AtWork(r) == /\ Attended(r) /\ OnlyRunning(StepOf(r))
             /\ Idle \/ EndingSoon(r)

Back(r) == Attended(r) /\ Returning(r) /\ NoneRunning

Awaited(r) == \E e \in Executors : runs[r].by = e /\ exec[e] = "walking"

Out(r) == /\ OnlyOut(r) /\ Awaited(r)
          /\ AboutToStart(r) \/ AtWork(r) \/ Back(r)

SoloInv == /\ Resting \/ \E r \in Runs : Out(r)
           /\ NoneRunning \/ dag.status = "running"
           /\ \A r \in Runs : ~ runs[r].cancellationRequested

(* What the rows of runs and of the DAG say is the same before and after.  *)
SameOut == /\ exec' = exec
           /\ \A q \in Runs : /\ runs'[q].phase = runs[q].phase
                              /\ runs'[q].step = runs[q].step
                              /\ runs'[q].by = runs[q].by
                              /\ runs'[q].cancellationRequested = runs[q].cancellationRequested

LEMMA OutKept ==
    ASSUME SameOut
    PROVE  /\ NoneOut => NoneOut'
           /\ \A r \in Runs : /\ StepOf(r)' = StepOf(r)
                              /\ Attended(r) => Attended(r)'
                              /\ OnlyOut(r) => OnlyOut(r)'
                              /\ Awaited(r) => Awaited(r)'
  BY DEF SameOut, NoneOut, OnlyOut, Awaited, Busy, Attended, StepOf

LEMMA DagKept ==
    ASSUME dag' = dag
    PROVE  /\ NoneRunning' <=> NoneRunning
           /\ \A s \in Steps : /\ OnlyRunning(s)' <=> OnlyRunning(s)
                               /\ Selectable(s)' <=> Selectable(s)
  BY DEF NoneRunning, OnlyRunning, Selectable, Running

(* Where the section stands when no task run is out, and when one is.      *)
LEMMA RestingKinds ==
    ASSUME Resting
    PROVE  /\ ~ Idle => FirstKind \in {"recover rows", "dag", "reset tasks", "choose"}
           /\ ~ Idle /\ FirstKind = "dag" =>
                 \/ StartingUp
                 \/ NoneRunning /\ (RetryResumes \/ \E e \in Executors :
                                       Walks(e) /\ (WalkRecovers(e) \/ WalkResumes(e)))
           /\ ~ Idle /\ FirstKind = "reset tasks" =>
                 NoneRunning /\ (RetryResets \/ \E e \in Executors : Walks(e) /\ WalkResets(e))
           /\ ~ Idle /\ FirstKind = "choose" =>
                 NoneRunning /\ \E e \in Executors : Walks(e) /\ WalkChooses(e)
  BY OtherKinds, WalkingKinds DEF Resting, Walks, Walking

LEMMA OutKinds ==
    ASSUME NEW r \in Runs, Out(r)
    PROVE  /\ ~ Idle => FirstKind \in {"row", "task", "dag", "return"}
           /\ ~ Idle /\ FirstKind = "task" =>
                 \/ AboutToStart(r) /\ Attended(r) /\ LaunchingTask(r)
                 \/ AtWork(r) /\ \E end \in Endings : EndingTask(r, end)
           /\ ~ Idle /\ FirstKind = "row" =>
                 \/ AboutToStart(r) /\ Attended(r) /\ LaunchingRow(r)
                 \/ AtWork(r) /\ \E end \in Endings : EndingRow(r, end)
           /\ ~ Idle /\ FirstKind = "dag" =>
                 \/ AboutToStart(r) /\ Attended(r) /\ LaunchingStep(r)
                 \/ AtWork(r) /\ \E end \in Endings : EndingStep(r, end)
           /\ ~ Idle /\ FirstKind = "return" => Back(r)
<1>1. CASE AboutToStart(r)
  BY <1>1, LaunchingKinds DEF AboutToStart, Launching
<1>2. CASE AtWork(r)
  BY <1>2, EndingKinds DEF AtWork, EndingSoon
<1>3. CASE Back(r)
  BY <1>3, ReturningKind DEF Back
<1>4. QED
  BY <1>1, <1>2, <1>3 DEF Out


LEMMA SoloWriteTask ==
    ASSUME RowsInv, SoloInv, WriteTask
    PROVE  SoloInv'
<1>1. /\ ~ Idle /\ FirstKind = "task"
      /\ task' = [task EXCEPT ![Head(todo).step] = Head(todo).to]
      /\ todo' = Tail(todo)
      /\ runs' = runs /\ exec' = exec /\ dag' = dag
  BY Zenon DEF WriteTask, FirstKind
<1>2. PICK r \in Runs : Out(r)
  BY <1>1, RestingKinds DEF SoloInv
<1>3. SameOut
  BY <1>1 DEF SameOut
<1>4. StepOf(r) \in Steps
  BY <1>2 DEF RowsInv, Begun, Out, OnlyOut, Busy
<1>5. CASE AboutToStart(r) /\ Attended(r) /\ LaunchingTask(r)
  <2>1. todo' = <<DagWrite("start", StepOf(r))>>
    BY <1>1, <1>5, TaskWriteLeft
  <2>2. Launching(r)'
    BY <1>3, <1>5, <2>1, OutKept DEF Launching, LaunchingStep
  <2>3. AboutToStart(r)'
    BY <1>1, <1>3, <1>4, <1>5, <2>2, OutKept, DagKept DEF AboutToStart
  <2>4. QED
    BY <1>1, <1>2, <1>3, <2>3, OutKept, DagKept DEF Out, SoloInv
<1>6. CASE AtWork(r) /\ \E end \in Endings : EndingTask(r, end)
  <2>1. PICK end \in Endings : EndingTask(r, end)
    BY <1>6
  <2>2. /\ task' = [task EXCEPT ![StepOf(r)] = end[1]]
        /\ todo' = <<RowWrite(r, end[2]), DagWrite(end[3], StepOf(r)), Return(r)>>
    BY <1>1, <2>1, TaskWriteLeft, TaskWritten, Zenon
  <2>3. task'[StepOf(r)] # "running"
    BY <1>4, <2>2, EndingsTyped DEF RowsInv, RowsTyped
  <2>4. EndingRow(r, end)'
    BY <1>1, <1>3, <2>1, <2>2, <2>3, OutKept DEF EndingRow, EndingTask
  <2>5. AtWork(r)'
    BY <1>1, <1>3, <1>4, <1>6, <2>4, OutKept, DagKept DEF AtWork, EndingSoon
  <2>6. QED
    BY <1>1, <1>2, <1>3, <2>5, OutKept, DagKept DEF Out, SoloInv
<1>7. QED
  BY <1>1, <1>2, <1>5, <1>6, OutKinds

LEMMA SoloWriteRow ==
    ASSUME RowsInv, SoloInv, WriteRow
    PROVE  SoloInv'
<1>1. /\ ~ Idle /\ FirstKind = "row"
      /\ todo' = Tail(todo)
      /\ task' = task /\ exec' = exec /\ dag' = dag
  BY Zenon DEF WriteRow, FirstKind
<1>2. PICK r \in Runs : Out(r)
  BY <1>1, RestingKinds DEF SoloInv
<1>3. StepOf(r) \in Steps
  BY <1>2 DEF RowsInv, Begun, Out, OnlyOut, Busy
<1>4. ASSUME NEW to \in RowStatuses, Head(todo) = RowWrite(r, to)
      PROVE  SameOut /\ runs'[r].row = to
  <2>1. runs' = [runs EXCEPT ![r].row = to]
    BY <1>4, RowWritten
  <2>2. QED
    BY <1>1, <2>1, RowSet DEF RowsInv, SameOut
<1>5. CASE AboutToStart(r) /\ Attended(r) /\ LaunchingRow(r)
  <2>1. /\ Head(todo) = RowWrite(r, "running")
        /\ todo' = <<TaskWrite(StepOf(r), "running"), DagWrite("start", StepOf(r))>>
    BY <1>1, <1>5, RowWriteLeft
  <2>2. SameOut /\ runs'[r].row = "running"
    BY <1>4, <2>1 DEF RowStatuses
  <2>3. Launching(r)'
    BY <1>5, <2>1, <2>2, OutKept DEF Launching, LaunchingTask
  <2>4. AboutToStart(r)'
    BY <1>1, <1>3, <1>5, <2>2, <2>3, OutKept, DagKept DEF AboutToStart
  <2>5. QED
    BY <1>1, <1>2, <2>2, <2>4, OutKept, DagKept DEF Out, SoloInv, SameOut
<1>6. CASE AtWork(r) /\ \E end \in Endings : EndingRow(r, end)
  <2>1. PICK end \in Endings : EndingRow(r, end)
    BY <1>6
  <2>2. /\ Head(todo) = RowWrite(r, end[2])
        /\ todo' = <<DagWrite(end[3], StepOf(r)), Return(r)>>
    BY <1>1, <2>1, RowWriteLeft
  <2>3. SameOut /\ runs'[r].row # "running"
    BY <1>4, <2>2, EndingsTyped
  <2>4. EndingStep(r, end)'
    BY <2>2, <2>3, OutKept DEF EndingStep
  <2>5. AtWork(r)'
    BY <1>1, <1>3, <1>6, <2>3, <2>4, OutKept, DagKept DEF AtWork, EndingSoon
  <2>6. QED
    BY <1>1, <1>2, <2>3, <2>5, OutKept, DagKept DEF Out, SoloInv, SameOut
<1>7. QED
  BY <1>1, <1>2, <1>5, <1>6, OutKinds

(* The DAG rows after a write, as far as running steps are concerned.      *)
LEMMA StartsIt ==
    ASSUME WellFormed(dag), NoneRunning, NEW s \in Steps, dag' = StartStep(dag, s)
    PROVE  OnlyRunning(s)' /\ dag'.status = "running"
<1>1. dag \in DagRows
  BY DEF WellFormed
<1>2. dag'.status = "running" /\ dag'.step = [dag.step EXCEPT ![s] = "running"]
  BY <1>1, StartStepColumns DEF Becomes
<1>3. dag.step \in [Steps -> StepStatuses]
  BY <1>1 DEF DagRows
<1>4. QED
  BY <1>2, <1>3 DEF NoneRunning, OnlyRunning, Running

LEMMA EndsIt ==
    ASSUME WellFormed(dag), NEW s \in Steps, OnlyRunning(s), Complete(s) \/ Fail(s) \/ Cancel(s)
    PROVE  NoneRunning'
<1>1. dag \in DagRows
  BY DEF WellFormed
<1>2. dag.step \in [Steps -> StepStatuses] /\ dag.step[s] = "running"
  BY <1>1 DEF DagRows, OnlyRunning, Running
<1>3. \E status \in {"completed", "failed", "cancelled"} :
         dag'.step = [dag.step EXCEPT ![s] = status]
  <2>1. CASE Complete(s)
    BY <1>1, <2>1, CompleteStepColumns DEF Complete, Becomes
  <2>2. CASE Fail(s)
    BY <1>1, <2>2, FailStepColumns DEF Fail, Becomes
  <2>3. CASE Cancel(s)
    BY <1>1, <1>2, <2>3, CancelStepColumns DEF Cancel, Becomes
  <2>4. QED
    BY <2>1, <2>2, <2>3
<1>4. QED
  BY <1>2, <1>3 DEF NoneRunning, OnlyRunning, Running

LEMMA StartupEndsAll ==
    ASSUME WellFormed(dag), NoneRunning \/ dag.status = "running", dag' = StartupRecovery(dag)
    PROVE  NoneRunning' /\ (dag' = dag \/ Recover)
<1>1. dag \in DagRows
  BY DEF WellFormed
<1>2. CASE NoneRunning
  <2>1. RunningSteps(dag) = {}
    BY <1>2 DEF NoneRunning, Running, RunningSteps
  <2>2. dag' = dag
    BY <2>1 DEF StartupRecovery, RecoverStaleRunningSteps
  <2>3. QED
    BY <1>2, <2>2, DagKept
<1>3. CASE ~ NoneRunning
  <2>1. RunningSteps(dag) # {}
    BY <1>3 DEF NoneRunning, Running, RunningSteps
  <2>2. dag' = RecoverStaleRunningSteps(dag)
    BY <1>3 DEF StartupRecovery
  <2>3. dag'.step = [s \in Steps |-> IF s \in RunningSteps(dag) THEN "failed" ELSE dag.step[s]]
    BY <1>1, <2>1, <2>2, RecoverColumns DEF Becomes
  <2>4. QED
    BY <2>2, <2>3 DEF NoneRunning, Running, RunningSteps, Recover
<1>4. QED
  BY <1>2, <1>3

LEMMA RecoverNothing ==
    ASSUME NoneRunning, dag' = RecoverStaleRunningSteps(dag)
    PROVE  NoneRunning' /\ dag' = dag
<1>1. RunningSteps(dag) = {}
  BY DEF NoneRunning, Running, RunningSteps
<1>2. dag' = dag
  BY <1>1 DEF RecoverStaleRunningSteps
<1>3. QED
  BY <1>2, DagKept

LEMMA ResumeStartsNothing ==
    ASSUME WellFormed(dag), NoneRunning, dag' = ResumeFromFirstFailedStep(dag)
    PROVE  NoneRunning' /\ Resume
<1>1. dag \in DagRows
  BY DEF WellFormed
<1>2. CASE FailedSteps(dag) = {}
  <2>1. dag'.step = dag.step
    BY <1>1, <1>2, DagRowsHaveColumns, RecomputeReadinessColumns
       DEF ResumeFromFirstFailedStep, Becomes
  <2>2. QED
    BY <2>1 DEF NoneRunning, Running, Resume
<1>3. CASE FailedSteps(dag) # {}
  <2>1. dag'.step = [s \in Steps |-> IF s \in Affected(dag) THEN "pending" ELSE dag.step[s]]
    BY <1>1, <1>3, ResumeColumns DEF Becomes
  <2>2. QED
    BY <2>1 DEF NoneRunning, Running, Resume
<1>4. QED
  BY <1>2, <1>3

(* The bound on attempts never stands in the way of a launch.              *)
LEMMA AttemptsLeft ==
    ASSUME RowsInv, DagInv, NEW r \in Runs, Launching(r), NEW s \in Steps
    PROVE  dag.attempt[s] < MaxAttempts
<1>1. dag.attempt \in [Steps -> 0 .. MaxAttempts]
  BY DEF DagInv, WellFormed, DagRows
<1>2. Cardinality(Launched) \in Nat /\ Cardinality(Launched) <= MaxRuns
  BY RunSets DEF Launched
<1>3. dag.attempt[s] < Cardinality(Launched)
  BY DEF DagInv, StartsCounted, SomeLaunching
<1>4. QED
  BY <1>1, <1>2, <1>3, ExecutionAssumption, MaxAttemptsAssumption

LEMMA SoloWriteDag ==
    ASSUME RowsInv, DagInv, SoloInv, WriteDag
    PROVE  SoloInv' /\ (dag' = dag \/ DisciplinedNext)
<1>1. /\ ~ Idle /\ FirstKind = "dag"
      /\ todo' = Tail(todo)
      /\ task' = task /\ runs' = runs /\ exec' = exec
  BY Zenon DEF WriteDag, FirstKind
<1>2. \A op, s : Head(todo) = DagWrite(op, s) => dag' = AfterDagWrite(op, s)
  BY DagWritten
<1>3. SameOut
  BY <1>1 DEF SameOut
<1>4. WellFormed(dag)
  BY DEF DagInv
<1>5. ASSUME NEW r \in Runs, Out(r)
      PROVE  SoloInv' /\ (dag' = dag \/ DisciplinedNext)
  <2>1. StepOf(r) \in Steps
    BY <1>5 DEF RowsInv, Begun, Out, OnlyOut, Busy
  <2>2. CASE AboutToStart(r) /\ Attended(r) /\ LaunchingStep(r)
    <3>1. Head(todo) = DagWrite("start", StepOf(r)) /\ todo' = << >>
      BY <1>1, <2>2, OneLeft, Zenon DEF LaunchingStep
    <3>2. dag' = StartStep(dag, StepOf(r))
      <4>1. dag' = AfterDagWrite("start", StepOf(r))
        BY <1>2, <3>1, Zenon
      <4>2. QED
        BY <4>1 DEF AfterDagWrite
    <3>3. OnlyRunning(StepOf(r))' /\ dag'.status = "running"
      <4>1. NoneRunning
        BY <2>2 DEF AboutToStart
      <4>2. StepOf(r)' = StepOf(r)
        BY <1>3, OutKept
      <4>3. \A s \in Steps : dag' = StartStep(dag, s) => OnlyRunning(s)' /\ dag'.status = "running"
        BY <1>4, <4>1, StartsIt
      <4>4. QED
        BY <2>1, <3>2, <4>2, <4>3
    <3>4. AtWork(r)'
      BY <1>3, <2>2, <3>1, <3>3, OutKept DEF AtWork, Idle, OnlyRunning, Running
    <3>5. SoloInv'
      BY <1>1, <1>3, <1>5, <3>3, <3>4, OutKept DEF Out, SoloInv
    <3>6. dag.attempt[StepOf(r)] < MaxAttempts
      BY <2>1, <2>2, AttemptsLeft DEF Launching
    <3>7. DisciplinedNext
      BY <2>1, <2>2, <3>2, <3>6 DEF DisciplinedNext, Start, AboutToStart
    <3>8. QED
      BY <3>5, <3>7
  <2>3. CASE AtWork(r) /\ \E end \in Endings : EndingStep(r, end)
    <3>1. PICK end \in Endings : EndingStep(r, end)
      BY <2>3
    <3>2. Head(todo) = DagWrite(end[3], StepOf(r)) /\ todo' = <<Return(r)>>
      BY <1>1, <3>1, TwoLeft, Zenon DEF EndingStep
    <3>3. Complete(StepOf(r)) \/ Fail(StepOf(r)) \/ Cancel(StepOf(r))
      <4>1. dag' = AfterDagWrite(end[3], StepOf(r))
        BY <1>2, <3>2, Zenon
      <4>2. QED
        BY <4>1, EndingsTyped DEF AfterDagWrite, Complete, Fail, Cancel
    <3>4. NoneRunning'
      BY <1>4, <2>1, <2>3, <3>3, EndsIt DEF AtWork
    <3>5. Back(r)'
      BY <1>1, <1>3, <2>3, <3>1, <3>2, <3>4, OutKept
         DEF Back, AtWork, Returning, EndingStep, NoneRunning, Running
    <3>6. SoloInv'
      BY <1>1, <1>3, <1>5, <3>4, <3>5, OutKept DEF Out, SoloInv
    <3>7. Running(StepOf(r))
      BY <2>1, <2>3 DEF AtWork, OnlyRunning
    <3>8. DisciplinedNext
      BY <2>1, <3>3, <3>7 DEF DisciplinedNext
    <3>9. QED
      BY <3>6, <3>8
  <2>4. QED
    BY <1>1, <1>5, <2>2, <2>3, OutKinds
<1>6. CASE Resting
  <2>1. NoneOut'
    BY <1>3, <1>6, OutKept DEF Resting
  <2>2. ASSUME NoneRunning', Idle' \/ RetryResets' \/ \E e \in Executors : Walks(e)'
        PROVE  SoloInv'
    BY <1>1, <2>1, <2>2 DEF Resting, SoloInv
  <2>3. CASE StartingUp
    <3>1. Head(todo) = DagWrite("startup", NoStep) /\ todo' = << >>
      BY <1>1, <2>3, OneLeft, Zenon DEF StartingUp
    <3>2. dag' = StartupRecovery(dag)
      <4>1. dag' = AfterDagWrite("startup", NoStep)
        BY <1>2, <3>1, Zenon
      <4>2. QED
        BY <4>1 DEF AfterDagWrite
    <3>3. NoneRunning' /\ (dag' = dag \/ Recover)
      BY <1>4, <3>2, StartupEndsAll DEF SoloInv
    <3>4. QED
      BY <2>2, <3>1, <3>3 DEF Idle, DisciplinedNext
  <2>4. ASSUME NoneRunning, Head(todo) = DagWrite("resume", NoStep)
        PROVE  NoneRunning' /\ DisciplinedNext
    <3>1. dag' = AfterDagWrite("resume", NoStep)
      BY <1>2, <2>4, Zenon
    <3>2. dag' = ResumeFromFirstFailedStep(dag)
      BY <3>1 DEF AfterDagWrite
    <3>3. QED
      BY <1>4, <2>4, <3>2, ResumeStartsNothing DEF DisciplinedNext
  <2>5. CASE NoneRunning /\ RetryResumes
    <3>1. Head(todo) = DagWrite("resume", NoStep) /\ todo' = <<ResetTasks>>
      BY <1>1, <2>5, TwoLeft, Zenon DEF RetryResumes
    <3>2. QED
      BY <2>2, <2>4, <2>5, <3>1 DEF RetryResets
  <2>6. ASSUME NoneRunning, NEW e \in Executors, Walks(e), WalkResumes(e)
        PROVE  SoloInv' /\ (dag' = dag \/ DisciplinedNext)
    <3>1. Head(todo) = DagWrite("resume", NoStep) /\ todo' = <<ResetTasks, Choose(e)>>
      BY <1>1, <2>6, ThreeLeft, Zenon DEF WalkResumes
    <3>2. Walks(e)'
      BY <1>1, <2>6, <3>1 DEF Walks, Walking, WalkResets
    <3>3. QED
      BY <2>2, <2>4, <2>6, <3>1, <3>2
  <2>7. ASSUME NoneRunning, NEW e \in Executors, Walks(e), WalkRecovers(e)
        PROVE  SoloInv' /\ (dag' = dag \/ DisciplinedNext)
    <3>1. /\ Head(todo) = DagWrite("recover", NoStep)
          /\ todo' = <<DagWrite("resume", NoStep), ResetTasks, Choose(e)>>
      BY <1>1, <2>7, FourLeft, Zenon DEF WalkRecovers
    <3>2. dag' = RecoverStaleRunningSteps(dag)
      <4>1. dag' = AfterDagWrite("recover", NoStep)
        BY <1>2, <3>1, Zenon
      <4>2. QED
        BY <4>1 DEF AfterDagWrite
    <3>3. NoneRunning' /\ dag' = dag
      BY <2>7, <3>2, RecoverNothing
    <3>4. Walks(e)'
      BY <1>1, <2>7, <3>1 DEF Walks, Walking, WalkResumes
    <3>5. QED
      BY <2>2, <3>3, <3>4
  <2>8. QED
    BY <1>1, <1>6, <2>3, <2>5, <2>6, <2>7, RestingKinds
<1>7. QED
  BY <1>5, <1>6 DEF SoloInv

LEMMA SoloResetsTask ==
    ASSUME RowsInv, SoloInv, ResetsTask
    PROVE  SoloInv'
<1>1. /\ ~ Idle /\ Head(todo) = ResetTasks
      /\ runs' = runs /\ exec' = exec /\ dag' = dag
      /\ todo' = todo \/ todo' = Tail(todo)
  BY Zenon DEF ResetsTask
<1>2. FirstKind = "reset tasks"
  BY <1>1, OtherKind, Zenon DEF FirstKind
<1>3. Resting
  BY <1>1, <1>2, OutKinds DEF SoloInv
<1>4. NoneOut' /\ NoneRunning'
  BY <1>1, <1>2, <1>3, RestingKinds, DagKept DEF Resting, NoneOut, Busy
<1>5. RetryResets' \/ Idle' \/ \E e \in Executors : Walks(e)'
  <2>1. CASE RetryResets
    BY <1>1, <2>1, OneLeft, Zenon DEF RetryResets, Idle
  <2>2. ASSUME NEW e \in Executors, Walks(e), WalkResets(e) PROVE Walks(e)'
    <3>1. todo' = <<ResetTasks, Choose(e)>> \/ todo' = <<Choose(e)>>
      BY <1>1, <2>2, TwoLeft, Zenon DEF WalkResets
    <3>2. QED
      BY <1>1, <2>2, <3>1 DEF Walks, Walking, WalkResets, WalkChooses
  <2>3. QED
    BY <1>1, <1>2, <1>3, <2>1, <2>2, RestingKinds
<1>6. QED
  BY <1>1, <1>4, <1>5 DEF Resting, SoloInv

LEMMA SoloRecoverRunRows ==
    ASSUME RowsInv, SoloInv, RecoverRunRows
    PROVE  SoloInv'
<1> DEFINE stale == {r \in Runs : runs[r].row = "running"}
<1>1. /\ ~ Idle /\ Head(todo) = RecoverRows
      /\ todo' = Tail(todo) /\ exec' = exec /\ dag' = dag
      /\ runs' = [r \in Runs |->
                     IF r \in stale THEN [runs[r] EXCEPT !.row = "failed"] ELSE runs[r]]
  BY Zenon DEF RecoverRunRows
<1>2. FirstKind = "recover rows"
  BY <1>1, OtherKind, Zenon DEF FirstKind
<1>3. Resting
  BY <1>1, <1>2, OutKinds DEF SoloInv
<1>4. Recovering
  BY <1>1, RecoverFirst DEF RowsInv
<1>5. StartingUp'
  BY <1>1, <1>4, TwoLeft, Zenon DEF Recovering, StartingUp
<1>6. SameOut
  BY <1>1 DEF SameOut, RowsInv, RowsTyped, RunRows
<1>7. NoneOut'
  BY <1>3, <1>6, OutKept DEF Resting
<1>8. (NoneRunning \/ dag.status = "running")'
  BY <1>1, DagKept DEF SoloInv
<1>9. QED
  BY <1>5, <1>6, <1>7, <1>8 DEF Resting, SoloInv, SameOut

LEMMA BusyIsOut ==
    ASSUME SoloInv, NEW r \in Runs, Busy(r)
    PROVE  Out(r)
  BY DEF SoloInv, Resting, NoneOut, Out, OnlyOut

LEMMA GoneLeavesNone ==
    ASSUME RowsInv, NEW r \in Runs, Out(r), runs' = [runs EXCEPT ![r].phase = "gone"]
    PROVE  NoneOut' /\ \A q \in Runs : runs'[q].cancellationRequested = runs[q].cancellationRequested
<1>1. "gone" \in Phases
  BY DEF Phases
<1>2. runs'[r].phase = "gone" /\ \A q \in Runs : q # r => runs'[q] = runs[q]
  BY <1>1, PhaseSet DEF RowsInv
<1>3. \A q \in Runs : q # r => ~ Busy(q)
  BY DEF Out, OnlyOut
<1>4. QED
  BY <1>1, <1>2, <1>3, PhaseSet DEF RowsInv, NoneOut, Busy

LEMMA SoloRunReturns ==
    ASSUME RowsInv, DagInv, SoloInv, RunReturns
    PROVE  SoloInv'
<1>1. PICK r \in Runs :
         /\ Head(todo) = Return(r)
         /\ runs' = [runs EXCEPT ![r].phase = "gone"]
         /\ \/ todo' = << >> /\ dag' = dag /\ exec' = exec
            \/ /\ dag' = RecomputeReadiness(dag)
               /\ \E e \in Executors : runs[r].by = e /\ ExecutorContinues(e, r)
  BY Zenon DEF RunReturns
<1>2. ~ Idle
  BY Zenon DEF RunReturns
<1>3. Attended(r) /\ Returning(r)
  BY <1>1, <1>2, ReturnFirst DEF RowsInv
<1>4. Out(r)
  BY <1>3, BusyIsOut DEF Attended, Busy
<1>5. Back(r)
  BY <1>2, <1>3, <1>4, ReturningKind, OutKinds
<1>6. dag' = dag
  BY <1>1, RecomputeNothing DEF DagInv
<1>7. NoneRunning'
  BY <1>5, <1>6, DagKept DEF Back
<1>8. NoneOut' /\ \A q \in Runs : runs'[q].cancellationRequested = runs[q].cancellationRequested
  BY <1>1, <1>4, GoneLeavesNone
<1>9. Idle' \/ RetryResumes' \/ \E e \in Executors : Walks(e)'
  <2>1. CASE todo' = << >>
    BY <2>1 DEF Idle
  <2>2. ASSUME NEW e \in Executors, runs[r].by = e, todo' = <<Choose(e)>>, exec' = exec
        PROVE  Walks(e)'
    <3>1. exec[e] = "walking"
      BY <1>4, <2>2 DEF Out, Awaited
    <3>2. QED
      BY <2>2, <3>1 DEF Walks, Walking, WalkChooses
  <2>3. CASE todo' = <<DagWrite("resume", NoStep), ResetTasks>>
    BY <2>3 DEF RetryResumes
  <2>4. \/ todo' = << >>
        \/ \E e \in Executors : runs[r].by = e /\ todo' = <<Choose(e)>> /\ exec' = exec
        \/ todo' = <<DagWrite("resume", NoStep), ResetTasks>>
    BY <1>1, Zenon DEF ExecutorContinues
  <2>5. QED
    BY <2>1, <2>2, <2>3, <2>4
<1>10. QED
  BY <1>7, <1>8, <1>9 DEF Resting, SoloInv

LEMMA SoloChooses ==
    ASSUME Solo, RowsInv, DagInv, SoloInv, NEW e \in Executors, ExecutorChooses(e)
    PROVE  SoloInv'
<1>1. /\ ~ Idle /\ Head(todo) = Choose(e)
      /\ dag' = RecomputeReadiness(dag)
      /\ \/ StopWalking(e)
         \/ /\ exec' = exec
            /\ \E s \in Steps, r \in Runs :
                  /\ IsNextReadyStep(dag', s)
                  /\ BeginTaskRun(r, s, e)
                  /\ todo' = IF s \in AwaitingSteps THEN << >> ELSE LaunchWrites(r, s)
  BY Zenon DEF ExecutorChooses
<1>2. dag' = dag
  BY <1>1, RecomputeNothing DEF DagInv
<1>3. FirstKind = "choose"
  BY <1>1, ChooseKind, Zenon DEF FirstKind
<1>4. Resting
  BY <1>1, <1>3, OutKinds DEF SoloInv
<1>5. NoneOut /\ NoneRunning /\ exec[e] = "walking"
  BY <1>1, <1>3, <1>4, RestingKinds DEF Solo, Resting, Walks
<1>6. NoneRunning'
  BY <1>2, <1>5, DagKept
<1>7. CASE StopWalking(e)
  BY <1>5, <1>6, <1>7 DEF StopWalking, Resting, SoloInv, NoneOut, Busy, Idle
<1>8. ASSUME exec' = exec, NEW s \in Steps, NEW r \in Runs,
             IsNextReadyStep(dag', s), BeginTaskRun(r, s, e),
             todo' = IF s \in AwaitingSteps THEN << >> ELSE LaunchWrites(r, s)
      PROVE  SoloInv'
  <2>1. /\ runs'[r].step = s /\ runs'[r].by = e /\ ~ runs'[r].cancellationRequested
        /\ runs'[r].phase = IF s \in AwaitingSteps THEN "prelude" ELSE "live"
        /\ \A q \in Runs : q # r => runs'[q] = runs[q]
    BY <1>8, Begins DEF RowsInv
  <2>2. OnlyOut(r)' /\ Awaited(r)'
    BY <1>5, <1>8, <2>1 DEF NoneOut, OnlyOut, Busy, Awaited
  <2>3. StepOf(r)' = s
    BY <2>1 DEF StepOf
  <2>4. dag'.step[s] = "pending" /\ dag'.ready[s]
    BY <1>8 DEF IsNextReadyStep
  <2>5. Selectable(StepOf(r))'
    BY <2>3, <2>4 DEF Selectable
  <2>6. (Idle' /\ runs'[r].phase = "prelude") \/ Launching(r)'
    <3>1. CASE s \in AwaitingSteps
      BY <1>8, <2>1, <3>1 DEF Idle
    <3>2. CASE s \notin AwaitingSteps
      <4>1. Attended(r)' /\ todo' = LaunchWrites(r, s)
        BY <1>8, <2>1, <3>2 DEF Attended
      <4>2. LaunchingRow(r)'
        BY <2>3, <4>1, Zenon DEF LaunchingRow
      <4>3. QED
        BY <4>1, <4>2 DEF Launching
    <3>3. QED
      BY <3>1, <3>2
  <2>7. AboutToStart(r)'
    BY <1>6, <2>5, <2>6 DEF AboutToStart
  <2>8. \A q \in Runs : ~ runs'[q].cancellationRequested
    BY <2>1 DEF SoloInv
  <2>9. QED
    BY <1>6, <2>2, <2>7, <2>8 DEF Out, SoloInv
<1>9. QED
  BY <1>1, <1>7, <1>8

LEMMA SoloPrelude ==
    ASSUME RowsInv, SoloInv, NEW r \in Runs, PreludeEnds(r) \/ PreludeFails(r)
    PROVE  SoloInv'
<1>1. Idle /\ runs[r].phase = "prelude" /\ dag' = dag
  BY Zenon DEF PreludeEnds, PreludeFails
<1>2. Out(r) /\ ~ Attended(r)
  BY <1>1, BusyIsOut DEF Busy, Attended
<1>3. AboutToStart(r)
  BY <1>2 DEF Out, AtWork, Back
<1>4. NoneRunning'
  BY <1>1, <1>3, DagKept DEF AboutToStart
<1>5. CASE PreludeEnds(r)
  <2>1. /\ runs' = [runs EXCEPT ![r].phase = "live"] /\ exec' = exec
        /\ todo' = LaunchWrites(r, runs[r].step)
    BY <1>5, Zenon DEF PreludeEnds
  <2>2. "live" \in Phases
    BY DEF Phases
  <2>3. /\ runs'[r].phase = "live"
        /\ \A q \in Runs : q # r => runs'[q] = runs[q]
        /\ \A q \in Runs : /\ runs'[q].step = runs[q].step /\ runs'[q].by = runs[q].by
                           /\ runs'[q].cancellationRequested = runs[q].cancellationRequested
    BY <2>1, <2>2, PhaseSet DEF RowsInv
  <2>4. Attended(r)' /\ StepOf(r)' = StepOf(r) /\ StepOf(r) = runs[r].step
    BY <2>3 DEF Attended, StepOf
  <2>5. LaunchingRow(r)'
    BY <2>1, <2>4, Zenon DEF LaunchingRow
  <2>6. Selectable(StepOf(r))'
    BY <1>1, <1>3, <2>4 DEF AboutToStart, Selectable
  <2>7. AboutToStart(r)'
    BY <1>4, <2>4, <2>5, <2>6 DEF AboutToStart, Launching
  <2>8. OnlyOut(r)' /\ Awaited(r)'
    BY <1>2, <2>1, <2>3 DEF Out, OnlyOut, Busy, Awaited
  <2>9. QED
    BY <1>4, <2>3, <2>7, <2>8 DEF Out, SoloInv
<1>6. CASE PreludeFails(r)
  <2>1. runs' = [runs EXCEPT ![r].phase = "gone"] /\ todo' = todo
    BY <1>6, Zenon DEF PreludeFails
  <2>2. NoneOut' /\ \A q \in Runs : runs'[q].cancellationRequested = runs[q].cancellationRequested
    BY <1>2, <2>1, GoneLeavesNone
  <2>3. QED
    BY <1>1, <1>4, <2>1, <2>2 DEF Resting, SoloInv, Idle
<1>7. QED
  BY <1>5, <1>6

LEMMA IdleIsAtWork ==
    ASSUME SoloInv, Idle, NEW r \in Runs, Attended(r)
    PROVE  Out(r) /\ AtWork(r)
<1>1. Out(r)
  BY BusyIsOut DEF Attended, Busy
<1>2. ~ AboutToStart(r)
  BY LaunchingKinds DEF AboutToStart, Launching, Attended
<1>3. ~ Back(r)
  BY OneLeft, Zenon DEF Back, Returning
<1>4. QED
  BY <1>1, <1>2, <1>3 DEF Out

LEMMA SoloEnds ==
    ASSUME RowsInv, SoloInv, Idle, NEW r \in Runs, Attended(r), NEW end \in Endings,
           Ends(<<TaskWrite(runs[r].step, end[1]), RowWrite(r, end[2]),
                  DagWrite(end[3], runs[r].step), Return(r)>>)
    PROVE  SoloInv'
<1>1. /\ todo' = <<TaskWrite(runs[r].step, end[1]), RowWrite(r, end[2]),
                   DagWrite(end[3], runs[r].step), Return(r)>>
      /\ dag' = dag /\ runs' = runs /\ exec' = exec
  BY Zenon DEF Ends
<1>2. SameOut
  BY <1>1 DEF SameOut
<1>3. Out(r) /\ AtWork(r)
  BY IdleIsAtWork
<1>4. StepOf(r) \in Steps
  BY DEF RowsInv, Begun, Attended
<1>5. StepOf(r)' = StepOf(r) /\ StepOf(r) = runs[r].step
  BY <1>1 DEF StepOf
<1>6. todo' = <<TaskWrite(StepOf(r)', end[1]), RowWrite(r, end[2]),
                DagWrite(end[3], StepOf(r)'), Return(r)>>
  BY <1>1, <1>5, Zenon
<1>7. EndingTask(r, end)'
  BY <1>1, <1>6 DEF EndingTask, SoloInv
<1>8. AtWork(r)'
  BY <1>1, <1>2, <1>3, <1>4, <1>7, OutKept, DagKept DEF AtWork, EndingSoon
<1>9. QED
  BY <1>1, <1>2, <1>3, <1>8, OutKept, DagKept DEF Out, SoloInv

LEMMA SoloRunStep ==
    ASSUME RowsInv, SoloInv, NEW r \in Runs, RunStep(r)
    PROVE  SoloInv'
<1>1. ~ runs[r].cancellationRequested
  BY DEF SoloInv
<1>2. ASSUME Idle, Attended(r),
             \/ Ends(CompleteTaskRun(r, runs[r].step)) \/ Ends(FailTaskRun(r, runs[r].step))
             \/ Ends(StopTaskRunByLimit(r, runs[r].step))
      PROVE  SoloInv'
  <2>1. PICK end \in Endings :
           Ends(<<TaskWrite(runs[r].step, end[1]), RowWrite(r, end[2]),
                  DagWrite(end[3], runs[r].step), Return(r)>>)
    <3>1. \A i, j, k : <<i, j, k>>[1] = i /\ <<i, j, k>>[2] = j /\ <<i, j, k>>[3] = k
      OBVIOUS
    <3>2. CASE Ends(CompleteTaskRun(r, runs[r].step))
      BY <3>1, <3>2, Zenon DEF Endings, CompleteTaskRun
    <3>3. CASE Ends(FailTaskRun(r, runs[r].step))
      BY <3>1, <3>3, Zenon DEF Endings, FailTaskRun
    <3>4. CASE Ends(StopTaskRunByLimit(r, runs[r].step))
      BY <3>1, <3>4, Zenon DEF Endings, StopTaskRunByLimit
    <3>5. QED
      BY <1>2, <3>2, <3>3, <3>4
  <2>2. QED
    BY <1>2, <2>1, SoloEnds
<1>3. ASSUME Idle, AwaitsMemory(r)
      PROVE  SoloInv'
  <2>1. /\ runs[r].phase = "live" /\ runs' = [runs EXCEPT ![r].phase = "memory"]
        /\ dag' = dag /\ exec' = exec /\ todo' = todo
    BY <1>3, Zenon DEF AwaitsMemory
  <2>2. "memory" \in Phases
    BY DEF Phases
  <2>3. /\ runs'[r].phase = "memory"
        /\ \A q \in Runs : q # r => runs'[q] = runs[q]
        /\ \A q \in Runs : /\ runs'[q].step = runs[q].step /\ runs'[q].by = runs[q].by
                           /\ runs'[q].cancellationRequested = runs[q].cancellationRequested
    BY <2>1, <2>2, PhaseSet DEF RowsInv
  <2>4. Attended(r)
    BY <2>1 DEF Attended
  <2>5. Out(r) /\ AtWork(r)
    BY <1>3, <2>4, IdleIsAtWork
  <2>6. OnlyOut(r)' /\ Awaited(r)' /\ Attended(r)' /\ StepOf(r)' = StepOf(r)
    BY <2>1, <2>3, <2>5 DEF Out, OnlyOut, Busy, Awaited, Attended, StepOf
  <2>7. StepOf(r) \in Steps
    BY <2>4 DEF RowsInv, Begun, Attended
  <2>8. AtWork(r)'
    BY <1>3, <2>1, <2>5, <2>6, <2>7 DEF AtWork, Idle, OnlyRunning, Running
  <2>9. QED
    BY <2>1, <2>3, <2>6, <2>8, DagKept DEF Out, SoloInv
<1>4. CASE PreludeEnds(r) \/ PreludeFails(r)
  BY <1>4, SoloPrelude
<1>5. CASE ChildCloses(r) \/ ChildErrors(r) \/ HttpAnswers(r) \/ MemoryServed(r)
  <2>1. Idle /\ Attended(r)
    BY <1>5 DEF ChildCloses, ChildErrors, HttpAnswers, MemoryServed, Attended
  <2>2. \/ AwaitsMemory(r)
        \/ Ends(CompleteTaskRun(r, runs[r].step)) \/ Ends(FailTaskRun(r, runs[r].step))
        \/ Ends(StopTaskRunByLimit(r, runs[r].step))
    BY <1>1, <1>5, Zenon DEF ChildCloses, ChildErrors, HttpAnswers, MemoryServed, Succeeds
  <2>3. QED
    BY <1>2, <1>3, <2>1, <2>2
<1>6. QED
  BY <1>4, <1>5 DEF RunStep

LEMMA SoloCalls ==
    ASSUME Solo, RowsInv, SoloInv, NEW e \in Executors,
           ExecutorExecutes(e) \/ ExecutorResumes(e) \/ BackoffEnds(e)
    PROVE  SoloInv'
<1>1. /\ Idle /\ exec[e] # "walking" /\ exec' = [exec EXCEPT ![e] = "walking"]
      /\ runs' = runs /\ dag' = dag
      /\ \/ todo' = <<Choose(e)>>
         \/ todo' = <<DagWrite("recover", NoStep), DagWrite("resume", NoStep), ResetTasks,
                      Choose(e)>>
  BY Zenon DEF ExecutorExecutes, ExecutorResumes, BackoffEnds
<1>2. \A r \in Runs : ~ Out(r)
  BY <1>1 DEF Solo, Out, Awaited
<1>3. ~ Recovering /\ ~ StartingUp
  BY <1>1, OneLeft, TwoLeft, Zenon DEF Recovering, StartingUp
<1>4. NoneOut /\ NoneRunning
  BY <1>2, <1>3 DEF SoloInv, Resting
<1>5. exec'[e] = "walking"
  BY <1>1 DEF RowsInv, RowsTyped
<1>6. Walks(e)'
  BY <1>1, <1>5 DEF Walks, Walking, WalkChooses, WalkRecovers
<1>7. NoneOut' /\ NoneRunning'
  BY <1>1, <1>4, DagKept DEF NoneOut, Busy
<1>8. QED
  BY <1>1, <1>6, <1>7 DEF Resting, SoloInv

LEMMA SoloCrash == ASSUME RowsInv, SoloInv, Crash PROVE SoloInv'
<1>1. /\ dag' = dag
      /\ runs' = [r \in Runs |->
                    IF runs[r].phase = "free" THEN runs[r]
                    ELSE [runs[r] EXCEPT !.phase = "gone"]]
      /\ todo' = <<RecoverRows, DagWrite("startup", NoStep)>>
  BY Zenon DEF Crash
<1>2. \A q \in Runs : /\ runs'[q].phase = IF runs[q].phase = "free" THEN "free" ELSE "gone"
                      /\ runs'[q].cancellationRequested = runs[q].cancellationRequested
  BY <1>1 DEF RowsInv, RowsTyped, RunRows
<1>3. NoneOut'
  BY <1>2 DEF NoneOut, Busy
<1>4. Recovering'
  BY <1>1 DEF Recovering
<1>5. QED
  BY <1>1, <1>2, <1>3, <1>4, DagKept DEF Resting, SoloInv

LEMMA InitSolo == ASSUME ExecutionInit PROVE SoloInv
<1>1. Init /\ runs = [r \in Runs |-> FreeRun] /\ todo = << >>
  BY Zenon DEF ExecutionInit
<1>2. \A r \in Runs : ~ Busy(r) /\ ~ runs[r].cancellationRequested
  BY <1>1 DEF FreeRun, Busy
<1>3. \A s \in Steps : dag.step[s] = "pending"
  BY <1>1 DEF Init, CreatedRun
<1>4. QED
  BY <1>1, <1>2, <1>3 DEF SoloInv, Resting, NoneOut, NoneRunning, Running, Idle

LEMMA NextSolo ==
    ASSUME Solo, RowsInv, DagInv, SoloInv, [ExecutionNext]_vars
    PROVE  SoloInv' /\ [DisciplinedNext]_dag
<1>1. CASE Section
  BY <1>1, SoloWriteTask, SoloWriteRow, SoloWriteDag, SoloResetsTask, SoloRecoverRunRows,
     SoloRunReturns, SoloChooses, WriteTaskCounts, WriteRowCounts, ResetsTaskCounts,
     RecoverRunRowsCounts, RunReturnsCounts, ChoosesCounts DEF Section
<1>2. ASSUME NEW r \in Runs, RunStep(r) \/ ApiCancelsRun(r)
      PROVE  SoloInv' /\ dag' = dag
  <2>1. RunStep(r)
    BY <1>2 DEF Solo, ApiCancelsRun
  <2>2. QED
    BY <2>1, SoloRunStep, RunStepCounts
<1>3. ASSUME NEW s \in Steps PROVE ~ ApiRunsTask(s) /\ ~ ApiReadiesTask(s)
  BY DEF Solo, ApiRunsTask, ApiReadiesTask
<1>4. ASSUME NEW e \in Executors, ExecutorExecutes(e) \/ ExecutorResumes(e) \/ BackoffEnds(e)
      PROVE  SoloInv' /\ dag' = dag
  BY <1>4, SoloCalls, ExecutorCounts
<1>5. CASE Crash
  BY <1>5, SoloCrash, CrashCounts
<1>6. CASE UNCHANGED vars
  BY <1>6 DEF vars, SoloInv, Resting, NoneOut, NoneRunning, Running, Busy, Idle, Recovering,
     StartingUp, RetryResumes, RetryResets, Walks, Walking, WalkRecovers, WalkResumes,
     WalkResets, WalkChooses, Out, OnlyOut, Awaited, AboutToStart, AtWork, Back, Attended,
     EndingSoon, EndingTask, EndingRow, EndingStep, Returning, Launching, LaunchingRow,
     LaunchingTask, LaunchingStep, StepOf, OnlyRunning, Selectable
<1>7. QED
  BY <1>1, <1>2, <1>3, <1>4, <1>5, <1>6 DEF ExecutionNext

LEMMA SoloInvariance ==
    ASSUME Solo
    PROVE  ExecutionSpec => [](RowsInv /\ DagInv /\ SoloInv) /\ [][DisciplinedNext]_dag
<1>1. ExecutionInit => RowsInv /\ DagInv /\ SoloInv
  BY InitRows, InitDag, InitSolo
<1>2. RowsInv /\ DagInv /\ SoloInv /\ [ExecutionNext]_vars
         => (RowsInv /\ DagInv /\ SoloInv)' /\ [DisciplinedNext]_dag
  BY NextRows, NextDag, NextSolo
<1>3. QED
  BY <1>1, <1>2, PTL DEF ExecutionSpec

(* One executor that nobody interferes with keeps to the discipline of     *)
(* WorkflowDag: it starts only ready steps and ends only running ones,     *)
(* across retries, resumes, crashes and recoveries.                        *)
THEOREM OneExecutorIsDisciplined == ASSUME Solo PROVE ExecutionSpec => DisciplinedSpec
<1>1. ExecutionInit => Init
  BY Zenon DEF ExecutionInit
<1>2. QED
  BY <1>1, SoloInvariance, PTL DEF ExecutionSpec, DisciplinedSpec

(* So its steps begin in the order of their dependencies, and what is done *)
(* stays done.                                                             *)
THEOREM ExecutionFollowsTheOrder ==
    ASSUME Solo
    PROVE  ExecutionSpec => []DependencyOrder /\ CompletedForever
  BY OneExecutorIsDisciplined, DependenciesFirst, CompletedStaysCompleted, PTL

THEOREM ExecutionImplementsOrder == ASSUME Solo PROVE ExecutionSpec => ImplementsStepOrder
  BY OneExecutorIsDisciplined, ImplementsOrder, PTL

(* No step reads running without a run of it that is attended.             *)
THEOREM NoZombieSteps == ASSUME Solo PROVE ExecutionSpec => []NoZombieStep
<1>1. RowsInv /\ SoloInv => NoZombieStep
  <2> SUFFICES ASSUME RowsInv, SoloInv, Idle, NEW s \in Steps, Running(s)
               PROVE  AttendedRuns(s) # {}
    BY DEF NoZombieStep, Running
  <2>1. ~ Recovering /\ ~ StartingUp
    BY OneLeft, TwoLeft, Zenon DEF Recovering, StartingUp
  <2>2. PICK r \in Runs : Out(r)
    BY <2>1 DEF SoloInv, Resting, NoneRunning
  <2>3. AtWork(r)
    BY <2>2 DEF Out, AboutToStart, Back, NoneRunning
  <2>4. Attended(r) /\ StepOf(r) = s
    BY <2>3 DEF AtWork, OnlyRunning
  <2>5. QED
    BY <2>4 DEF AttendedRuns, StepOf
<1>2. QED
  BY <1>1, SoloInvariance, PTL

(* No two task runs are out at once, of a step or of two.                  *)
THEOREM OneRunAtATime == ASSUME Solo PROVE ExecutionSpec => []OneRunPerStep
<1>1. SoloInv => OneRunPerStep
  BY BusyIsOut DEF OneRunPerStep, AttendedRuns, Attended, Busy, Out, OnlyOut
<1>2. QED
  BY <1>1, SoloInvariance, PTL
=============================================================================
