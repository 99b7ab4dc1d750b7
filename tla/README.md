# AthenaConsole: a TLA+ model of the control plane

AthenaConsole runs agents for people: a task is assigned to an agent and run as
a child process or an HTTP call, tasks are chained into workflow DAGs that come
from templates, schedules start tasks and workflows, and a policy limits how
many agents run at once. The control plane is a Node.js process over SQLite and
files; it is meant to be restarted at any time, and several instances may share
one policy.

These modules model the part of it where ordering, failure and concurrency
decide whether the system is right: templates and what they are instantiated to,
the durable state of a workflow run and its execution, missions, schedules, the
runs of a session and their provider calls, the work queue and its file lock, and
the concurrency limit over distributed locks. Source paths below are relative to
`src/packages/core/src/control-plane/` unless they begin with `src/`.

## Inventory

| Component | State it keeps | Operations | Hard behaviour | Correct when |
| --- | --- | --- | --- | --- |
| Workflow DAG run state (`services/workflow-state.ts`, `app-state/workflow-state-repository.ts`) | rows of the run, its steps and their attempts; stored readiness and blockers | create, start, complete, fail, cancel a step; recover stale steps; resume from the first failed step | the operations check no status, so late callers overwrite newer states | rows agree with each other after any sequence; under one executor, dependencies come first and completed work stays |
| DAG executor, retry policy (`services/workflow-dag-executor.ts`, `workflow-retry-policy.ts`) | the in-flight promise per run, in memory | execute, resume, retry with backoff | awaits between check and use; one guard per instance; crash | one run per step; terminates; stays within the discipline the rows need |
| Task workbench (`services/task-workbench.ts`) | task rows, run rows, run events, `activeRuns` in memory | runTask, runHttpApiTask, cancelRun, update | cancel against exit against limit; crash between transactions | no zombie runs or tasks; a cancelled run does not complete |
| Startup recovery (`services/stale-run-recovery.ts`) | none of its own | fail stale runs and steps | what it does not list stays running | after it nothing reads running |
| Concurrency limit (`services/policy.ts`) | slot locks named by number | reserve, run, release | leases that run out; lost answers; late releases | active runs never exceed the limit; slots are not lost |
| Distributed locks (`distributed-lock/*.ts`) | a map, Redis keys, Kubernetes leases | tryAcquire, release | several calls that are not one transaction | one holder |
| Template DAG validation (`workflow-template-dag.ts`) | none | validate, order | cycles, duplicates | stepOrder is a topological order exactly when there is one |
| Mission workbench (`services/mission-workbench.ts`) | mission row, mission run row | runMission over ordered tasks | mission and run rows change in separate transactions | mission and run agree; sequential order kept |
| Schedules (`services/local-services.ts`, `src/packages/core/src/schedule/index.ts`) | schedule rows; a file; lock files; running ids in memory | upsert, run, runDue | overlap guard lost on restart; advance after the run; handlers that outlast their timeout | what is due is served, and not twice at a time |
| Template catalog (`services/workflow-template-catalog.ts`) | missions, tasks, DAG run | instantiate | several transactions | all or nothing |
| Session lock, work queue (`src/packages/core/src/runtime/session-lock.ts`, `work/index.ts`) | lock files, queue files | acquire, reclaim, release; enqueue, drain | stale reclaim by two processes; crash before the pid is written; a drain that fails half-way | one holder; at-least-once, in order |
| Agent runtime, session store, cancellation records (`src/packages/core/src/runtime/index.ts`, `session-store.ts`, `cancellation.ts`) | transcript and session record; active and cancel files per session | run, with sweep, lock, body, retries and fallback; mark, clear, request | the body outlives the lock; files named by session; timeout against late answers | turns in order; markers belong to the holder; no call after an abort |
| Events and failed work (`services/event-dlq.ts`) | a JSONL file, a status file | emit, coalesced retention sweep, retry, discard | sweep against emit | retention is applied after the last event |
| Views, reports, API, CLI, console, providers, plugins, sandbox drivers, memory, authorization | projections, files, external services | reads; single-row writes; external calls | little ordering of their own | see "Not modelled" |

How they interact: the API and schedules call the executor; each executor call
creates task workbench instances and calls `runTask`; `runTask` writes the task
row, the run row and, through the linked helpers, the DAG rows; startup calls
recovery before it serves anything. All of these share one SQLite database
through synchronous calls. The policy-aware backend shares only the lock
service with its peers. A template that the parser accepts is instantiated to a
DAG run, a mission and its tasks; missions run those tasks through a workbench of
their own. The runtime serves one session at a time under the file lock that the
work queue uses too, and calls model providers in an order of preference.

## Modules

| Module | Models | Kind |
| --- | --- | --- |
| `StepOrder` | what a workflow run promises: a step begins only when its dependencies are done, done is final | abstract specification |
| `WorkflowDag` | the rows of one run and the seven operations of `LocalWorkflowStateService` | detailed, implements `StepOrder` under its discipline |
| `WorkflowDagProofs` | theorems about `WorkflowDag` | proofs |
| `DagExecution` | executors, task runs, people, crash and recovery around one `WorkflowDag` | composition (EXTENDS `WorkflowDag`), implements `WorkflowDag!Spec` |
| `MCDagExecution` | retry policies and step sets for TLC | instances |
| `DagExecutionProofs` | theorems about `DagExecution` | proofs |
| `TemplateDag` | `parseWorkflowTemplateDag`: validation, cycle search, order | detailed |
| `TemplateInstantiation` | `instantiate` of the template catalog, by several callers | composition (EXTENDS `TemplateDag`) |
| `TemplateDagProofs` | theorems about `TemplateDag` and `TemplateInstantiation` | proofs |
| `Missions` | `runMission`, edits of missions and tasks, recovery | detailed |
| `MissionsProofs` | theorems about `Missions` | proofs |
| `Schedules`, `MCSchedules` | `LocalScheduleService`, `ScheduleManager` down to the steps of its `runTask`; instances | detailed |
| `SchedulesProofs` | theorems about `Schedules` | proofs |
| `Mutex` | one holder at a time, acquired when free | abstract specification |
| `SessionLock` | `acquireSessionLock`, one file call at a time | detailed, implements `Mutex` until a reclaim misfires |
| `AtLeastOnceQueue` | what the work queue promises | abstract specification |
| `WorkQueue`, `MCWorkQueue` | `WorkManager.enqueue` and `drain` over the lock; instances | composition (EXTENDS `SessionLock`), implements `AtLeastOnceQueue` until a reclaim misfires |
| `SessionLockProofs` | theorems about `SessionLock` and `WorkQueue` | proofs |
| `SessionRuns` | `runtime.run` with sweep, lock, transcript and cancellation records | detailed |
| `ProviderCalls` | timeout, fallback and retry around the providers of one run | detailed |
| `MCAgentRuntime` | the two, one in each behaviour | instance |
| `AgentRuntimeProofs` | theorems about `SessionRuns` and `ProviderCalls` | proofs |
| `SlotGate` | at most `Limit` active at a time | abstract specification |
| `ConcurrencyGate` | `PolicyAwareExecutionBackend.run` over atomic slot locks | detailed, implements `SlotGate` |
| `K8sLeaseLock` | `K8sLeaseLockProvider`, one API call at a time | detailed |
| `MCDistributedLocks` | the gate over atomic locks or one Kubernetes lease, as configured | instance |
| `DistributedLockProofs` | theorems about `ConcurrencyGate` and `K8sLeaseLock` | proofs |

### WorkflowDag

`dag` is the record of a run: its status, and per step its dependencies, status,
attempt counter, attempt rows, `ready` and `blocking` (`isReady`,
`blockingStepIds`). Each method of `LocalWorkflowStateService` is one SQLite
transaction on a synchronous connection, hence one operator from record to
record, recomputation of readiness and finalisation included. Steps are named by
their place in `stepOrder`. `parseWorkflowTemplateDag` accepts acyclic graphs
only and orders them topologically, so the model quantifies over all dependency
maps with smaller names. The `skipped` step status is declared in the code and
never written, so it does not appear. Event rows and payloads are not modelled:
no operation reads them back. The breadth-first `collectDescendantStepIds` is
given as the least closed set it computes.

Two specifications share the operators. In `Spec` any caller may call anything,
as the code allows; callers only start a step before they complete or fail it
(`runTask` does this before anything else). `DisciplinedSpec` is what one
undisturbed executor does: start ready steps, end running ones, recover, resume.

### DagExecution

Node.js runs one callback at a time. A stretch of code between two awaits is
atomic for other callbacks, though not for a crash, as it makes several SQLite
transactions. `todo` is the list of transactions the current stretch has still
to make. Nothing but `Crash` happens while it is not empty. So all interleavings of awaits and
all crash points between transactions are explored.

| Model | Code |
| --- | --- |
| `task[s]` | status of the task projected from step `s` (`findByWorkflowDagStep`) |
| `runs[r]` | run row `r` with the `runTask` call that attends it: `prelude` (awaiting provider or memory, before any write), `live` (child or request out), `memory` (serving memory requests), `gone` |
| `exec[e]` | executor `e`'s in-flight entry: walking or in backoff |
| `BeginTaskRun`, `PreludeEnds`, `PreludeFails` | `runTask` to its spawn |
| `ChildCloses`, `ChildErrors`, `HttpAnswers`, `MemoryServed` | its continuation; a synchronous spawn failure is one of the outcomes of `ChildErrors` |
| `ApiCancelsRun` | `cancelRun`, which finds API-started processes only; HTTP runs answer "unsupported" |
| `ExecutorExecutes`, `ExecutorResumes`, `ExecutorChooses`, `RunReturns`, `BackoffEnds` | `execute`, `resume`, the loop |
| `WriteTask`, `WriteRow`, `WriteDag`, `ResetsTask` | the transactions |
| `Crash`, `RecoverRunRows`, `StartupRecovery` | process death and `createLocalControlPlaneServices` |

After a resume the executor puts the tasks of pending steps back to ready one by
one (`ResetsTask`), each in a transaction of its own. Whether a failure is retryable (`evaluateRetryDecision`) is a
choice within the attempt limit. Which agents await something and which are HTTP
endpoints is given by constants, since a manifest decides it.

### TemplateDag and TemplateInstantiation

`TemplateDag` starts from any list of up to `MaxTasks` tasks with any ids,
missing and duplicate ones too, and any `dependsOn`, also one that is no list.
`Checks` is the shape and reference validation; `VisitsNext`, `PassesOver`,
`Descends`, `ClosesCycle` and `Finishes` are the iterations of `findCycle`, with
its recursion as the explicit `stack`; `Orders` is one round of Kahn's loop over
the sorted ready list. A message is reduced to its keyword, a cycle is kept in
full. `TemplateInstantiation` goes on where the parser accepts: each caller
writes the DAG run, the mission and then one task per step, each in its own
transaction, under names that the request chooses. A second call may collide at
any of them, a render or an agent check may refuse in between, and the process may
die there.

### Missions

`run[r]` is the row of a mission run with the call of `runMission` behind it:
its place, the task order and dependencies it read at its start, and the verdicts
of the children so far. As in `DagExecution` the places `begun` and `settling`
lie between two transactions of one synchronous section. `attachTask` changes the
task and the mission in two transactions (`AttachesTask`, `OrdersTask`), and a death
in between leaves a task of the mission that is not in its order (`attaching`).
People edit tasks and make missions ready while runs are under way. `Restarts` is a death with the
recovery of the next start, `OtherStarts` the recovery that a CLI command performs
beside a living server.

### Schedules

`row[s]` is a row of the table or an entry of `tasks.json`; `recent` is the
order of the list, which every update changes; `running[p]` holds the two sets
of running ids of a process. There is no scheduler loop in the code; the API's
tick route and the command line call `runDue`, for the present or any other time. A
call is `run` by hand or a tick: it reads the due rows once, no more of them than
the list's limit, takes them one after the other (`SkipsRunning`, `Starts`,
`TargetEnds`, `TargetRefuses`), and then the entries of the file.
`nextRunAfterScheduleAttempt` is modelled by what it computes: the next point of the
row's grid after the attempt, or an exception for an rrule that upsert takes and
the parser rejects (`Unparsable`).

An entry of the file goes through `ScheduleManager.runTask` await by await: the id
is remembered (`Claims`), the lock acquired (`Locks`; `JudgesLock` and
`ReclaimsLock` are the two steps of a stale reclaim, so a reclaim may remove a lock
that another call has just written; `LockFails`), the entry marked (`Marks`,
`MarkFails`), the handler run, the outcome saved and logged (`Saves`, `Logs`), the id
forgotten and the lock released (`ReleasesLock`, `ReleaseFails`). `Catches` and
`CatchFails` are the ways into and out of the catch block. `HandlerTimesOut` ends
the wait for the handler and not the handler: it goes on in `late[c]` until
`LateHandlerEnds`, while its call saves a failure, forgets the id and releases the
lock. `leaked[p]` records the ids that `LockFails` left among the running ones. The
global lock around the reads and writes of the file is part of the steps that take
it, since nothing else happens under it; its failure is that of the step.

### Mutex, SessionLock, AtLeastOnceQueue and WorkQueue

`lockFile` is what is at the lock path: its owner with the owner's incarnation
(pid), whether the metadata has been written, and whether it is older than
`staleAfterMs`. `Open` is the exclusive creation, `Write` the metadata, which
goes to the file that was opened even if another has replaced it; `Read` judges
staleness, `Reclaim` removes by name, `Release` removes without a look at the
owner; each may fail (`WriteFails`, `ReleaseFails`) and leave the file with a
living owner. Nothing keeps two clients from being between `Read` and `Reclaim` at
once, and then the slower removes the file of the faster: a reclaim that *misfires*.
`judged[c]` is the file `c` found stale, `misfired` records that a reclaim has removed
another. What the lock promises is stated up to that step: `MutexUntilMisfire` says
that every step before it is one of `Mutex`. `WorkQueue` takes every lock step as its
own step and adds `enqueue` (load, dedupe and drop policies, save, release) and
`drain` (mark, handler, remove the batch, and the finally block: load again, unmark),
each with its failing loads and saves. A load or save of the finally block that
fails is swallowed or thrown with the flag still set, which `unclean` records
until a drain heals it; `ProcessDies` takes all clients of a process, its
in-memory guard and its copies.
`AtLeastOnceQueue` is what callers rely on: accepted work stays, in order, until a
handler has finished it or a duplicate has taken its place. `QueueUntilMisfire` says
that the queue file keeps it until a reclaim misfires.

### SessionRuns and ProviderCalls

`runtime.run` returns the promise of its body from a `try` block without
awaiting it, so the `finally` block goes on beside the body. A run is
therefore two threads, `stage[r]` (sweep, lock, marker, cleaning, release) and
`body[r]` (execute, reply, update, error report). Every file call is a step that may
fail; `Crash` leaves files and the lock behind. The lock is the abstract mutex
that `SessionLock` implements until a reclaim misfires; what is checked and proved
of runs is therefore for as long as none does. A cancellation request reads the marker, checks
and writes in separate steps, so it may come too late or find another run.
`ProviderCalls` is what `Executes` stands for: `runWithTimeout` around
`runWithProviderFallback` around `runWithRetry`, where the timer, the caller's
abort signal, the pauses between attempts and answers race, and an answer may come
after the run was given up.

### ConcurrencyGate and SlotGate

Slots are scanned one `tryAcquire` at a time. `LocalMemoryLock` and the Redis
provider (SET NX PX; compare-and-delete in a script) are atomic where they take
effect. Every reservation has a fresh owner and token, so an entry is identified
by its request. With `Unreliable`, a call may fail before or after its effect
and an instance may die at any point. `RunsFitLease` says that no run outlasts
the ten-minute lease. The code does not ensure this (nothing renews it and run
timeouts are configurable), so the assumption is a constant. What is checked and proved
with it says what the limit depends on; see "Known limits" for what happens
without it.

### K8sLeaseLock

One lock name. `tryAcquire` is read, optional delete of an expired lease,
create, with a retry after a conflict until the deadline; `release` is read,
compare, delete. Each call is a step at the API server and may fail before or
after its effect, a lease may run out wherever its client is, and any number of
clients may reclaim or release at once: nothing is held back. `judged[c]` is the
lease that `c` has read and is going to delete, `misfired` records that a delete
by name has removed another one.

## Runs

| Run | Instance | Distinct states | Shows |
| --- | --- | --- | --- |
| `solo_executor` | 3 steps, all 8 graphs, 8 task runs, retry once, a crash | 157,008 | no zombie step, one run per step; `DisciplinedSpec` and through it `StepOrder` implemented; every run ends and the executor returns |
| `shared_run` | 2 steps, both graphs, 2 executors, 2 task runs, people, a crash | 286,819 | no zombie run or task; a cancelled run never completes; the DAG rows change by `WorkflowDag!Next` only and agree with each other |
| `distributed_locks` | atomic locks: 4 requests, 2 slots, calls that fail, instances that die; Kubernetes: 3 clients, failing calls, leases that run out anywhere | 71,155 | limit (`SlotGate`), late releases, leaked slots come back; a held lease exists until a delete misfires |
| `work_queue` | 2 clients in 2 processes, 2 kinds of request, 2 items, each process may die once | 479,688 | until a reclaim misfires: no lost update, `Mutex` and `AtLeastOnceQueue` implemented, truthful flag; every call returns, after a misfire too |
| `lock_reclaim` | the same with 1 kind of request and 1 item | stops at the first violation | **violated**: finding 2 |
| `agent_runtime` | sessions: 2 runs, 2 cancellation requests, a crash; providers: 3, any of them registered, 3 attempts each | 966,713 | markers, sweeps, order of entries, every run ends; gives up only when all is exhausted, no call after an abort, it ends |
| `session_turns` | 2 runs of a session, nothing fails | stops at the first violation | **violated**: finding 1 |
| `schedules` | a recurring task schedule and a template schedule that runs once, or an entry of the file; list limit 1; a ticking server with runs by hand and a CLI process; any 2 of ticks for any time, runs by hand, edits and 1 restart | 243,775 | overlap guard, advancing rows, what is due is served |
| `timed_out_handler` | an entry of the file, a ticking client in each of 2 processes | stops at the first violation | **violated**: finding 3 |
| `monthly_schedule` | 2 template schedules, one with an rrule the parser rejects | stops at the first violation | **violated**: finding 4 |
| `missions` | 2 tasks, any dependencies, 2 runs, 2 edits, 1 start | 808,784 | children in order, completed means all, no zombies beyond the torn write; every run ends |
| `template_instantiation` | all templates of up to 3 tasks over 3 names, 2 callers, 2 missions, 2 prefixes | 267,461 | right verdict, real cycle, right order; no task waits for another mission's; parser and calls end |

Bounds. Three steps allow a chain, a fork, a join and independent branches,
the shapes in which resume's descendants, first failed step and blockers differ;
the theorems cover every number. `MaxAttempts` and `MaxRuns` cap the counters.
`CallBudget` stops calls of an executor when too few free runs are left for a
whole walk with its retries, so that the cap never stands in the way of
termination: 6 (three steps, two attempts) with 8 runs, so a resume after an
exhausted retry and a walk after a crash both happen. In `shared_run` nothing
has to terminate and two runs are the two that collide. One crash reaches every
crash point; a second finds the state the first recovery left, which is an
ordinary state. Four requests on two slots give an expired holder, its successor,
a second active run and one that is rejected. Three clients of a lease are the
two that reclaim and the failed holder before them. The work queue has a client
in each of two processes: each may be the one that died, the one that reclaims or
the one that waits. Its requests meet as duplicates under both dedupe modes and
drop policies; one is a collect and one a followup, so that batches are taken
apart. The safety properties end where a reclaim misfires; from there the
constraint `OneItemAfterMisfire` follows the calls to their return with one item
only. Two runs of a session with two requests let a request find either
run's marker. Three providers with three attempts show the first, a middle and the
last of both loops; the theorems cover every number. The schedules' clock runs to
one interval, so a row is due, advanced and due again. Rows and entries of the file
meet only in the order of a tick, so an instance starts with one kind of them, and
of the things that people do and a restart any two come together in a behaviour
(`TwoEvents`); the tick of the CLI counts among them, that of the server does not.
That makes each collision of two of them possible; a third adds a call that finds
what two have left. What is left out is starvation by the limit of the list: rows that
are due anew at every tick keep those behind them from their turn for ever, which a
bounded clock cannot show. Two tasks of a mission have
every dependency shape, cycles included. Three template tasks are enough for a
cycle of each length, a shared dependency, a duplicate and a dangling name.

`CHECK_DEADLOCK FALSE` where it stands: a finished workflow, a released lock,
a settled call and an exhausted bound are legitimate ends.

Fairness. A synchronous stretch runs to its end (nothing preempts it); awaited
file calls, timers and services are answered or fail; a child or request ends:
`waitForExit` sends SIGTERM at `maxRuntimeSeconds` and SIGKILL a second later,
and the HTTP path aborts its request. In detail: `FairExecutionSpec` (sections,
runs, backoffs), `ConcurrencyGate!FairSpec` (calls, runs, expiry of leases),
`FairWorkSpec` (each client goes on; strongly fair for the deadline of an
acquisition, which passes though the polling of the lock file keeps interrupting
it), `SessionRuns!FairSpec` (both threads of a run), `FairCallsSpec`
(begin, retries, the timer; a provider need not answer, so `EndsInTime` speaks of
runs with a timeout), `Schedules!FairSpec` (calls go on, something outside
the program keeps ticking, and its reads of the file do not fail for ever),
`Missions!FairSpec` (the steps of a run, the second transaction of `attachTask`),
`FairInstantiationSpec` (parser and calls). Nobody is obliged to call, edit,
abort, cancel or crash.

## Findings

1. `session_turns`: `return evidenceContext.run(...)` stands in the `try` block
   without `await` (`src/packages/core/src/runtime/index.ts:108`), so the
   `finally` block stops the cancellation watch, clears the marker and releases
   the session lock while the body is still executing. A second run of the session
   interleaves its entries, although the runtime's README promises atomic access to
   session state by file locks and `runtime.lock.test.ts` is named for the
   serialisation of concurrent writes.
2. `lock_reclaim`: `reclaimStaleLock` judges the lock file in one await and removes
   whatever is at the path in a later one
   (`src/packages/core/src/runtime/session-lock.ts:84`). Of two processes that find
   the file of a dead one stale, the slower removes the file that the faster has
   just created. Both hold the lock and may save over each other,
   although the runtime's README (line 9) promises atomic access by these locks.
3. `timed_out_handler`: `runWithTimeout` rejects when the timer fires, while the
   handler goes on (`src/packages/core/src/schedule/index.ts:363`). The finally block
   then forgets the id and releases the lock, and the next tick runs the entry
   a second time beside the first. The standards
   (`src/docs/developer/product-dev-guides/05-standards.md:133`) say that a tick during a
   running scheduled task is rejected and mutates nothing twice.
4. `monthly_schedule`: upsert accepts any rrule but `COUNT=0`;
   `nextRunAfterScheduleAttempt` rejects for instance `FREQ=MONTHLY`, after a
   successful run and again in the `catch` (`services/local-services.ts:998`). The
   row never advances, every tick throws at it, and the schedules listed behind
   it are never served. The API reference documents the field as an RFC 5545 rule.

Two more have no run of their own; each is found by checking the property named in
the instance named.

5. The Kubernetes lease has the race of finding 2: `tryAcquire` reads an expired
   lease and deletes it by name, with no `resourceVersion` (`distributed-lock/k8s-lease.ts:79`).
   `K8sLeaseLock!SingleHolder` fails under `LeaseSpec` with the three clients of
   `distributed_locks`, in 13 states. The architecture guide
   (`src/docs/developer/product-dev-guides/01-architecture.md:82`) has
   `maxConcurrentRuns` enforced by these locks, and
   `src/docs/product/research/complete/03.00-distributed-locking-backends.md:77` warns
   of the missing precondition.
6. `ScheduleManager.runTask` adds the id to `runningIds` before it acquires the lock,
   outside its try block (`src/packages/core/src/schedule/index.ts:168`). When the
   acquisition throws, the id stays and the process never runs the entry again.
   `RunningFlagsClear` fails in the instance of `timed_out_handler`, in 5 states. The
   standards (line 35) say that such flags always clear by finally paths.

## Known limits

What the model shows to be possible though no document promises otherwise. Each
can be reproduced by changing the constants of a run as named.

- A zombie step. `recoverStaleWorkflowDagRuns` lists DAG runs with status
  `running` only (`services/stale-run-recovery.ts:112`), and people's `runTask`
  starts steps of failed, cancelled and resumable runs as well; after a crash such a
  step stays running. `NoZombieStep` fails in `solo_executor` with `ApiUsers = TRUE`
  (2 steps and 2 runs are enough).
- Two executors. A schedule run has an executor of its own
  (`services/local-services.ts:1045`), so the in-flight guard does not cover the
  API's; `runTask` checks the task before it awaits and not after. `OneRunPerStep`
  fails in `solo_executor` with `Executors = {e1, e2}`.
- A wedged step. The task is completed one transaction before its run and two
  before its step (`services/task-workbench.ts:771`). After a crash in between,
  resume returns the step to pending, leaves its completed task alone
  (`services/workflow-dag-executor.ts:152`), and `execute` throws on it every time.
- Runs that an executor started are in the `activeRuns` of another workbench
  instance, where the API's `cancelRun` does not look
  (`services/task-workbench.ts:967`).
- Slot leases are not renewed (`services/policy.ts:34`): with
  `RunsFitLease = FALSE` the gate no longer implements `SlotGate`.
- A death between the write of a mission run's row and that of its mission leaves the
  mission running with no run (`services/mission-workbench.ts:279`);
  `RunningMissionIsRun` excepts exactly this step, which `torn` records.
- A schedule whose process dies after its target has run and before `nextRunAt` is
  written runs that occurrence again after the restart
  (`services/local-services.ts:942`).
- A release of a lock file that fails leaves the file with a living owner, which
  is never stale: the session is locked until that process ends. Calls return all
  the same (`EveryCallReturns`).
- An instantiation that is refused or dies leaves its DAG run, its mission and
  some of its tasks behind (`services/workflow-template-catalog.ts:165`), and the
  names stay taken.

## What is proved

All theorems hold for every value of the constants that satisfies the `ASSUME`s
of the modules: any number of steps, any acyclic graph, any attempt bound, any
number of runs, executors and crashes; any finite set of requests and any limit;
any clients, processes and providers; any template and any number of calls that
instantiate it.

`WorkflowDagProofs`. The inductive invariant of `Spec` is `WellFormed`
(types, and attempt rows numbered 1 to the counter, a running step having
started) with `Recomputed` (readiness and blockers are what the step rows imply)
and, in a second layer, agreement of the newest attempt and the exactness of
`completed`. `LatestAttemptAgrees` is not inductive without knowing that a
running step has an attempt. Append-only history follows as an action property.
For `DisciplinedSpec` the invariant adds `DependencyOrder` itself. Its hard case is
resume: the lemma `AffectedUnfinished` shows that every descendant of the failed
step is neither completed nor running, as the complement of that set contains the
failed step and is closed under dependents. From it follow `CompletedForever` and,
step by step, the refinement of `StepOrder`.

`DagExecutionProofs`. `ExecutionSpec => Spec`: whoever acts and whenever the
process dies, the DAG rows change by the operations of `WorkflowDag` only, and no
step is completed or failed that was never started. So the theorems about `Spec`
hold of the running system. The invariant has two parts. `RowsInv` says what
`todo` can look like (`Sections`: a launch, an ending, a cancellation, a recovery
or a walk, and how much of each is left) together with what the earlier
transactions of the section have already written. Without it nothing can be said
in the middle of a section, and a crash may come there. It also says that every
running row is attended unless a recovery is about to run, that a running task has
a running row, and that a completed row is just returning or was never cancelled;
`NoZombieRun`, `NoZombieTask` and `CancelledNeverCompleted` follow. `DagInv` counts: a step
has been started at most as often as runs were launched, and once less while a
launch is under way, so that the bound on attempts never bites, and at
least once while a run of it is attended.

The second half is about `Solo`: one executor and no people, the deployment
without schedules and API users. It is an assumption because the code does not
ensure it; "Known limits" says what happens without it. `SoloInv` says that either no
task run is out or exactly one is, which the walking executor awaits, and ties
the steps' statuses to where that run stands: before its start nothing
runs and its step is ready (`AboutToStart`), then exactly its step runs
(`AtWork`), and once it returns nothing runs again (`Back`). Only a crash
leaves a running step without a run, and then the run's status is `running`,
which is what the startup recovery looks for. So the executor keeps to
`DisciplinedSpec` (`OneExecutorIsDisciplined`), and the theorems about it hold of the
running system: `ImplementsStepOrder`, `DependencyOrder`, `CompletedForever`.
`NoZombieStep` and `OneRunPerStep` follow from `SoloInv` itself.

`TemplateDagProofs`. For templates of any size the search's invariant says that
the stack is a path of dependencies without a repetition, that what a task on it
has looked at is visited or next on the path, and that the visited tasks are
closed under dependencies and acyclic. So a task met again on the stack closes a
real cycle, and an empty stack with everything visited means there is none
(`VerdictIsRight`). In Kahn's loop the ready list and the indegrees are exactly
what the order so far makes them, which gives `OrderIsRight`; that the loop does
not stop early is where acyclicity is used. `WorkflowDag` presupposes this of its
dependencies. For `instantiate` the invariant says that each mission is claimed by
the one call that made its DAG run, that no task of a mission exists before that
call's loop, and that the call owns the tasks of the order up to where it is. The
order being topological, a new task's dependencies are among them
(`DependsOnOwnTasks`); the prefix of the claim is the only one (`OneTaskPerStep`).

`SessionLockProofs`. No assumption is made on who reclaims when. The invariant has
a part that always holds, `LockBase`: deaths are final (`DeathIsFinal`: the life
written in a file is at most the process's present one) and what a client is about
to reclaim was the file of a dead owner (`JudgesTheDead`). The other part, `OwnersOwn`,
holds until a reclaim misfires: a client that writes or holds owns the file, in its
living incarnation. So `HolderOwnsFile`, and step by step `MutexUntilMisfire`: the one
way out of the mutex is the rm of a reclaim that came too late.
`MutexWhileNobodyDies` says when there is none: a misfire needs a dead owner.
`WorkQueue` only takes steps of the lock or leaves it alone, so the same holds for
it, and with it `CopyIsFresh`: inside the lock nobody else saves. `GuardIsExact` needs
nothing of the lock, and holds after a misfire too.

For the queue's promise `QueueInv` adds that the ids in the file are distinct and
were given out, so that the filter by id takes the batch and no more, and that a
drain removes only what its handler has finished. The items that stay are those
behind the batch, in their order (`RestIsBehindBatch`). So each save is an
addition, a replacement in place or a removal of finished work: `QueueUntilMisfire`.
`FlagIsTruthful` needs that nobody else writes between `Mark` and `Unmark`, and that
`unclean` remembers each way in which the finally block may fail to run.

`AgentRuntimeProofs`. For sessions the invariant relates each stage to the lock
and to the marker; it does not depend on the bodies, which is why the finding does
not touch it. `TurnsInOrder` is about the bodies alone: an entry's role is bounded
by what its run has got to say so far, and a body only moves forward.
For provider calls the invariant says what has been tried when the provider
of place `i` is called: all attempts of every registered provider before it. With
the history variable `fatal` that yields `FailsOnlyExhausted`, and
`NoCallAfterAbort` as an action property.

`DistributedLockProofs`. For the gate, `OnlyOwnerFrees` needs no assumption. Under
`RunsFitLease` the invariant says each active run holds its slot's entry and the
entry has not expired. Two active runs then have different slots, and the
injection gives the bound (`WithinLimit`) and the refinement of `SlotGate`. For
leases nothing is assumed. The invariant says that a lease that is there was created
(`CreatedLease`), that what a client is about to delete is out of time for good or
its own (`JudgesRightly`), and hence that until a delete removes another lease than the
one that was read, a holder in time has its lease (`HeldLeaseExists`). So two clients
hold the lock only after such a delete (`OnlyMisfiresBreakExclusion`).

`MissionsProofs`. The invariant is about what each call read at its start and has
done since: the children begun so far are a prefix of its order, each behind those
it depends on, and all but the last completed. So `ChildrenInOrder` and
`CompletedMeansAll` hold whatever people edit meanwhile. That the order has no task
twice is kept by every `InsertTaskOrder`, wherever the task is put. `NoZombieMissionRun` and
`RunningMissionIsRun` need the two places between transactions, where the row
and the mission disagree, and that a death there is remembered in `torn`.

`SchedulesProofs`. The invariant ties each call to what it serves: that is among
the running ids of its process, each id there is served or has leaked before a lock
that failed, what has leaked is not served, and no two calls of a process serve the
same. `OverlapGuard` follows; a crash empties both sides at once. Nothing of the kind
holds across processes or of handlers that outlast their timeout (finding 3).
`AttemptMovesOn` rests on `NextOccurrenceIsNext`, arithmetic for every interval.

Model-checked only: liveness (`EveryRunEnds`, `ExecutorReturns`,
`LeakedSlotRecovers`, `EveryCallReturns` and the like), which is out of the prover's
reach, as it needs fairness and ENABLED. Every invariant, action property and
refinement that a run checks is also a theorem.

## Not modelled

Views and reports (`workflow-queue-status.ts`, `workflow-status.ts`,
`readiness.ts`, `operations.ts`, `governance-audit.ts`) only read. Authorization
and RBAC are decision tables without state of interest. Plugins, manifests and
the agent catalog parse and index files; the schemas of the API and its generated
components are declarations. Providers, sandbox drivers, LSP and telemetry are
external calls. Memory storage and ranking are file and vector I/O. API, CLI and
console are the environment. `LocalFileLock` is not created by
`createDistributedLock`. Payload data, redaction and wording are left out
everywhere. These parts are most of the repository's lines; little of what they do
depends on order.

Of the modelled components: the bulk operations of the task workbench (each is a
loop of single updates), its memory requests beyond their await; the mission
workbench's list, get and detach; the catalog's list and preflight; the context
window and history of a session; sandbox routing, versions and approvals of the
policy.

## Plan

1. `EventLog`: append and the coalesced retention sweep of `event-dlq.ts`; the
   sweep after the last event eventually runs. An event between the sweep's last look at
   `sweepScheduled` and the clearing of `sweepInFlight` is the case to reach.
2. Policy: sandbox lifecycle, approvals and versioned changes.
3. Bulk operations of the task workbench, and dependsOn readiness across missions.
