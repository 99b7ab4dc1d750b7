------------------------------ MODULE Missions ------------------------------
(***************************************************************************)
(* LocalMissionWorkbenchService: a mission is run by running its tasks one *)
(* after the other, while people change the mission and its tasks, the     *)
(* process may die, and other processes start.  Every start of a process   *)
(* that opens the local services, each command of the command line among   *)
(* them, performs recoverStaleTaskAndMissionRuns.                          *)
(***************************************************************************)
EXTENDS Naturals, Sequences, FiniteSets, SequencesExt

CONSTANTS Tasks,
          Runs,        \* mission runs; each is one call of runMission
          MaxEdits,    \* bound: what people do
          MaxStarts    \* bound: startups while missions may be running

ASSUME MissionsAssumption ==
    IsFiniteSet(Tasks) /\ IsFiniteSet(Runs) /\ MaxEdits \in Nat /\ MaxStarts \in Nat

VARIABLES status,      \* the mission's status
          order,       \* the mission's taskOrder
          members,     \* the tasks whose missionId is the mission
          dependsOn,   \* dependsOn[t], as stored
          task,        \* task[t]: the status of the task
          run,         \* run[r]: the row of a mission run and the call behind it
          attaching,   \* the task attachTask has changed and not yet put in the order
          edits, starts,
          torn         \* history: a call died whose row no longer read running
vars == <<status, order, members, dependsOn, task, run, attaching, edits,
          starts, torn>>
missionVars == <<status, order, members, dependsOn>>

(***************************************************************************)
(* The place of a call: "begun" and "settling" lie within a synchronous    *)
(* section, between two of its transactions, as does a task that attaching *)
(* holds.  order and needs are the task records as runMission read them.   *)
(***************************************************************************)
Free == [row |-> "none", place |-> "free", order |-> <<>>, needs |-> [t \in Tasks |-> {}],
         children |-> <<>>]
Places == {"free", "begun", "next", "running", "returned", "settling", "gone"}
Alive(r) == run[r].place \notin {"free", "gone"}
Idle == attaching = {} /\ \A r \in Runs : run[r].place \notin {"begun", "settling"}

At(r, place) == Idle /\ run[r].place = place

(* Nobody can cancel a child: cancelRun looks in the activeRuns of another *)
(* workbench than the mission's own.                                       *)
Verdicts == {"completed", "failed", "stopped-by-limit"}

Init == /\ status = "ready"
        /\ order \in SetToSeqs(Tasks)
        /\ members = Tasks
        /\ dependsOn \in [Tasks -> SUBSET Tasks]
        /\ task = [t \in Tasks |-> "ready"]
        /\ run = [r \in Runs |-> Free]
        /\ attaching = {} /\ edits = 0 /\ starts = 0 /\ torn = FALSE
-----------------------------------------------------------------------------
(* runMission: the checks, and the run row. *)
RunsMission(r) ==
    /\ At(r, "free")
    /\ status = "ready" /\ order # <<>> /\ ToSet(order) \subseteq members
    /\ run' = [run EXCEPT ![r] = [Free EXCEPT !.row = "running", !.place = "begun",
                                              !.order = order, !.needs = dependsOn]]
    /\ UNCHANGED <<missionVars, task, attaching, edits, starts, torn>>

MarksMission(r) ==
    /\ run[r].place = "begun"
    /\ status' = "running"
    /\ run' = [run EXCEPT ![r].place = "next"]
    /\ UNCHANGED <<order, members, dependsOn, task, attaching, edits, starts, torn>>

Done(r) == Len(run[r].children)
Child(r) == run[r].order[Done(r) + 1]
CompletedTaskIds(r) == {run[r].order[k] : k \in 1 .. Done(r)}

(* finishMissionRun: the run row first, then the mission. *)
Finish(r, verdict) == run' = [run EXCEPT ![r].row = verdict, ![r].place = "settling"]

(* Mutant: the dependencies are looked up in the mission's order. *)
StartsListed(r) ==
    /\ At(r, "next") /\ Done(r) < Len(run[r].order)
    /\ run[r].needs[Child(r)] \subseteq ToSet(run[r].order)
    /\ task[Child(r)] = "ready"
    /\ task' = [task EXCEPT ![Child(r)] = "running"]
    /\ run' = [run EXCEPT ![r].place = "running"]
    /\ UNCHANGED <<missionVars, attaching, edits, starts, torn>>
(* runTask looks at the task as it is now, the mission at the dependencies *)
(* as they were.                                                           *)
Starts(r) ==
    /\ At(r, "next") /\ Done(r) < Len(run[r].order)
    /\ run[r].needs[Child(r)] \subseteq CompletedTaskIds(r)
    /\ task[Child(r)] = "ready"
    /\ task' = [task EXCEPT ![Child(r)] = "running"]
    /\ run' = [run EXCEPT ![r].place = "running"]
    /\ UNCHANGED <<missionVars, attaching, edits, starts, torn>>

(* Mutant: what runTask throws is not caught. *)
LetsItThrow(r) ==
    /\ At(r, "next") /\ Done(r) < Len(run[r].order)
    /\ run' = [run EXCEPT ![r].place = "gone"]
    /\ UNCHANGED <<missionVars, task, attaching, edits, starts, torn>>
(* A dependency is missing; or runTask throws, because the task is not     *)
(* ready or its agent not available.                                       *)
CannotStart(r) ==
    /\ At(r, "next") /\ Done(r) < Len(run[r].order)
    /\ Finish(r, "failed")
    /\ UNCHANGED <<missionVars, task, attaching, edits, starts, torn>>

(* The child run ends: its task reads "failed" when it was stopped by a    *)
(* limit.                                                                  *)
TaskEnds(r, verdict) ==
    /\ At(r, "running")
    /\ task' = [task EXCEPT ![Child(r)] = IF verdict = "stopped-by-limit" THEN "failed"
                                          ELSE verdict]
    /\ run' = [run EXCEPT ![r].place = "returned",
                          ![r].children = Append(@, verdict)]
    /\ UNCHANGED <<missionVars, attaching, edits, starts, torn>>

GoesOn(r) ==
    /\ At(r, "returned")
    /\ Last(run[r].children) = "completed"
    /\ run' = [run EXCEPT ![r].place = "next"]
    /\ UNCHANGED <<missionVars, task, attaching, edits, starts, torn>>

(* Mutant: a stopped child is run once more. *)
TriesAgain(r) ==
    /\ At(r, "returned")
    /\ Last(run[r].children) # "completed"
    /\ task' = [task EXCEPT ![run[r].order[Done(r)]] = "ready"]
    /\ run' = [run EXCEPT ![r].place = "next", ![r].children = Front(@)]
    /\ UNCHANGED <<missionVars, attaching, edits, starts, torn>>
Stops(r) ==
    /\ At(r, "returned")
    /\ Last(run[r].children) # "completed"
    /\ Finish(r, Last(run[r].children))
    /\ UNCHANGED <<missionVars, task, attaching, edits, starts, torn>>

Completes(r) ==
    /\ At(r, "next") /\ Done(r) = Len(run[r].order)
    /\ Finish(r, "completed")
    /\ UNCHANGED <<missionVars, task, attaching, edits, starts, torn>>

SettlesMission(r) ==
    /\ run[r].place = "settling"
    /\ status' = IF run[r].row = "stopped-by-limit" THEN "failed" ELSE run[r].row
    /\ run' = [run EXCEPT ![r].place = "gone"]
    /\ UNCHANGED <<order, members, dependsOn, task, attaching, edits, starts, torn>>
-----------------------------------------------------------------------------
Edit == Idle /\ edits < MaxEdits /\ edits' = edits + 1 /\ UNCHANGED <<run, starts, torn>>

(* PATCH of the mission: ready again, whatever it is doing. *)
ReadiesMission == /\ Edit
                  /\ status # "ready"
                  /\ status' = "ready"
                  /\ UNCHANGED <<order, members, dependsOn, task, attaching>>

ReadiesTask(t) == /\ Edit
                  /\ task[t] # "ready"
                  /\ task' = [task EXCEPT ![t] = "ready"]
                  /\ UNCHANGED <<missionVars, attaching>>

(* No task is in the order twice. *)
InsertTaskOrder(tasks, t, position) ==
    LET rest == RemoveFirst(tasks, t)
    IN  InsertAt(rest, IF position > Len(rest) + 1 THEN Len(rest) + 1 ELSE position, t)

(* attachTask, its first transaction: the task is made one of the mission, *)
(* with new dependencies when the request names them.                      *)
AttachesTask(t) == /\ Edit
                   /\ members' = members \cup {t}
                   /\ \E deps \in SUBSET Tasks : dependsOn' = [dependsOn EXCEPT ![t] = deps]
                   /\ attaching' = {t}
                   /\ UNCHANGED <<status, order, task>>

(* The second: the order, which is still the one read before the first.    *)
OrdersTask == /\ \E t \in attaching, position \in 1 .. Len(order) + 1 :
                    order' = InsertTaskOrder(order, t, position)
              /\ attaching' = {}
              /\ UNCHANGED <<status, members, dependsOn, task, run, edits, starts, torn>>

(* attachTask of another mission: this one's taskOrder keeps the task. *)
AttachesElsewhere(t) == /\ Edit
                        /\ t \in members
                        /\ members' = members \ {t}
                        /\ UNCHANGED <<status, order, dependsOn, task, attaching>>

(* recoverStaleTaskAndMissionRuns, one transaction: every run row that     *)
(* reads running is taken for stale.  gone: the calls that have died.      *)
(* Mutant: the mission is left as it is. *)
RecoverRowsOnly(gone) ==
    /\ run' = [r \in Runs |->
                 [run[r] EXCEPT !.row = IF @ = "running" THEN "failed" ELSE @,
                                !.place = IF r \in gone THEN "gone" ELSE @]]
    /\ task' = [t \in Tasks |-> IF task[t] = "running" THEN "failed" ELSE task[t]]
    /\ UNCHANGED missionVars
Recover(gone) ==
    /\ run' = [r \in Runs |->
                 [run[r] EXCEPT !.row = IF @ = "running" THEN "failed" ELSE @,
                                !.place = IF r \in gone THEN "gone" ELSE @]]
    /\ task' = [t \in Tasks |-> IF task[t] = "running" THEN "failed" ELSE task[t]]
    /\ status' = IF status = "running" /\ \E r \in Runs : run[r].row = "running"
                 THEN "failed" ELSE status
    /\ UNCHANGED <<order, members, dependsOn>>

Start == starts < MaxStarts /\ starts' = starts + 1 /\ UNCHANGED edits

(* The process dies, between any two transactions, and starts again. *)
Restarts == /\ Start
            /\ Recover({r \in Runs : Alive(r)})
            /\ attaching' = {}
            /\ torn' = (torn \/ \E r \in Runs : Alive(r) /\ run[r].row # "running")

(* Another process starts; the calls of this one live on. *)
OtherStarts == /\ Start
               /\ Recover({})
               /\ UNCHANGED <<attaching, torn>>

RunStep(r) == \/ MarksMission(r) \/ Starts(r) \/ CannotStart(r)
              \/ \E verdict \in Verdicts : TaskEnds(r, verdict)
              \/ GoesOn(r) \/ Stops(r) \/ Completes(r) \/ SettlesMission(r)

Next == \/ \E r \in Runs : RunsMission(r) \/ RunStep(r)
        \/ ReadiesMission
        \/ \E t \in Tasks : ReadiesTask(t) \/ AttachesTask(t) \/ AttachesElsewhere(t)
        \/ OrdersTask \/ Restarts \/ OtherStarts

Spec == Init /\ [][Next]_vars

(* A task run ends at the latest with its maximum runtime, and a section   *)
(* without an await goes on to its end.                                    *)
FairSpec == Spec /\ WF_vars(OrdersTask) /\ \A r \in Runs : WF_vars(RunStep(r))
-----------------------------------------------------------------------------
MissionsTypeOK ==
    /\ status \in {"ready", "running", "completed", "failed"}
    /\ order \in Seq(Tasks) /\ IsInjective(order)
    /\ members \subseteq Tasks
    /\ dependsOn \in [Tasks -> SUBSET Tasks]
    /\ task \in [Tasks -> {"ready", "running", "completed", "failed"}]
    /\ attaching \subseteq members
    /\ \A r \in Runs :
          /\ run[r].row \in {"none", "running"} \cup Verdicts
          /\ run[r].place \in Places
          /\ run[r].order \in Seq(Tasks)
          /\ run[r].children \in Seq(Verdicts)

(* Within a run no task is started before all it depended on have been     *)
(* completed by the same run, and none after one that was not completed.   *)
ChildrenInOrder ==
    \A r \in Runs :
       LET started == IF run[r].place = "running" THEN Done(r) + 1 ELSE Done(r)
       IN  /\ \A k \in 1 .. started - 1 : run[r].children[k] = "completed"
           /\ \A k \in 1 .. started : \A t \in run[r].needs[run[r].order[k]] :
                 \E l \in 1 .. k - 1 : run[r].order[l] = t

(* A run that reads completed has completed every task of the order.       *)
CompletedMeansAll ==
    \A r \in Runs : run[r].row = "completed" =>
       /\ Len(run[r].children) = Len(run[r].order)
       /\ \A k \in DOMAIN run[r].children : run[r].children[k] = "completed"

(* What the rows of mission runs say is true: children in dependency order *)
(* and, of a completed run, all of them.                                   *)
MissionsInv == MissionsTypeOK /\ ChildrenInOrder /\ CompletedMeansAll

(* A run row that reads running has a call behind it.                      *)
NoZombieMissionRun == \A r \in Runs : run[r].row = "running" => Alive(r)

(* A mission that reads running is being run, unless the process died      *)
(* when the row of the run no longer read running: finishMissionRun        *)
(* writes the row before the mission, and the recovery looks for running   *)
(* rows only.                                                              *)
RunningMissionIsRun == status = "running" => torn \/ \E r \in Runs : Alive(r)

(* Every mission run ends. *)
EveryMissionRunEnds == \A r \in Runs : Alive(r) ~> ~ Alive(r)
=============================================================================
