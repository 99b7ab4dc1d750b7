------------------------ MODULE TemplateInstantiation ------------------------
(***************************************************************************)
(* instantiate of the workflow template catalog: an accepted template      *)
(* becomes a workflow DAG run, a mission and one task per template task.   *)
(* Each is written in a transaction of its own, in several processes at    *)
(* once (the server and CLI commands share the database), and a call may   *)
(* fail or die after any of them.  Names of rows come from the request:    *)
(* two calls may ask for the same mission or the same task prefix.         *)
(***************************************************************************)
EXTENDS TemplateDag

CONSTANTS Callers, Missions, Prefixes,
          NoMission   \* no row

ASSUME RequestsAssumption == NoMission \notin Missions

VARIABLES call,      \* call[c]: where caller c's instantiate stands, and its request
          dagRuns,   \* missions with a DAG run "workflow-run-<mission>"
          missions,  \* mission rows
          owner      \* owner[p, i]: missionId of the task "<p>-<i>", if there is one
rows == <<dagRuns, missions, owner>>
instantiationVars == <<vars, call, rows>>

Places == {"idle", "mission", "tasks", "returned", "failed"}
Ended == {"returned", "failed"}

At(c, somewhere) == place = "accepted" /\ call[c].place = somewhere /\ UNCHANGED vars
To(c, somewhere) == call' = [call EXCEPT ![c].place = somewhere]

InstantiationInit ==
    /\ Init
    /\ call \in [Callers -> [place : {"idle"}, mission : {NoMission}, prefix : {NoMission},
                             created : {0}]]
    /\ dagRuns = {} /\ missions = {}
    /\ owner = [p \in Prefixes |-> [i \in Tasks |-> NoMission]]
-----------------------------------------------------------------------------
(* The id of a DAG run is unique: a second call for the mission throws.    *)
CreatesRun(c, m, p) ==
    /\ At(c, "idle")
    /\ call' = [call EXCEPT ![c] = [place |-> IF m \in dagRuns THEN "failed" ELSE "mission",
                                    mission |-> m, prefix |-> p, created |-> 0]]
    /\ dagRuns' = dagRuns \cup {m}
    /\ UNCHANGED <<missions, owner>>

CreatesMission(c) ==
    LET m == call[c].mission
    IN  /\ At(c, "mission")
        /\ To(c, IF m \in missions THEN "failed" ELSE "tasks")
        /\ missions' = missions \cup {m}
        /\ UNCHANGED <<dagRuns, owner>>

(* The tasks in the order of the DAG. *)
NextTask(c) == taskOrder[call[c].created + 1]

(* Mutant: off by one. *)
TasksLeftButOne(c) == call[c].created + 1 < Len(taskOrder)
TasksLeft(c) == call[c].created < Len(taskOrder)

(* Mutant: a task that is there already is passed over. *)
CreatesOrSkipsTask(c) ==
    /\ At(c, "tasks") /\ TasksLeft(c)
    /\ owner' = IF owner[call[c].prefix][NextTask(c)] # NoMission THEN owner
                ELSE [owner EXCEPT ![call[c].prefix][NextTask(c)] = call[c].mission]
    /\ call' = [call EXCEPT ![c].created = @ + 1]
    /\ UNCHANGED <<dagRuns, missions>>
CreatesTask(c) ==
    /\ At(c, "tasks") /\ TasksLeft(c)
    /\ owner[call[c].prefix][NextTask(c)] = NoMission
    /\ owner' = [owner EXCEPT ![call[c].prefix][NextTask(c)] = call[c].mission]
    /\ call' = [call EXCEPT ![c].created = @ + 1]
    /\ UNCHANGED <<dagRuns, missions>>

(* The task's id is taken. *)
TaskIsTaken(c) ==
    /\ At(c, "tasks") /\ TasksLeft(c)
    /\ owner[call[c].prefix][NextTask(c)] # NoMission
    /\ To(c, "failed")
    /\ UNCHANGED rows

(* A text does not render, or the agent of a task is missing, disabled or  *)
(* lacks a capability.                                                     *)
Refuses(c) == /\ \/ At(c, "mission")
                 \/ At(c, "tasks") /\ TasksLeft(c)
              /\ To(c, "failed")
              /\ UNCHANGED rows

Returns(c) == /\ At(c, "tasks") /\ ~ TasksLeft(c)
              /\ To(c, "returned")
              /\ UNCHANGED rows

(* The caller's process dies; what it has written stays. *)
Dies(c) == /\ \E somewhere \in Places \ (Ended \cup {"idle"}) : At(c, somewhere)
           /\ To(c, "failed")
           /\ UNCHANGED rows

CallStep(c) == CreatesMission(c) \/ CreatesTask(c) \/ TaskIsTaken(c) \/ Refuses(c) \/ Returns(c)

InstantiationNext ==
    \/ Next /\ UNCHANGED <<call, rows>>
    \/ \E c \in Callers : \/ \E m \in Missions, p \in Prefixes : CreatesRun(c, m, p)
                          \/ CallStep(c)
                          \/ Dies(c)

InstantiationSpec == InstantiationInit /\ [][InstantiationNext]_instantiationVars

(* The parser and the calls go on while they can. *)
FairInstantiationSpec ==
    /\ InstantiationSpec
    /\ WF_instantiationVars(Next /\ UNCHANGED <<call, rows>>)
    /\ \A c \in Callers : WF_instantiationVars(CallStep(c))
-----------------------------------------------------------------------------
(* However calls collide and fail, a task is there only with its mission,  *)
(* and whatever it depends on is there and belongs to the same mission, so *)
(* that no task waits for another mission's.                               *)
DependsOnOwnTasks ==
    \A p \in Prefixes : \A i \in Tasks :
       owner[p][i] # NoMission =>
          /\ owner[p][i] \in missions \cap dagRuns
          /\ \A j \in Dependencies(i) : owner[p][j] = owner[p][i]

(* A call that returns has made a run, a mission and, for each step of the *)
(* run, exactly one task: findByWorkflowDagStep never has to choose.       *)
OneTaskPerStep ==
    \A c \in Callers : call[c].place = "returned" =>
       /\ call[c].mission \in missions \cap dagRuns
       /\ \A i \in Tasks : {p \in Prefixes : owner[p][i] = call[c].mission} = {call[c].prefix}

(* The parser comes to its verdict and every call to its end. *)
EveryInstantiationEnds ==
    /\ Terminates
    /\ \A c \in Callers : call[c].place # "idle" ~> call[c].place \in Ended
=============================================================================
