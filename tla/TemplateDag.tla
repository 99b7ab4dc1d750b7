---------------------------- MODULE TemplateDag ----------------------------
(***************************************************************************)
(* parseWorkflowTemplateDag: the tasks of a workflow template are checked, *)
(* searched depth first for a cycle, and put in order by Kahn's algorithm. *)
(* One action per iteration of a loop.  What StepOrder and WorkflowDag     *)
(* suppose of a template's dependencies is shown here.                     *)
(***************************************************************************)
EXTENDS Naturals, Sequences, FiniteSets

CONSTANTS Names,     \* task ids
          NoName,    \* a missing or empty id
          MaxTasks   \* bound: tasks of a template

ASSUME NamesAssumption == NoName \notin Names /\ MaxTasks \in Nat

VARIABLES given,     \* the tasks as they stand in the template
          place,     \* "check", "search", "order", "accepted" or "rejected"
          issues,    \* the keywords of the issues found
          cycle,     \* the cycle reported
          stack,     \* findCycle: the tasks being visited, innermost last
          left,      \* left[i]: dependencies of i not looked at yet
          visited,
          indegree, ready, taskOrder
vars == <<given, place, issues, cycle, stack, left, visited, indegree, ready, taskOrder>>
searchVars == <<stack, left, visited>>
orderVars == <<indegree, ready, taskOrder>>

(* A dependsOn is a list of names, of which only the set counts            *)
(* (normalizeDependencyList), or something else.                           *)
NotAList == [isList |-> FALSE, names |-> {}]
DependsOn == [isList : {TRUE}, names : SUBSET Names] \cup {NotAList}
Templates == UNION {[1..n -> [id : Names \cup {NoName}, dependsOn : DependsOn]] : n \in 0..MaxTasks}

Tasks == DOMAIN given
Dependencies(i) == {j \in Tasks : given[j].id \in given[i].dependsOn.names}
Dependents(i) == {j \in Tasks : i \in Dependencies(j)}

Least(i, S) == i \in S /\ \A j \in S : i <= j

Init == /\ given \in Templates
        /\ place = "check"
        /\ issues = {}
        /\ cycle = <<>>
        /\ stack = <<>>
        /\ left = [i \in DOMAIN given |-> {}]
        /\ visited = {}
        /\ indegree = [i \in DOMAIN given |-> 0]
        /\ ready = {}
        /\ taskOrder = <<>>
-----------------------------------------------------------------------------
Named(i) == given[i].id # NoName

(* normalizeDagTasks: a task without an id is passed over. *)
ShapeIssues ==
    (IF Tasks = {} THEN {"minItems"} ELSE {})
    \cup (IF \E i \in Tasks : ~ Named(i) THEN {"required"} ELSE {})
    \cup (IF \E i, j \in Tasks : i # j /\ Named(i) /\ given[i].id = given[j].id
          THEN {"uniqueTaskIds"} ELSE {})
    \cup (IF \E i \in Tasks : Named(i) /\ ~ given[i].dependsOn.isList THEN {"type"} ELSE {})

OwnName(i) == given[i].id
AllNames == {given[j].id : j \in Tasks}

(* The first loop of validateNormalizedDagTasks. *)
ReferenceIssues ==
    (IF \E i \in Tasks : OwnName(i) \in given[i].dependsOn.names THEN {"selfDependency"} ELSE {})
    \cup (IF \E i \in Tasks : ~ (given[i].dependsOn.names \subseteq AllNames)
          THEN {"missingDependency"} ELSE {})

Checks == /\ place = "check"
          /\ issues' = IF ShapeIssues # {} THEN ShapeIssues ELSE ReferenceIssues
          /\ IF issues' = {}
             THEN place' = "search" /\ left' = [i \in Tasks |-> Dependencies(i)]
             ELSE place' = "rejected" /\ UNCHANGED left
          /\ UNCHANGED <<given, cycle, stack, visited, orderVars>>
-----------------------------------------------------------------------------
Top == stack[Len(stack)]
OnStack(i) == \E k \in DOMAIN stack : stack[k] = i

Push(i) == stack' = Append(stack, i)
Pop == stack' = SubSeq(stack, 1, Len(stack) - 1)

(* findCycle: a visit for each task, in their order. *)
VisitsNext == /\ place = "search" /\ stack = <<>>
              /\ \E i \in Tasks : Least(i, Tasks \ visited) /\ Push(i)
              /\ UNCHANGED <<given, place, issues, cycle, left, visited, orderVars>>

LooksAt(i) == left' = [left EXCEPT ![Top] = @ \ {i}]

PassesOver == /\ place = "search" /\ stack # <<>>
              /\ \E i \in left[Top] : i \in visited /\ LooksAt(i)
              /\ UNCHANGED <<given, place, issues, cycle, stack, visited, orderVars>>

Descends == /\ place = "search" /\ stack # <<>>
            /\ \E i \in left[Top] : i \notin visited /\ ~ OnStack(i) /\ LooksAt(i) /\ Push(i)
            /\ UNCHANGED <<given, place, issues, cycle, visited, orderVars>>

(* The cycle is the stack from the first visit of the task on. *)
CycleTo(i) == LET start == CHOOSE k \in DOMAIN stack : stack[k] = i
              IN  Append(SubSeq(stack, start, Len(stack)), i)

(* Mutant: a task that was visited before is taken for a cycle. *)
ClosesOnVisited == /\ place = "search" /\ stack # <<>>
                   /\ \E i \in left[Top] : i \in visited /\ cycle' = Append(stack, i)
                   /\ place' = "rejected"
                   /\ issues' = {"cycle"}
                   /\ UNCHANGED <<given, searchVars, orderVars>>
ClosesCycle == /\ place = "search" /\ stack # <<>>
               /\ \E i \in left[Top] : i \notin visited /\ OnStack(i) /\ cycle' = CycleTo(i)
               /\ place' = "rejected"
               /\ issues' = {"cycle"}
               /\ UNCHANGED <<given, searchVars, orderVars>>

(* Mutant: the task stays on the stack. *)
FinishesInPlace == /\ place = "search" /\ stack # <<>>
                   /\ left[Top] = {}
                   /\ visited' = visited \cup {Top}
                   /\ UNCHANGED <<given, place, issues, cycle, stack, left, orderVars>>
Finishes == /\ place = "search" /\ stack # <<>>
            /\ left[Top] = {}
            /\ visited' = visited \cup {Top}
            /\ Pop
            /\ UNCHANGED <<given, place, issues, cycle, left, orderVars>>

(* buildWorkflowTemplateDag starts with the tasks that depend on nothing.  *)
FindsNoCycle == /\ place = "search" /\ stack = <<>>
                /\ visited = Tasks
                /\ place' = "order"
                /\ indegree' = [i \in Tasks |-> Cardinality(Dependencies(i))]
                /\ ready' = {i \in Tasks : Dependencies(i) = {}}
                /\ UNCHANGED <<given, issues, cycle, searchVars, taskOrder>>
-----------------------------------------------------------------------------
(* ready is kept sorted by the index, so its first element is the least.   *)
FirstReady(i) == Least(i, ready)

(* Mutant: a dependent gets ready with its first dependency. *)
OrdersEarly == /\ place = "order"
               /\ \E i \in Tasks :
                     /\ FirstReady(i)
                     /\ taskOrder' = Append(taskOrder, i)
                     /\ indegree' = [indegree EXCEPT ![i] = 0]
                     /\ ready' = (ready \ {i}) \cup Dependents(i)
               /\ UNCHANGED <<given, place, issues, cycle, searchVars>>
Orders == /\ place = "order"
          /\ \E i \in Tasks :
                /\ FirstReady(i)
                /\ taskOrder' = Append(taskOrder, i)
                /\ indegree' = [j \in Tasks |-> IF j \in Dependents(i) THEN indegree[j] - 1
                                                ELSE indegree[j]]
                /\ ready' = (ready \ {i}) \cup {j \in Dependents(i) : indegree[j] = 1}
          /\ UNCHANGED <<given, place, issues, cycle, searchVars>>

Accepts == /\ place = "order" /\ ready = {}
           /\ place' = "accepted"
           /\ UNCHANGED <<given, issues, cycle, searchVars, orderVars>>

Next == \/ Checks
        \/ VisitsNext \/ PassesOver \/ Descends \/ ClosesCycle \/ Finishes \/ FindsNoCycle
        \/ Orders \/ Accepts

Spec == Init /\ [][Next]_vars

FairSpec == Spec /\ WF_vars(Next)
-----------------------------------------------------------------------------
TemplateDagTypeOK ==
    /\ place \in {"check", "search", "order", "accepted", "rejected"}
    /\ issues \subseteq {"minItems", "required", "uniqueTaskIds", "type",
                         "selfDependency", "missingDependency", "cycle"}
    /\ cycle \in Seq(Tasks) /\ stack \in Seq(Tasks) /\ taskOrder \in Seq(Tasks)
    /\ left \in [Tasks -> SUBSET Tasks]
    /\ visited \subseteq Tasks /\ ready \subseteq Tasks
    /\ indegree \in [Tasks -> Nat]

(* What a template should be: tasks with names of their own, dependencies  *)
(* among them, and in every group of tasks one that depends on no other of *)
(* the group.                                                              *)
WellNamed == /\ Tasks # {}
             /\ \A i \in Tasks : Named(i) /\ given[i].dependsOn.isList
             /\ \A i, j \in Tasks : given[i].id = given[j].id => i = j
             /\ \A i \in Tasks : given[i].dependsOn.names \subseteq AllNames
Acyclic == \A S \in SUBSET Tasks :
              S # {} => \E i \in S : Dependencies(i) \cap S = {}

(* A template is rejected only if it is not what it should be, ...         *)
RejectsOnlyBad == place = "rejected" => ~ (WellNamed /\ Acyclic)

(* ... and one that is put in order is what it should be.                  *)
AcceptsOnlyGood == place \in {"order", "accepted"} => WellNamed /\ Acyclic

(* The cycle of the message leads from a task back to it, and each task on *)
(* it depends on the next.                                                 *)
CycleIsReal ==
    issues = {"cycle"} =>
       /\ Len(cycle) > 1 /\ cycle[1] = cycle[Len(cycle)]
       /\ \A k \in 1 .. (Len(cycle) - 1) : cycle[k + 1] \in Dependencies(cycle[k])

(* The verdict is right, whichever way it falls, and its reason is real.   *)
VerdictIsRight == RejectsOnlyBad /\ AcceptsOnlyGood /\ CycleIsReal

Placed == {taskOrder[k] : k \in DOMAIN taskOrder}

(* Every task of an accepted template has one place in the order.          *)
OrderIsComplete ==
    place = "accepted" =>
       /\ Placed = Tasks
       /\ \A k, l \in DOMAIN taskOrder : taskOrder[k] = taskOrder[l] => k = l

(* A task comes after everything it depends on, ...                        *)
DependenciesFirst ==
    \A k \in DOMAIN taskOrder : \A i \in Dependencies(taskOrder[k]) :
       \E l \in 1 .. (k - 1) : taskOrder[l] = i

(* ... and of the tasks that could come next, the first of the template    *)
(* does: the order does not depend on how the search or the sorting went.  *)
EarliestFirst ==
    \A k \in DOMAIN taskOrder :
       LET before == {taskOrder[l] : l \in 1 .. (k - 1)}
       IN  \A i \in Tasks \ before : Dependencies(i) \subseteq before => taskOrder[k] <= i

(* The order is the one topological order of all the tasks that takes the  *)
(* earliest task it can at every place.                                    *)
OrderIsRight == OrderIsComplete /\ DependenciesFirst /\ EarliestFirst

(* The loops end. *)
Terminates == <>(place \in {"accepted", "rejected"})
=============================================================================
