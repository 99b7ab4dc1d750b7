------------------------- MODULE TemplateDagProofs -------------------------
(***************************************************************************)
(* Proofs about TemplateDag and TemplateInstantiation, for templates of    *)
(* any size and any number of callers: the parser's verdict and order are  *)
(* right, and no task waits for a task of another mission.                 *)
(***************************************************************************)
EXTENDS TemplateInstantiation, FiniteSetTheorems, TLAPS

(***************************************************************************)
(* The search: the stack is a path of tasks under visit, what has been     *)
(* looked at of a task on it is visited or next on the path, and what is   *)
(* visited is closed under dependencies and has no cycle.                  *)
(***************************************************************************)
StackIsPath ==
    \A k \in 1 .. (Len(stack) - 1) : stack[k + 1] \in Dependencies(stack[k])
StackIsFresh ==
    \A k \in DOMAIN stack :
       /\ stack[k] \notin visited
       /\ \A l \in DOMAIN stack : stack[k] = stack[l] => k = l
LeftIsRest ==
    /\ \A i \in Tasks : left[i] \subseteq Dependencies(i)
    /\ \A i \in Tasks : i \notin visited /\ ~ OnStack(i) => left[i] = Dependencies(i)
    /\ \A k \in DOMAIN stack : \A j \in Dependencies(stack[k]) :
          j \in left[stack[k]] \/ j \in visited \/ (k < Len(stack) /\ j = stack[k + 1])
VisitedIsAcyclic ==
    /\ \A i \in visited : Dependencies(i) \subseteq visited
    /\ \A S \in SUBSET visited : S # {} => \E i \in S : Dependencies(i) \cap S = {}
SearchInv == WellNamed /\ StackIsPath /\ StackIsFresh /\ LeftIsRest /\ VisitedIsAcyclic

(***************************************************************************)
(* Kahn's loop: the ready list and the indegrees are what the order so far *)
(* makes them.                                                             *)
(***************************************************************************)
ReadyIsExact == ready = {i \in Tasks \ Placed : Dependencies(i) \subseteq Placed}
IndegreeIsExact == \A i \in Tasks : indegree[i] = Cardinality(Dependencies(i) \ Placed)
NoneTwice == \A k, l \in DOMAIN taskOrder : taskOrder[k] = taskOrder[l] => k = l
OrderInv == /\ WellNamed /\ Acyclic
            /\ ReadyIsExact /\ IndegreeIsExact
            /\ NoneTwice /\ DependenciesFirst /\ EarliestFirst

TemplateInv ==
    /\ given \in Templates /\ TemplateDagTypeOK
    /\ place \in {"check", "search", "rejected"} => taskOrder = <<>>
    /\ place = "check" => issues = {} /\ stack = <<>> /\ visited = {}
    /\ place = "search" => issues = {} /\ SearchInv
    /\ place \in {"order", "accepted"} => issues = {} /\ OrderInv
    /\ place = "accepted" => Placed = Tasks
    /\ RejectsOnlyBad /\ CycleIsReal

LEMMA TasksAreNumbered ==
    ASSUME given \in Templates
    PROVE  /\ Tasks \subseteq Nat /\ IsFiniteSet(Tasks)
           /\ \A i \in Tasks : /\ Dependencies(i) \subseteq Tasks
                               /\ IsFiniteSet(Dependencies(i))
<1>1. PICK n \in Nat : Tasks = 1 .. n
  BY NamesAssumption DEF Templates, Tasks
<1>2. IsFiniteSet(Tasks)
  BY <1>1, FS_Interval
<1>3. \A i \in Tasks : Dependencies(i) \subseteq Tasks
  BY DEF Dependencies
<1>4. QED
  BY <1>1, <1>2, <1>3, FS_Subset

(* The graph does not change. *)
LEMMA SameGraph ==
    ASSUME given' = given
    PROVE  /\ Tasks' = Tasks /\ WellNamed' = WellNamed /\ Acyclic' = Acyclic
           /\ \A i : Dependencies(i)' = Dependencies(i)
  BY DEF Tasks, WellNamed, Acyclic, Dependencies, Named, AllNames

(* A template that is well named and passes the first loop. *)
LEMMA ChecksAreRight ==
    ASSUME given \in Templates
    PROVE  /\ ShapeIssues = {} /\ ReferenceIssues = {} => WellNamed
           /\ WellNamed => ShapeIssues = {}
           /\ WellNamed /\ Acyclic => ReferenceIssues = {}
           /\ ShapeIssues # {"cycle"} /\ ReferenceIssues # {"cycle"}
<1>1. ShapeIssues = {} /\ ReferenceIssues = {} => WellNamed
  BY DEF ShapeIssues, ReferenceIssues, WellNamed, Named
<1>2. WellNamed => ShapeIssues = {}
  BY DEF ShapeIssues, WellNamed
<1>3. ASSUME WellNamed, Acyclic PROVE ReferenceIssues = {}
  <2>1. \A i \in Tasks : given[i].dependsOn.names \subseteq AllNames
    BY <1>3 DEF WellNamed
  <2>2. ASSUME NEW i \in Tasks PROVE OwnName(i) \notin given[i].dependsOn.names
    <3>1. Dependencies(i) \cap {i} = {}
      BY <1>3 DEF Acyclic
    <3>2. QED
      BY <3>1 DEF Dependencies, OwnName
  <2>3. QED
    BY <2>1, <2>2 DEF ReferenceIssues
<1>4. ShapeIssues # {"cycle"} /\ ReferenceIssues # {"cycle"}
  BY DEF ShapeIssues, ReferenceIssues
<1>5. QED
  BY <1>1, <1>2, <1>3, <1>4

LEMMA TemplateInit == ASSUME Init PROVE TemplateInv
  BY DEF Init, TemplateInv, TemplateDagTypeOK, RejectsOnlyBad, CycleIsReal, Tasks

(* A cycle leaves no task of it without another of it.                     *)
CyclePath(path) ==
    /\ path \in Seq(Tasks) /\ Len(path) > 1 /\ path[1] = path[Len(path)]
    /\ \A k \in 1 .. (Len(path) - 1) : path[k + 1] \in Dependencies(path[k])

LEMMA CycleRefutes == ASSUME NEW path, CyclePath(path) PROVE ~ Acyclic
<1> DEFINE S == {path[k] : k \in DOMAIN path}
<1>1. path \in Seq(Tasks) /\ Len(path) > 1 /\ path[1] = path[Len(path)]
  BY DEF CyclePath
<1>2. \A k \in 1 .. (Len(path) - 1) : path[k + 1] \in Dependencies(path[k])
  BY DEF CyclePath
<1>3. S \in SUBSET Tasks /\ S # {}
  BY <1>1
<1>4. ASSUME NEW i \in S PROVE Dependencies(i) \cap S # {}
  <2>1. PICK k \in 1 .. (Len(path) - 1) : path[k] = i
    <3>1. PICK l \in 1 .. Len(path) : path[l] = i
      BY <1>1
    <3>2. l = Len(path) => path[1] = i
      BY <1>1, <3>1
    <3>3. QED
      BY <1>1, <3>1, <3>2
  <2>2. path[k + 1] \in Dependencies(i) /\ k + 1 \in DOMAIN path
    BY <1>1, <1>2, <2>1
  <2>3. QED
    BY <2>2
<1>5. QED
  BY <1>3, <1>4 DEF Acyclic

(***************************************************************************)
(* The steps of the parser.                                                *)
(***************************************************************************)
LEMMA ChecksKeeps == ASSUME TemplateInv, Checks PROVE TemplateInv'
<1>1. /\ place = "check" /\ stack = <<>> /\ visited = {} /\ taskOrder = <<>>
      /\ given' = given /\ cycle' = cycle /\ stack' = <<>> /\ visited' = {}
      /\ indegree' = indegree /\ ready' = ready /\ taskOrder' = <<>>
      /\ issues' = IF ShapeIssues # {} THEN ShapeIssues ELSE ReferenceIssues
      /\ IF issues' = {}
         THEN place' = "search" /\ left' = [i \in Tasks |-> Dependencies(i)]
         ELSE place' = "rejected" /\ left' = left
  BY DEF Checks, TemplateInv, orderVars
<1>2. /\ given \in Templates /\ TemplateDagTypeOK
      /\ \A i \in Tasks : Dependencies(i) \subseteq Tasks
  BY TasksAreNumbered DEF TemplateInv
<1>3. /\ Tasks' = Tasks /\ WellNamed' = WellNamed /\ Acyclic' = Acyclic
      /\ \A i : Dependencies(i)' = Dependencies(i)
  BY <1>1, SameGraph
<1>4. issues' # {"cycle"} /\ CycleIsReal'
  BY <1>1, <1>2, ChecksAreRight DEF CycleIsReal
<1>5. issues' \subseteq {"minItems", "required", "uniqueTaskIds", "type",
                        "selfDependency", "missingDependency", "cycle"}
  BY <1>1 DEF ShapeIssues, ReferenceIssues
<1>6. TemplateDagTypeOK'
  BY <1>1, <1>2, <1>3, <1>5 DEF TemplateDagTypeOK
<1>7. CASE issues' = {}
  <2>1. place' = "search" /\ WellNamed'
    BY <1>1, <1>2, <1>3, <1>7, ChecksAreRight
  <2>2. SearchInv'
    BY <1>1, <1>3, <1>7, <2>1
       DEF SearchInv, StackIsPath, StackIsFresh, LeftIsRest, VisitedIsAcyclic
  <2>3. QED
    BY <1>1, <1>2, <1>4, <1>6, <1>7, <2>1, <2>2 DEF TemplateInv, RejectsOnlyBad
<1>8. CASE issues' # {}
  <2>1. place' = "rejected" /\ ~ (WellNamed' /\ Acyclic')
    BY <1>1, <1>2, <1>3, <1>8, ChecksAreRight
  <2>2. QED
    BY <1>1, <1>2, <1>4, <1>6, <2>1 DEF TemplateInv, RejectsOnlyBad
<1>9. QED
  BY <1>7, <1>8

(* What the actions of the search need of the invariant, ...               *)
LEMMA Searching ==
    ASSUME TemplateInv, place = "search"
    PROVE  /\ given \in Templates /\ TemplateDagTypeOK /\ SearchInv
           /\ issues = {} /\ taskOrder = <<>>
           /\ Tasks \subseteq Nat /\ \A i \in Tasks : Dependencies(i) \subseteq Tasks
  BY TasksAreNumbered DEF TemplateInv

(* ... and what they leave alone.                                          *)
LEMMA SearchKeeps ==
    ASSUME TemplateInv, place = "search", place' = "search", SearchInv',
           stack' \in Seq(Tasks), left' \in [Tasks -> SUBSET Tasks], visited' \subseteq Tasks,
           UNCHANGED <<given, issues, cycle, orderVars>>
    PROVE  TemplateInv'
<1>1. /\ given' = given /\ issues' = issues /\ cycle' = cycle
      /\ indegree' = indegree /\ ready' = ready /\ taskOrder' = taskOrder
  BY DEF orderVars
<1>2. Tasks' = Tasks
  BY <1>1, SameGraph
<1>3. TemplateDagTypeOK'
  BY <1>1, <1>2 DEF TemplateInv, TemplateDagTypeOK
<1>4. QED
  BY <1>1, <1>3 DEF TemplateInv, RejectsOnlyBad, CycleIsReal

LEMMA Tops ==
    ASSUME TemplateInv, place = "search", stack # <<>>
    PROVE  /\ Len(stack) \in Nat \ {0} /\ Len(stack) \in DOMAIN stack
           /\ Top = stack[Len(stack)] /\ Top \in Tasks /\ Top \notin visited
           /\ left[Top] \subseteq Dependencies(Top)
  BY Searching DEF TemplateDagTypeOK, SearchInv, StackIsFresh, LeftIsRest, Top

LEMMA VisitsNextKeeps == ASSUME TemplateInv, VisitsNext PROVE TemplateInv'
<1>1. PICK i \in Tasks : Least(i, Tasks \ visited) /\ Push(i)
  BY DEF VisitsNext
<1>2. /\ place = "search" /\ place' = "search" /\ stack = <<>>
      /\ UNCHANGED <<given, issues, cycle, left, visited, orderVars>>
  BY DEF VisitsNext
<1>3. stack' = <<i>> /\ i \notin visited
  BY <1>1, <1>2 DEF Push, Least
<1>4. \A j \in Tasks : ~ OnStack(j)
  BY <1>2 DEF OnStack
<1>5. /\ SearchInv /\ TemplateDagTypeOK
      /\ Tasks' = Tasks /\ WellNamed' = WellNamed
      /\ \A j : Dependencies(j)' = Dependencies(j)
  BY <1>2, Searching, SameGraph
<1>6. StackIsPath' /\ StackIsFresh' /\ VisitedIsAcyclic'
  BY <1>2, <1>3, <1>5 DEF SearchInv, StackIsPath, StackIsFresh, VisitedIsAcyclic
<1>7. LeftIsRest'
  BY <1>2, <1>3, <1>4, <1>5 DEF SearchInv, LeftIsRest
<1>8. stack' \in Seq(Tasks) /\ left' \in [Tasks -> SUBSET Tasks] /\ visited' \subseteq Tasks
  BY <1>2, <1>3, <1>5 DEF TemplateDagTypeOK
<1>9. SearchInv'
  BY <1>5, <1>6, <1>7 DEF SearchInv
<1>10. QED
  BY <1>2, <1>8, <1>9, SearchKeeps

LEMMA PassesOverKeeps == ASSUME TemplateInv, PassesOver PROVE TemplateInv'
<1>1. PICK i \in left[Top] : i \in visited /\ LooksAt(i)
  BY DEF PassesOver
<1>2. /\ place = "search" /\ place' = "search" /\ stack # <<>>
      /\ UNCHANGED <<given, issues, cycle, stack, visited, orderVars>>
  BY DEF PassesOver
<1>3. /\ SearchInv /\ TemplateDagTypeOK
      /\ Tasks' = Tasks /\ WellNamed' = WellNamed
      /\ \A j : Dependencies(j)' = Dependencies(j)
  BY <1>2, Searching, SameGraph
<1>4. /\ Top \in Tasks /\ OnStack(Top)
      /\ left' = [left EXCEPT ![Top] = @ \ {i}]
  BY <1>1, <1>2, Tops DEF LooksAt, OnStack
<1>5. left \in [Tasks -> SUBSET Tasks] /\ stack \in Seq(Tasks)
  BY <1>3 DEF TemplateDagTypeOK
<1>6. /\ left' \in [Tasks -> SUBSET Tasks]
      /\ left'[Top] = left[Top] \ {i}
      /\ \A j \in Tasks : j # Top => left'[j] = left[j]
  BY <1>4, <1>5
<1>7. StackIsPath' /\ StackIsFresh' /\ VisitedIsAcyclic'
  BY <1>2, <1>3 DEF SearchInv, StackIsPath, StackIsFresh, VisitedIsAcyclic
<1>8. LeftIsRest'
  <2>1. \A j \in Tasks : left'[j] \subseteq Dependencies(j)
    BY <1>3, <1>6 DEF SearchInv, LeftIsRest
  <2>2. \A j : OnStack(j)' <=> OnStack(j)
    BY <1>2 DEF OnStack
  <2>3. ASSUME NEW j \in Tasks, j \notin visited, ~ OnStack(j) PROVE left'[j] = Dependencies(j)
    BY <1>3, <1>4, <1>6, <2>3 DEF SearchInv, LeftIsRest
  <2>4. ASSUME NEW k \in DOMAIN stack, NEW j \in Dependencies(stack[k])
        PROVE  j \in left'[stack[k]] \/ j \in visited \/ (k < Len(stack) /\ j = stack[k + 1])
    <3>1. stack[k] \in Tasks
      BY <1>5
    <3>2. j \in left[stack[k]] \/ j \in visited \/ (k < Len(stack) /\ j = stack[k + 1])
      BY <1>3 DEF SearchInv, LeftIsRest
    <3>3. QED
      BY <1>1, <1>6, <3>1, <3>2
  <2>5. QED
    BY <1>2, <1>3, <2>1, <2>2, <2>3, <2>4 DEF LeftIsRest
<1>9. SearchInv'
  BY <1>3, <1>7, <1>8 DEF SearchInv
<1>10. visited' \subseteq Tasks /\ stack' \in Seq(Tasks)
  BY <1>2, <1>3 DEF TemplateDagTypeOK
<1>11. QED
  BY <1>2, <1>6, <1>9, <1>10, SearchKeeps

LEMMA DescendsKeeps == ASSUME TemplateInv, Descends PROVE TemplateInv'
<1>1. PICK i \in left[Top] : i \notin visited /\ ~ OnStack(i) /\ LooksAt(i) /\ Push(i)
  BY DEF Descends
<1>2. /\ place = "search" /\ place' = "search" /\ stack # <<>>
      /\ UNCHANGED <<given, issues, cycle, visited, orderVars>>
  BY DEF Descends
<1>3. /\ SearchInv /\ TemplateDagTypeOK
      /\ Tasks' = Tasks /\ WellNamed' = WellNamed
      /\ \A j : Dependencies(j)' = Dependencies(j)
  BY <1>2, Searching, SameGraph
<1>4. left \in [Tasks -> SUBSET Tasks] /\ stack \in Seq(Tasks) /\ visited \subseteq Tasks
  BY <1>3 DEF TemplateDagTypeOK
<1>5. /\ Top \in Tasks /\ OnStack(Top) /\ i \in Dependencies(Top) /\ i \in Tasks
      /\ Len(stack) \in Nat \ {0} /\ stack[Len(stack)] = Top
      /\ left' = [left EXCEPT ![Top] = @ \ {i}]
      /\ stack' = Append(stack, i)
  BY <1>1, <1>2, <1>4, Tops DEF LooksAt, OnStack, Push
<1>6. /\ left' \in [Tasks -> SUBSET Tasks]
      /\ left'[Top] = left[Top] \ {i}
      /\ \A j \in Tasks : j # Top => left'[j] = left[j]
  BY <1>4, <1>5
<1>7. /\ stack' \in Seq(Tasks) /\ Len(stack') = Len(stack) + 1
      /\ stack'[Len(stack) + 1] = i
      /\ \A k \in DOMAIN stack : stack'[k] = stack[k]
      /\ DOMAIN stack = 1 .. Len(stack) /\ DOMAIN stack' = 1 .. (Len(stack) + 1)
  BY <1>4, <1>5
<1>8. StackIsPath'
  <2>1. ASSUME NEW k \in 1 .. Len(stack) PROVE stack'[k + 1] \in Dependencies(stack'[k])
    BY <1>3, <1>5, <1>7 DEF SearchInv, StackIsPath
  <2>2. QED
    BY <1>3, <1>5, <1>7, <2>1 DEF StackIsPath
<1>9. StackIsFresh'
  <2>1. \A k \in DOMAIN stack : stack[k] # i
    BY <1>1 DEF OnStack
  <2>2. QED
    BY <1>1, <1>2, <1>3, <1>5, <1>7, <2>1 DEF SearchInv, StackIsFresh
<1>10. VisitedIsAcyclic'
  BY <1>2, <1>3 DEF SearchInv, VisitedIsAcyclic
<1>11. LeftIsRest'
  <2>1. \A j \in Tasks : left'[j] \subseteq Dependencies(j)
    BY <1>3, <1>6 DEF SearchInv, LeftIsRest
  <2>2. \A j : OnStack(j)' <=> OnStack(j) \/ j = i
    BY <1>5, <1>7 DEF OnStack
  <2>3. ASSUME NEW j \in Tasks, j \notin visited, ~ OnStack(j) PROVE left'[j] = Dependencies(j)
    BY <1>3, <1>5, <1>6, <2>3 DEF SearchInv, LeftIsRest
  <2>4. ASSUME NEW k \in DOMAIN stack, NEW j \in Dependencies(stack[k])
        PROVE  j \in left'[stack[k]] \/ j \in visited \/ j = stack'[k + 1]
    <3>1. stack[k] \in Tasks
      BY <1>4
    <3>2. j \in left[stack[k]] \/ j \in visited \/ (k < Len(stack) /\ j = stack[k + 1])
      BY <1>3 DEF SearchInv, LeftIsRest
    <3>3. CASE stack[k] = Top
      <4>1. k = Len(stack)
        BY <1>3, <1>5, <1>7, <3>3 DEF SearchInv, StackIsFresh
      <4>2. QED
        BY <1>5, <1>6, <1>7, <3>2, <3>3, <4>1
    <3>4. CASE stack[k] # Top
      BY <1>5, <1>6, <1>7, <3>1, <3>2, <3>4
    <3>5. QED
      BY <3>3, <3>4
  <2>5. left'[i] = Dependencies(i)
    BY <1>1, <1>3, <1>5, <1>6 DEF SearchInv, LeftIsRest
  <2>6. ASSUME NEW k \in DOMAIN stack', NEW j \in Dependencies(stack'[k])
        PROVE  j \in left'[stack'[k]] \/ j \in visited
                  \/ (k < Len(stack') /\ j = stack'[k + 1])
    BY <1>5, <1>7, <2>4, <2>5
  <2>7. QED
    BY <1>2, <1>3, <2>1, <2>2, <2>3, <2>6 DEF LeftIsRest
<1>12. SearchInv'
  BY <1>3, <1>8, <1>9, <1>10, <1>11 DEF SearchInv
<1>13. QED
  BY <1>2, <1>4, <1>6, <1>7, <1>12, SearchKeeps

LEMMA ClosesCycleKeeps == ASSUME TemplateInv, ClosesCycle PROVE TemplateInv'
<1>1. PICK i \in left[Top] : i \notin visited /\ OnStack(i) /\ cycle' = CycleTo(i)
  BY DEF ClosesCycle
<1>2. /\ place = "search" /\ place' = "rejected" /\ stack # <<>> /\ issues' = {"cycle"}
      /\ given' = given /\ stack' = stack /\ left' = left /\ visited' = visited
      /\ indegree' = indegree /\ ready' = ready /\ taskOrder' = taskOrder
  BY DEF ClosesCycle, searchVars, orderVars
<1>3. /\ SearchInv /\ TemplateDagTypeOK /\ given \in Templates /\ taskOrder = <<>>
      /\ Tasks' = Tasks /\ WellNamed' = WellNamed /\ Acyclic' = Acyclic
      /\ \A j : Dependencies(j)' = Dependencies(j)
  BY <1>2, Searching, SameGraph
<1>4. /\ stack \in Seq(Tasks) /\ Len(stack) \in Nat \ {0} /\ DOMAIN stack = 1 .. Len(stack)
      /\ i \in Dependencies(stack[Len(stack)]) /\ i \in Tasks
  BY <1>1, <1>2, <1>3, Tops DEF TemplateDagTypeOK
<1> DEFINE start == CHOOSE k \in DOMAIN stack : stack[k] = i
           path == SubSeq(stack, start, Len(stack))
<1>5. start \in 1 .. Len(stack) /\ stack[start] = i
  BY <1>1, <1>4 DEF OnStack
<1>6. cycle' = Append(path, i)
  BY <1>1 DEF CycleTo
<1> HIDE DEF start
<1>7. /\ path \in Seq(Tasks) /\ Len(path) = Len(stack) - start + 1
      /\ \A k \in 1 .. Len(path) : path[k] = stack[start + k - 1]
  BY <1>4, <1>5
<1> HIDE DEF path
<1>8. /\ cycle' \in Seq(Tasks) /\ Len(cycle') = Len(path) + 1 /\ cycle'[Len(path) + 1] = i
      /\ \A k \in 1 .. Len(path) : cycle'[k] = stack[start + k - 1]
  BY <1>4, <1>6, <1>7
<1>9. Len(cycle') > 1 /\ cycle'[1] = cycle'[Len(cycle')]
  BY <1>4, <1>5, <1>7, <1>8
<1>10. ASSUME NEW k \in 1 .. (Len(cycle') - 1) PROVE cycle'[k + 1] \in Dependencies(cycle'[k])
  <2>1. k \in 1 .. Len(path) /\ cycle'[k] = stack[start + k - 1]
    BY <1>4, <1>5, <1>7, <1>8
  <2>2. CASE k = Len(path)
    BY <1>4, <1>5, <1>7, <1>8, <2>1, <2>2
  <2>3. CASE k # Len(path)
    <3>1. /\ start \in Nat /\ k \in Nat /\ Len(path) \in Nat /\ Len(stack) \in Nat
          /\ start \in 1 .. Len(stack) /\ Len(path) = Len(stack) - start + 1
          /\ k \in 1 .. Len(path)
      BY <1>4, <1>5, <1>7, <2>1
    <3>2. /\ k + 1 \in 1 .. Len(path)
          /\ start + k - 1 \in 1 .. (Len(stack) - 1)
          /\ start + (k + 1) - 1 = (start + k - 1) + 1
      BY <2>3, <3>1
    <3>3. cycle'[k + 1] = stack[start + (k + 1) - 1]
      BY <1>8, <3>2
    <3>4. stack[(start + k - 1) + 1] \in Dependencies(stack[start + k - 1])
      BY <1>3, <3>2 DEF SearchInv, StackIsPath
    <3>5. QED
      BY <2>1, <3>2, <3>3, <3>4
  <2>4. QED
    BY <2>2, <2>3
<1>11. CycleIsReal'
  BY <1>3, <1>9, <1>10 DEF CycleIsReal
<1>12. TemplateDagTypeOK'
  BY <1>2, <1>3, <1>8 DEF TemplateDagTypeOK
<1>13. ~ Acyclic'
  <2>1. CyclePath(cycle')
    BY <1>8, <1>9, <1>10 DEF CyclePath
  <2>2. QED
    BY <1>3, <2>1, CycleRefutes
<1>14. QED
  BY <1>2, <1>3, <1>11, <1>12, <1>13 DEF TemplateInv, RejectsOnlyBad

LEMMA FinishesKeeps == ASSUME TemplateInv, Finishes PROVE TemplateInv'
<1>1. /\ place = "search" /\ place' = "search" /\ stack # <<>> /\ left[Top] = {}
      /\ visited' = visited \cup {Top} /\ stack' = SubSeq(stack, 1, Len(stack) - 1)
      /\ left' = left
      /\ UNCHANGED <<given, issues, cycle, orderVars>>
  BY DEF Finishes, Pop
<1>2. /\ SearchInv /\ TemplateDagTypeOK
      /\ Tasks' = Tasks /\ WellNamed' = WellNamed
      /\ \A j : Dependencies(j)' = Dependencies(j)
      /\ \A j \in Tasks : Dependencies(j) \subseteq Tasks
  BY <1>1, Searching, SameGraph
<1>3. left \in [Tasks -> SUBSET Tasks] /\ stack \in Seq(Tasks) /\ visited \subseteq Tasks
  BY <1>2 DEF TemplateDagTypeOK
<1>4. /\ Len(stack) \in Nat \ {0} /\ Top = stack[Len(stack)]
      /\ Top \in Tasks /\ Top \notin visited
  BY <1>1, Tops
<1>5. /\ stack' \in Seq(Tasks) /\ Len(stack') = Len(stack) - 1
      /\ DOMAIN stack' = 1 .. (Len(stack) - 1) /\ DOMAIN stack = 1 .. Len(stack)
      /\ \A k \in DOMAIN stack' : stack'[k] = stack[k] /\ k \in DOMAIN stack
  <2>1. Len(stack) - 1 \in Nat /\ DOMAIN stack = 1 .. Len(stack)
    BY <1>3, <1>4
  <2>2. \A k \in 1 .. (Len(stack) - 1) : stack[k] \in Tasks /\ k \in DOMAIN stack
    BY <1>3, <2>1
  <2>3. stack' = [k \in 1 .. (Len(stack) - 1) |-> stack[k]]
    BY <1>1, <1>3, <2>1
  <2>4. QED
    BY <2>1, <2>2, <2>3
<1>6. Dependencies(Top) \subseteq visited
  BY <1>1, <1>2, <1>4, <1>5 DEF SearchInv, LeftIsRest
<1>7. VisitedIsAcyclic'
  <2>1. \A i \in visited' : Dependencies(i) \subseteq visited'
    BY <1>1, <1>2, <1>6 DEF SearchInv, VisitedIsAcyclic
  <2>2. ASSUME NEW S \in SUBSET visited', S # {}
        PROVE  \E i \in S : Dependencies(i) \cap S = {}
    <3>1. CASE S \subseteq {Top}
      BY <1>4, <1>6, <2>2, <3>1
    <3>2. CASE ~ (S \subseteq {Top})
      <4> DEFINE R == S \ {Top}
      <4>1. R \in SUBSET visited /\ R # {}
        BY <1>1, <3>2
      <4>2. PICK i \in R : Dependencies(i) \cap R = {}
        BY <1>2, <4>1 DEF SearchInv, VisitedIsAcyclic
      <4>3. Dependencies(i) \subseteq visited
        BY <1>2, <4>1 DEF SearchInv, VisitedIsAcyclic
      <4>4. QED
        BY <1>4, <4>2, <4>3
    <3>3. QED
      BY <3>1, <3>2
  <2>3. QED
    BY <1>2, <2>1, <2>2 DEF VisitedIsAcyclic
<1>8. StackIsPath'
  BY <1>2, <1>5 DEF SearchInv, StackIsPath
<1>9. StackIsFresh'
  <2>1. ASSUME NEW k \in DOMAIN stack' PROVE stack'[k] # Top /\ stack'[k] \notin visited
    BY <1>2, <1>4, <1>5 DEF SearchInv, StackIsFresh
  <2>2. QED
    BY <1>1, <1>2, <1>5, <2>1 DEF SearchInv, StackIsFresh
<1>10. LeftIsRest'
  <2>1. \A j : OnStack(j)' \/ j = Top <=> OnStack(j)
    BY <1>4, <1>5 DEF OnStack
  <2>2. ASSUME NEW j \in Tasks, j \notin visited', ~ OnStack(j)' PROVE left'[j] = Dependencies(j)
    BY <1>1, <1>2, <2>1, <2>2 DEF SearchInv, LeftIsRest
  <2>3. ASSUME NEW k \in DOMAIN stack', NEW j \in Dependencies(stack'[k])
        PROVE  j \in left'[stack'[k]] \/ j \in visited'
                  \/ (k < Len(stack') /\ j = stack'[k + 1])
    <3>1. j \in left[stack[k]] \/ j \in visited \/ (k < Len(stack) /\ j = stack[k + 1])
      BY <1>2, <1>5 DEF SearchInv, LeftIsRest
    <3>2. k = Len(stack) - 1 \/ (k < Len(stack') /\ stack'[k + 1] = stack[k + 1])
      BY <1>4, <1>5
    <3>3. QED
      BY <1>1, <1>4, <1>5, <3>1, <3>2
  <2>4. QED
    BY <1>1, <1>2, <2>2, <2>3 DEF SearchInv, LeftIsRest
<1>11. visited' \subseteq Tasks
  BY <1>1, <1>3, <1>4
<1>12. SearchInv'
  BY <1>2, <1>7, <1>8, <1>9, <1>10 DEF SearchInv
<1>13. QED
  BY <1>1, <1>3, <1>5, <1>11, <1>12, SearchKeeps

LEMMA FindsNoCycleKeeps == ASSUME TemplateInv, FindsNoCycle PROVE TemplateInv'
<1>1. /\ place = "search" /\ place' = "order" /\ visited = Tasks
      /\ given' = given /\ issues' = issues /\ cycle' = cycle
      /\ stack' = stack /\ left' = left /\ visited' = visited /\ taskOrder' = taskOrder
      /\ indegree' = [i \in Tasks |-> Cardinality(Dependencies(i))]
      /\ ready' = {i \in Tasks : Dependencies(i) = {}}
  BY DEF FindsNoCycle, searchVars
<1>2. /\ SearchInv /\ TemplateDagTypeOK /\ given \in Templates
      /\ issues = {} /\ taskOrder = <<>>
      /\ \A i \in Tasks : Dependencies(i) \subseteq Tasks /\ IsFiniteSet(Dependencies(i))
      /\ Tasks' = Tasks /\ WellNamed' = WellNamed /\ Acyclic' = Acyclic
      /\ \A i : Dependencies(i)' = Dependencies(i)
  BY <1>1, Searching, SameGraph, TasksAreNumbered
<1>3. WellNamed /\ Acyclic
  BY <1>1, <1>2 DEF SearchInv, VisitedIsAcyclic, Acyclic
<1>4. Placed' = {}
  BY <1>1, <1>2 DEF Placed
<1>5. ReadyIsExact'
  BY <1>1, <1>2, <1>4 DEF ReadyIsExact
<1>6. IndegreeIsExact' /\ indegree' \in [Tasks -> Nat]
  <2>1. \A i \in Tasks : Cardinality(Dependencies(i)) \in Nat
    BY <1>2, FS_CardinalityType
  <2>2. \A i \in Tasks : Dependencies(i) \ Placed' = Dependencies(i)
    BY <1>4
  <2>3. QED
    BY <1>1, <1>2, <2>1, <2>2 DEF IndegreeIsExact
<1>7. NoneTwice' /\ DependenciesFirst' /\ EarliestFirst'
  BY <1>1, <1>2 DEF NoneTwice, DependenciesFirst, EarliestFirst
<1>8. TemplateDagTypeOK'
  BY <1>1, <1>2, <1>6 DEF TemplateDagTypeOK
<1>9. QED
  BY <1>1, <1>2, <1>3, <1>5, <1>6, <1>7, <1>8
     DEF TemplateInv, OrderInv, RejectsOnlyBad, CycleIsReal

(* What the loop that puts the tasks in order needs of the invariant.      *)
LEMMA Ordering ==
    ASSUME TemplateInv, place = "order"
    PROVE  /\ given \in Templates /\ TemplateDagTypeOK /\ OrderInv /\ issues = {}
           /\ Tasks \subseteq Nat
           /\ \A i \in Tasks : Dependencies(i) \subseteq Tasks /\ IsFiniteSet(Dependencies(i))
           /\ \A i \in Placed : i \in Tasks /\ Dependencies(i) \subseteq Placed
<1>1. /\ given \in Templates /\ TemplateDagTypeOK /\ OrderInv /\ issues = {}
  BY DEF TemplateInv
<1>2. taskOrder \in Seq(Tasks)
  BY <1>1 DEF TemplateDagTypeOK
<1>3. ASSUME NEW i \in Placed PROVE i \in Tasks /\ Dependencies(i) \subseteq Placed
  <2>1. PICK k \in DOMAIN taskOrder : taskOrder[k] = i
    BY DEF Placed
  <2>2. \A j \in Dependencies(i) : \E l \in 1 .. (k - 1) : taskOrder[l] = j
    BY <1>1, <2>1 DEF OrderInv, DependenciesFirst
  <2>3. 1 .. (k - 1) \subseteq DOMAIN taskOrder
    BY <1>2, <2>1
  <2>4. QED
    BY <1>2, <2>1, <2>2, <2>3 DEF Placed
<1>4. QED
  BY <1>1, <1>3, TasksAreNumbered

LEMMA OrdersKeeps == ASSUME TemplateInv, Orders PROVE TemplateInv'
<1>1. PICK i \in Tasks :
         /\ FirstReady(i)
         /\ taskOrder' = Append(taskOrder, i)
         /\ indegree' = [j \in Tasks |-> IF j \in Dependents(i) THEN indegree[j] - 1
                                         ELSE indegree[j]]
         /\ ready' = (ready \ {i}) \cup {j \in Dependents(i) : indegree[j] = 1}
  BY DEF Orders
<1>2. /\ place = "order" /\ place' = "order" /\ given' = given
      /\ issues' = issues /\ cycle' = cycle
      /\ stack' = stack /\ left' = left /\ visited' = visited
  BY DEF Orders, searchVars
<1>3. /\ TemplateDagTypeOK /\ OrderInv /\ given \in Templates /\ issues = {}
      /\ Tasks \subseteq Nat
      /\ \A j \in Tasks : Dependencies(j) \subseteq Tasks /\ IsFiniteSet(Dependencies(j))
      /\ \A j \in Placed : j \in Tasks /\ Dependencies(j) \subseteq Placed
      /\ Tasks' = Tasks /\ WellNamed' = WellNamed /\ Acyclic' = Acyclic
      /\ \A j : Dependencies(j)' = Dependencies(j)
  BY <1>2, Ordering, SameGraph
<1>4. ready = {j \in Tasks \ Placed : Dependencies(j) \subseteq Placed}
  BY <1>3 DEF OrderInv, ReadyIsExact
<1>5. i \notin Placed /\ Dependencies(i) \subseteq Placed /\ \A j \in ready : i <= j
  BY <1>1, <1>4 DEF FirstReady, Least
<1> DEFINE n == Len(taskOrder)
<1>6. /\ taskOrder \in Seq(Tasks) /\ n \in Nat /\ DOMAIN taskOrder = 1 .. n
      /\ taskOrder' \in Seq(Tasks) /\ DOMAIN taskOrder' = 1 .. (n + 1)
      /\ taskOrder'[n + 1] = i
      /\ \A k \in 1 .. n : taskOrder'[k] = taskOrder[k]
  BY <1>1, <1>3 DEF TemplateDagTypeOK
<1> HIDE DEF n
<1>7. Placed' = Placed \cup {i}
  BY <1>6 DEF Placed
<1>8. ASSUME NEW j \in Tasks
      PROVE  /\ Dependencies(j) \ Placed = {i} <=> i \in Dependencies(j) /\ indegree[j] = 1
             /\ i \in Dependencies(j) =>
                   Cardinality(Dependencies(j) \ Placed') = indegree[j] - 1
             /\ i \notin Dependencies(j) => Dependencies(j) \ Placed' = Dependencies(j) \ Placed
  <2> DEFINE D == Dependencies(j) \ Placed
  <2>1. IsFiniteSet(D) /\ indegree[j] = Cardinality(D)
    BY <1>3, FS_Subset DEF OrderInv, IndegreeIsExact
  <2>2. Dependencies(j) \ Placed' = D \ {i} /\ (i \in Dependencies(j) <=> i \in D)
    BY <1>5, <1>7
  <2>3. i \in D => /\ IsFiniteSet(D \ {i}) /\ Cardinality(D \ {i}) = Cardinality(D) - 1
    BY <2>1, FS_RemoveElement
  <2>4. D = {i} => indegree[j] = 1
    BY <2>1, FS_Singleton
  <2>5. i \in D /\ indegree[j] = 1 => D = {i}
    <3>1. i \in D /\ indegree[j] = 1 => Cardinality(D \ {i}) = 0
      BY <2>1, <2>3
    <3>2. i \in D /\ indegree[j] = 1 => D \ {i} = {}
      BY <2>3, <3>1, FS_EmptySet
    <3>3. QED
      BY <3>2
  <2> HIDE DEF D
  <2>6. i \in Dependencies(j) => Cardinality(Dependencies(j) \ Placed') = indegree[j] - 1
    BY <2>1, <2>2, <2>3
  <2>7. i \notin Dependencies(j) => Dependencies(j) \ Placed' = D
    BY <2>2
  <2>8. QED
    BY <2>2, <2>4, <2>5, <2>6, <2>7 DEF D
<1>9. Dependents(i) = {j \in Tasks : i \in Dependencies(j)}
  BY DEF Dependents
<1>10. ReadyIsExact'
  <2>1. ASSUME NEW j \in Tasks
        PROVE  j \in ready' <=> j \notin Placed' /\ Dependencies(j) \subseteq Placed'
    <3>1. j \in ready' <=> \/ j # i /\ j \notin Placed /\ Dependencies(j) \subseteq Placed
                           \/ Dependencies(j) \ Placed = {i}
      BY <1>1, <1>4, <1>8, <1>9
    <3>2. Dependencies(j) \ Placed = {i} => j \notin Placed'
      BY <1>3, <1>5, <1>7
    <3>3. Dependencies(j) \subseteq Placed'
             <=> Dependencies(j) \subseteq Placed \/ Dependencies(j) \ Placed = {i}
      BY <1>7
    <3>4. QED
      BY <1>7, <3>1, <3>2, <3>3
  <2>2. ready' \subseteq Tasks
    BY <1>1, <1>4, <1>9
  <2>3. QED
    BY <1>3, <2>1, <2>2 DEF ReadyIsExact
<1>11. IndegreeIsExact' /\ indegree' \in [Tasks -> Nat]
  <2>1. ASSUME NEW j \in Tasks PROVE indegree'[j] = Cardinality(Dependencies(j) \ Placed')
    <3>1. indegree[j] = Cardinality(Dependencies(j) \ Placed)
      BY <1>3 DEF OrderInv, IndegreeIsExact
    <3>2. indegree'[j] = IF i \in Dependencies(j) THEN indegree[j] - 1 ELSE indegree[j]
      BY <1>1, <1>9
    <3>3. QED
      BY <1>8, <3>1, <3>2
  <2>2. ASSUME NEW j \in Tasks PROVE Cardinality(Dependencies(j) \ Placed') \in Nat
    BY <1>3, FS_Subset, FS_CardinalityType
  <2>3. QED
    BY <1>1, <1>3, <2>1, <2>2 DEF IndegreeIsExact
<1>12. NoneTwice'
  <2>1. \A k \in 1 .. n : taskOrder[k] # i
    BY <1>5, <1>6 DEF Placed
  <2>2. QED
    BY <1>3, <1>6, <2>1 DEF OrderInv, NoneTwice
<1>13. DependenciesFirst'
  <2>1. ASSUME NEW k \in 1 .. n, NEW j \in Dependencies(taskOrder[k])
        PROVE  \E l \in 1 .. (k - 1) : taskOrder'[l] = j
    <3>1. PICK l \in 1 .. (k - 1) : taskOrder[l] = j
      BY <1>3, <1>6 DEF OrderInv, DependenciesFirst
    <3>2. QED
      BY <1>6, <3>1
  <2>2. ASSUME NEW j \in Dependencies(i) PROVE \E l \in 1 .. n : taskOrder'[l] = j
    BY <1>5, <1>6 DEF Placed
  <2>3. QED
    BY <1>3, <1>6, <2>1, <2>2 DEF DependenciesFirst
<1>14. EarliestFirst'
  <2> DEFINE before(k) == {taskOrder'[l] : l \in 1 .. (k - 1)}
  <2>1. ASSUME NEW k \in 1 .. (n + 1), NEW j \in Tasks \ before(k),
               Dependencies(j) \subseteq before(k)
        PROVE  taskOrder'[k] <= j
    <3>1. CASE k = n + 1
      <4>1. before(k) = Placed
        BY <1>6, <3>1 DEF Placed
      <4>2. j \in ready
        BY <1>4, <2>1, <4>1
      <4>3. QED
        BY <1>5, <1>6, <3>1, <4>2
    <3>2. CASE k \in 1 .. n
      <4>1. \A l \in 1 .. (k - 1) : taskOrder'[l] = taskOrder[l]
        BY <1>6, <3>2
      <4>2. before(k) = {taskOrder[l] : l \in 1 .. (k - 1)}
        BY <4>1
      <4>3. taskOrder[k] <= j
        BY <1>3, <1>6, <2>1, <3>2, <4>2 DEF OrderInv, EarliestFirst
      <4>4. QED
        BY <1>6, <3>2, <4>3
    <3>3. QED
      BY <1>6, <3>1, <3>2
  <2>2. \A k \in 1 .. (n + 1) : \A j \in Tasks \ before(k) :
           Dependencies(j) \subseteq before(k) => taskOrder'[k] <= j
    BY <2>1
  <2>3. QED
    BY <1>3, <1>6, <2>2 DEF EarliestFirst
<1>15. TemplateDagTypeOK'
  <2>1. ready' \subseteq Tasks
    BY <1>1, <1>4, <1>9
  <2>2. QED
    BY <1>2, <1>3, <1>6, <1>11, <2>1 DEF TemplateDagTypeOK
<1>16. QED
  BY <1>2, <1>3, <1>10, <1>11, <1>12, <1>13, <1>14, <1>15
     DEF TemplateInv, OrderInv, RejectsOnlyBad, CycleIsReal

LEMMA AcceptsKeeps == ASSUME TemplateInv, Accepts PROVE TemplateInv'
<1>1. /\ place = "order" /\ place' = "accepted" /\ ready = {}
      /\ given' = given /\ issues' = issues /\ cycle' = cycle
      /\ stack' = stack /\ left' = left /\ visited' = visited
      /\ indegree' = indegree /\ ready' = ready /\ taskOrder' = taskOrder
  BY DEF Accepts, searchVars, orderVars
<1>2. /\ TemplateDagTypeOK /\ OrderInv /\ given \in Templates /\ issues = {}
      /\ \A j \in Tasks : Dependencies(j) \subseteq Tasks
      /\ \A j \in Placed : j \in Tasks
      /\ Tasks' = Tasks /\ WellNamed' = WellNamed /\ Acyclic' = Acyclic
      /\ \A j : Dependencies(j)' = Dependencies(j)
  BY <1>1, Ordering, SameGraph
<1>3. Placed = Tasks
  <2>1. SUFFICES ASSUME Tasks \ Placed # {} PROVE FALSE
    BY <1>2
  <2>2. PICK i \in Tasks \ Placed : Dependencies(i) \cap (Tasks \ Placed) = {}
    BY <1>2, <2>1 DEF OrderInv, Acyclic
  <2>3. i \in ready
    BY <1>2, <2>2 DEF OrderInv, ReadyIsExact
  <2>4. QED
    BY <1>1, <2>3
<1>4. Placed' = Placed
  BY <1>1 DEF Placed
<1>5. OrderInv'
  BY <1>1, <1>2, <1>4
     DEF OrderInv, ReadyIsExact, IndegreeIsExact, NoneTwice, DependenciesFirst, EarliestFirst
<1>6. TemplateDagTypeOK'
  BY <1>1, <1>2 DEF TemplateDagTypeOK
<1>7. QED
  BY <1>1, <1>2, <1>3, <1>4, <1>5, <1>6 DEF TemplateInv, RejectsOnlyBad, CycleIsReal

(***************************************************************************)
(* The parser as a whole.                                                  *)
(***************************************************************************)
LEMMA TemplateStutters == ASSUME TemplateInv, UNCHANGED vars PROVE TemplateInv'
<1>1. /\ place' = place /\ given' = given /\ issues' = issues /\ cycle' = cycle
      /\ stack' = stack /\ left' = left /\ visited' = visited
      /\ indegree' = indegree /\ ready' = ready /\ taskOrder' = taskOrder
  BY DEF vars
<1>2. Tasks' = Tasks /\ WellNamed' = WellNamed /\ Acyclic' = Acyclic /\ Placed' = Placed
  BY <1>1, SameGraph DEF Placed
<1>3. SearchInv' = SearchInv
  BY <1>1, <1>2, SameGraph
     DEF SearchInv, StackIsPath, StackIsFresh, LeftIsRest, VisitedIsAcyclic, OnStack
<1>4. OrderInv' = OrderInv
  BY <1>1, <1>2, SameGraph
     DEF OrderInv, ReadyIsExact, IndegreeIsExact, NoneTwice, DependenciesFirst, EarliestFirst
<1>5. TemplateDagTypeOK' = TemplateDagTypeOK
  BY <1>1, <1>2 DEF TemplateDagTypeOK
<1>6. RejectsOnlyBad' = RejectsOnlyBad
  BY <1>1, <1>2 DEF RejectsOnlyBad
<1>7. CycleIsReal' = CycleIsReal
  BY <1>1, SameGraph DEF CycleIsReal
<1>8. QED
  BY <1>1, <1>2, <1>3, <1>4, <1>5, <1>6, <1>7 DEF TemplateInv

LEMMA TemplateStep == ASSUME TemplateInv, [Next]_vars PROVE TemplateInv'
<1>1. CASE Checks
  BY <1>1, ChecksKeeps
<1>2. CASE VisitsNext
  BY <1>2, VisitsNextKeeps
<1>3. CASE PassesOver
  BY <1>3, PassesOverKeeps
<1>4. CASE Descends
  BY <1>4, DescendsKeeps
<1>5. CASE ClosesCycle
  BY <1>5, ClosesCycleKeeps
<1>6. CASE Finishes
  BY <1>6, FinishesKeeps
<1>7. CASE FindsNoCycle
  BY <1>7, FindsNoCycleKeeps
<1>8. CASE Orders
  BY <1>8, OrdersKeeps
<1>9. CASE Accepts
  BY <1>9, AcceptsKeeps
<1>10. CASE UNCHANGED vars
  BY <1>10, TemplateStutters
<1>11. QED
  BY <1>1, <1>2, <1>3, <1>4, <1>5, <1>6, <1>7, <1>8, <1>9, <1>10 DEF Next

LEMMA TemplateInvSuffices ==
    ASSUME TemplateInv
    PROVE  TemplateDagTypeOK /\ VerdictIsRight /\ OrderIsRight
<1>1. VerdictIsRight
  BY DEF TemplateInv, VerdictIsRight, AcceptsOnlyGood, OrderInv
<1>2. place \in {"order", "accepted"} \/ taskOrder = <<>>
  BY DEF TemplateInv, TemplateDagTypeOK
<1>3. OrderIsRight
  BY <1>2 DEF TemplateInv, OrderInv, NoneTwice, OrderIsRight, OrderIsComplete,
              DependenciesFirst, EarliestFirst
<1>4. QED
  BY <1>1, <1>3 DEF TemplateInv

(* A call of instantiate leaves the template alone.                        *)
LEMMA CallsLeaveTheTemplate ==
    ASSUME InstantiationNext, ~ (Next /\ UNCHANGED <<call, rows>>)
    PROVE  UNCHANGED vars /\ place = "accepted"
<1>1. PICK c \in Callers : \/ \E m \in Missions, p \in Prefixes : CreatesRun(c, m, p)
                           \/ CallStep(c)
                           \/ Dies(c)
  BY DEF InstantiationNext
<1>2. CASE \E m \in Missions, p \in Prefixes : CreatesRun(c, m, p)
  BY <1>2 DEF CreatesRun, At
<1>3. CASE CallStep(c)
  BY <1>3 DEF CallStep, CreatesMission, CreatesTask, TaskIsTaken, Refuses, Returns, At
<1>4. CASE Dies(c)
  BY <1>4 DEF Dies, At
<1>5. QED
  BY <1>1, <1>2, <1>3, <1>4

LEMMA ImplementsTemplateDag == InstantiationSpec => Spec
<1>1. InstantiationInit => Init
  BY DEF InstantiationInit
<1>2. ASSUME [InstantiationNext]_instantiationVars PROVE [Next]_vars
  BY <1>2, CallsLeaveTheTemplate DEF instantiationVars
<1>3. QED
  BY <1>1, <1>2, PTL DEF InstantiationSpec, Spec

LEMMA TemplateInvHolds == InstantiationSpec => []TemplateInv
<1>1. Spec => []TemplateInv
  BY TemplateInit, TemplateStep, PTL DEF Spec
<1>2. QED
  BY <1>1, ImplementsTemplateDag, PTL

(* For templates of any size, parseWorkflowTemplateDag rejects a template  *)
(* exactly when its names or references are wrong or its dependencies have *)
(* a cycle, and the cycle it names is one.                                 *)
THEOREM VerdictRight == InstantiationSpec => [](TemplateDagTypeOK /\ VerdictIsRight)
BY TemplateInvHolds, TemplateInvSuffices, PTL

(* The task order of an accepted template has every task once, each after  *)
(* what it depends on, and always the earliest that can come next.         *)
THEOREM OrderRight == InstantiationSpec => []OrderIsRight
BY TemplateInvHolds, TemplateInvSuffices, PTL

(***************************************************************************)
(* The calls: a mission belongs to the one call that made its run, that    *)
(* call owns every task of the mission, and it has made the tasks of the   *)
(* order up to the one it is at.                                           *)
(***************************************************************************)
Claims(c) == call[c].place \in {"mission", "tasks", "returned"}
Fills(c) == call[c].place \in {"tasks", "returned"}

CallsTypeOK ==
    /\ call \in [Callers -> [place : Places, mission : Missions \cup {NoMission},
                             prefix : Prefixes \cup {NoMission}, created : Nat]]
    /\ dagRuns \subseteq Missions /\ missions \subseteq Missions
    /\ owner \in [Prefixes -> [Tasks -> Missions \cup {NoMission}]]

NothingBefore ==
    place # "accepted" =>
       /\ \A c \in Callers : call[c].place = "idle"
       /\ \A p \in Prefixes : \A i \in Tasks : owner[p][i] = NoMission
ClaimsAreApart ==
    \A c \in Callers : Claims(c) =>
       /\ call[c].mission \in dagRuns /\ call[c].prefix \in Prefixes
       /\ \A d \in Callers : Claims(d) /\ call[c].mission = call[d].mission => c = d
NoTaskYet ==
    \A c \in Callers : call[c].place = "mission" =>
       /\ call[c].created = 0
       /\ \A p \in Prefixes : \A i \in Tasks : owner[p][i] # call[c].mission
TasksAreCallers ==
    \A c \in Callers : Fills(c) =>
       /\ call[c].mission \in missions
       /\ call[c].created <= Len(taskOrder)
       /\ \A k \in DOMAIN taskOrder :
             k <= call[c].created => owner[call[c].prefix][taskOrder[k]] = call[c].mission
       /\ \A p \in Prefixes : \A i \in Tasks :
             owner[p][i] = call[c].mission => p = call[c].prefix
ReturnsWhole ==
    \A c \in Callers : call[c].place = "returned" => call[c].created = Len(taskOrder)
CallsInv == /\ CallsTypeOK /\ NothingBefore /\ ClaimsAreApart /\ NoTaskYet
            /\ TasksAreCallers /\ ReturnsWhole /\ DependsOnOwnTasks

LEMMA CallsInit == ASSUME InstantiationInit PROVE CallsInv
<1>1. /\ \A c \in Callers : call[c].place = "idle"
      /\ call \in [Callers -> [place : Places, mission : Missions \cup {NoMission},
                               prefix : Prefixes \cup {NoMission}, created : Nat]]
  <2>1. call \in [Callers -> [place : {"idle"}, mission : {NoMission}, prefix : {NoMission},
                              created : {0}]]
    BY DEF InstantiationInit
  <2>2. QED
    BY <2>1 DEF Places, Ended
<1>2. /\ \A p \in Prefixes : \A i \in Tasks : owner[p][i] = NoMission
      /\ owner \in [Prefixes -> [Tasks -> Missions \cup {NoMission}]]
      /\ dagRuns = {} /\ missions = {}
  BY DEF InstantiationInit
<1>3. QED
  BY <1>1, <1>2 DEF CallsInv, CallsTypeOK, NothingBefore, ClaimsAreApart, NoTaskYet,
                    TasksAreCallers, ReturnsWhole, DependsOnOwnTasks, Claims, Fills

(* While the parser is at work there is nothing of a call.                 *)
LEMMA ParserKeepsCalls ==
    ASSUME CallsInv, Next, UNCHANGED <<call, rows>>
    PROVE  CallsInv'
<1>1. place # "accepted" /\ given' = given
  BY DEF Next, Checks, VisitsNext, PassesOver, Descends, ClosesCycle, Finishes, FindsNoCycle,
         Orders, Accepts
<1>2. call' = call /\ dagRuns' = dagRuns /\ missions' = missions /\ owner' = owner
  BY DEF rows
<1>3. Tasks' = Tasks
  BY <1>1, SameGraph
<1>4. /\ \A c \in Callers : call[c].place = "idle"
      /\ \A p \in Prefixes : \A i \in Tasks : owner[p][i] = NoMission
  BY <1>1 DEF CallsInv, NothingBefore
<1>5. QED
  BY <1>2, <1>3, <1>4 DEF CallsInv, CallsTypeOK, NothingBefore, ClaimsAreApart, NoTaskYet,
                          TasksAreCallers, ReturnsWhole, DependsOnOwnTasks, Claims, Fills

(* What a call finds when it steps: the template is accepted and stays.    *)
LEMMA TemplateStands ==
    ASSUME TemplateInv, place = "accepted", UNCHANGED vars
    PROVE  /\ place' = place /\ taskOrder' = taskOrder /\ Tasks' = Tasks
           /\ \A i : Dependencies(i)' = Dependencies(i)
           /\ taskOrder \in Seq(Tasks) /\ NoneTwice /\ DependenciesFirst /\ Placed = Tasks
           /\ \A i \in Tasks : Dependencies(i) \subseteq Tasks
  BY SameGraph, TasksAreNumbered DEF vars, TemplateInv, TemplateDagTypeOK, OrderInv

LEMMA MovesOn ==
    ASSUME CallsTypeOK, NEW c \in Callers, NEW somewhere \in Places, To(c, somewhere)
    PROVE  /\ call' \in [Callers -> [place : Places, mission : Missions \cup {NoMission},
                                     prefix : Prefixes \cup {NoMission}, created : Nat]]
           /\ call'[c].place = somewhere
           /\ \A d \in Callers : /\ call'[d].mission = call[d].mission
                                 /\ call'[d].prefix = call[d].prefix
                                 /\ call'[d].created = call[d].created
                                 /\ d # c => call'[d].place = call[d].place
  BY DEF CallsTypeOK, To

(* A call that fails gives its claim up, and its rows stay.                *)
LEMMA FailsKeeps ==
    ASSUME TemplateInv, CallsInv, place = "accepted", UNCHANGED vars, UNCHANGED rows,
           NEW c \in Callers, To(c, "failed")
    PROVE  CallsInv'
<1>1. "failed" \in Places
  BY DEF Places
<1>2. CallsTypeOK
  BY DEF CallsInv
<1>3. dagRuns' = dagRuns /\ missions' = missions /\ owner' = owner
  BY DEF rows
<1>4. place' = place /\ taskOrder' = taskOrder /\ Tasks' = Tasks
      /\ \A i : Dependencies(i)' = Dependencies(i)
  BY TemplateStands
<1>5. /\ call' \in [Callers -> [place : Places, mission : Missions \cup {NoMission},
                                prefix : Prefixes \cup {NoMission}, created : Nat]]
      /\ call'[c].place = "failed"
      /\ \A d \in Callers : /\ call'[d].mission = call[d].mission
                            /\ call'[d].prefix = call[d].prefix
                            /\ call'[d].created = call[d].created
                            /\ d # c => call'[d].place = call[d].place
  BY <1>1, <1>2, MovesOn
<1>6. \A d \in Callers : /\ Claims(d)' => Claims(d) /\ call'[d].place = call[d].place
                         /\ Fills(d)' => Fills(d)
  BY <1>5 DEF Claims, Fills
<1>7. CallsTypeOK' /\ NothingBefore'
  BY <1>2, <1>3, <1>4, <1>5 DEF CallsTypeOK, NothingBefore
<1>8. ClaimsAreApart'
  BY <1>3, <1>5, <1>6 DEF CallsInv, ClaimsAreApart
<1>9. NoTaskYet' /\ ReturnsWhole'
  BY <1>3, <1>4, <1>5 DEF CallsInv, NoTaskYet, ReturnsWhole
<1>10. TasksAreCallers'
  BY <1>3, <1>4, <1>5, <1>6 DEF CallsInv, TasksAreCallers
<1>11. DependsOnOwnTasks'
  BY <1>3, <1>4 DEF CallsInv, DependsOnOwnTasks
<1>12. QED
  BY <1>7, <1>8, <1>9, <1>10, <1>11 DEF CallsInv

LEMMA ReturnsKeeps ==
    ASSUME TemplateInv, CallsInv, NEW c \in Callers, Returns(c)
    PROVE  CallsInv'
<1>1. /\ place = "accepted" /\ UNCHANGED vars /\ call[c].place = "tasks"
      /\ call[c].created >= Len(taskOrder) /\ To(c, "returned") /\ "returned" \in Places
  <2>1. /\ place = "accepted" /\ UNCHANGED vars /\ call[c].place = "tasks"
        /\ ~ TasksLeft(c) /\ To(c, "returned")
    BY DEF Returns, At
  <2>2. call[c].created \in Nat /\ Len(taskOrder) \in Nat
    BY <2>1, TemplateStands DEF CallsInv, CallsTypeOK
  <2>3. QED
    BY <2>1, <2>2 DEF TasksLeft, Places, Ended
<1>2. CallsTypeOK
  BY DEF CallsInv
<1>3. dagRuns' = dagRuns /\ missions' = missions /\ owner' = owner
  BY DEF Returns, rows
<1>4. /\ place' = place /\ taskOrder' = taskOrder /\ Tasks' = Tasks
      /\ \A i : Dependencies(i)' = Dependencies(i)
      /\ Len(taskOrder) \in Nat
  BY <1>1, TemplateStands
<1>5. /\ call' \in [Callers -> [place : Places, mission : Missions \cup {NoMission},
                                prefix : Prefixes \cup {NoMission}, created : Nat]]
      /\ call'[c].place = "returned"
      /\ \A d \in Callers : /\ call'[d].mission = call[d].mission
                            /\ call'[d].prefix = call[d].prefix
                            /\ call'[d].created = call[d].created
                            /\ d # c => call'[d].place = call[d].place
  BY <1>1, <1>2, MovesOn
<1>6. \A d \in Callers : (Claims(d)' <=> Claims(d)) /\ (Fills(d)' <=> Fills(d))
  BY <1>1, <1>5 DEF Claims, Fills
<1>7. CallsTypeOK' /\ NothingBefore'
  BY <1>1, <1>2, <1>3, <1>4, <1>5 DEF CallsTypeOK, NothingBefore
<1>8. ClaimsAreApart'
  BY <1>3, <1>5, <1>6 DEF CallsInv, ClaimsAreApart
<1>9. NoTaskYet'
  BY <1>3, <1>4, <1>5 DEF CallsInv, NoTaskYet
<1>10. TasksAreCallers'
  BY <1>3, <1>4, <1>5, <1>6 DEF CallsInv, TasksAreCallers
<1>11. ReturnsWhole'
  <2>1. call[c].created = Len(taskOrder)
    BY <1>1, <1>2, <1>4 DEF CallsInv, CallsTypeOK, TasksAreCallers, Fills
  <2>2. QED
    BY <1>4, <1>5, <2>1 DEF CallsInv, ReturnsWhole
<1>12. DependsOnOwnTasks'
  BY <1>3, <1>4 DEF CallsInv, DependsOnOwnTasks
<1>13. QED
  BY <1>7, <1>8, <1>9, <1>10, <1>11, <1>12 DEF CallsInv

LEMMA CreatesRunKeeps ==
    ASSUME TemplateInv, CallsInv, NEW c \in Callers, NEW m \in Missions, NEW p \in Prefixes,
           CreatesRun(c, m, p)
    PROVE  CallsInv'
<1>1. /\ place = "accepted" /\ UNCHANGED vars
      /\ dagRuns' = dagRuns \cup {m} /\ missions' = missions /\ owner' = owner
      /\ call' = [call EXCEPT ![c] = [place |-> IF m \in dagRuns THEN "failed" ELSE "mission",
                                      mission |-> m, prefix |-> p, created |-> 0]]
  BY DEF CreatesRun, At
<1>2. CallsTypeOK
  BY DEF CallsInv
<1>3. /\ place' = place /\ taskOrder' = taskOrder /\ Tasks' = Tasks
      /\ \A i : Dependencies(i)' = Dependencies(i)
  BY <1>1, TemplateStands
<1>4. /\ call' \in [Callers -> [place : Places, mission : Missions \cup {NoMission},
                                prefix : Prefixes \cup {NoMission}, created : Nat]]
      /\ call'[c].place = IF m \in dagRuns THEN "failed" ELSE "mission"
      /\ call'[c].mission = m /\ call'[c].prefix = p /\ call'[c].created = 0
      /\ \A d \in Callers : d # c => call'[d] = call[d]
  BY <1>1, <1>2 DEF CallsTypeOK, Places, Ended
<1>5. \A d \in Callers : /\ d # c => (Claims(d)' <=> Claims(d)) /\ (Fills(d)' <=> Fills(d))
                         /\ Fills(d)' => d # c
  BY <1>4 DEF Claims, Fills
<1>6. Claims(c)' => m \notin dagRuns
  BY <1>4 DEF Claims
<1>7. CallsTypeOK' /\ NothingBefore'
  BY <1>1, <1>2, <1>3, <1>4 DEF CallsTypeOK, NothingBefore
<1>8. ClaimsAreApart'
  BY <1>1, <1>4, <1>5, <1>6 DEF CallsInv, ClaimsAreApart
<1>9. NoTaskYet'
  <2>1. m \notin dagRuns => \A q \in Prefixes : \A i \in Tasks : owner[q][i] # m
    BY RequestsAssumption DEF CallsInv, DependsOnOwnTasks
  <2>2. QED
    BY <1>1, <1>3, <1>4, <2>1 DEF CallsInv, NoTaskYet
<1>10. TasksAreCallers'
  BY <1>1, <1>3, <1>4, <1>5 DEF CallsInv, TasksAreCallers
<1>11. ReturnsWhole'
  BY <1>3, <1>4 DEF CallsInv, ReturnsWhole
<1>12. DependsOnOwnTasks'
  BY <1>1, <1>3 DEF CallsInv, DependsOnOwnTasks
<1>13. QED
  BY <1>7, <1>8, <1>9, <1>10, <1>11, <1>12 DEF CallsInv

LEMMA CreatesMissionKeeps ==
    ASSUME TemplateInv, CallsInv, NEW c \in Callers, CreatesMission(c)
    PROVE  CallsInv'
<1> DEFINE m == call[c].mission
           next == IF m \in missions THEN "failed" ELSE "tasks"
<1>1. /\ place = "accepted" /\ UNCHANGED vars /\ call[c].place = "mission"
      /\ dagRuns' = dagRuns /\ missions' = missions \cup {m} /\ owner' = owner
      /\ To(c, next)
  BY DEF CreatesMission, At
<1>2. CallsTypeOK /\ next \in Places
  BY DEF CallsInv, Places, Ended
<1>3. /\ place' = place /\ taskOrder' = taskOrder /\ Tasks' = Tasks
      /\ \A i : Dependencies(i)' = Dependencies(i)
      /\ taskOrder \in Seq(Tasks)
  BY <1>1, TemplateStands
<1>4. /\ call' \in [Callers -> [place : Places, mission : Missions \cup {NoMission},
                                prefix : Prefixes \cup {NoMission}, created : Nat]]
      /\ call'[c].place = next
      /\ \A d \in Callers : /\ call'[d].mission = call[d].mission
                            /\ call'[d].prefix = call[d].prefix
                            /\ call'[d].created = call[d].created
                            /\ d # c => call'[d].place = call[d].place
  BY <1>1, <1>2, MovesOn
<1>5. m \in Missions /\ Claims(c)
  BY <1>1, <1>2 DEF CallsInv, CallsTypeOK, ClaimsAreApart, Claims
<1>6. \A d \in Callers : /\ Claims(d)' => Claims(d)
                         /\ d # c => (Fills(d)' <=> Fills(d))
  BY <1>4, <1>5 DEF Claims, Fills
<1>7. CallsTypeOK' /\ NothingBefore'
  BY <1>1, <1>2, <1>3, <1>4, <1>5 DEF CallsTypeOK, NothingBefore
<1>8. ClaimsAreApart'
  BY <1>1, <1>4, <1>6 DEF CallsInv, ClaimsAreApart
<1>9. NoTaskYet' /\ ReturnsWhole'
  BY <1>1, <1>3, <1>4 DEF CallsInv, NoTaskYet, ReturnsWhole
<1>10. TasksAreCallers'
  <2>1. \A q \in Prefixes : \A i \in Tasks : owner[q][i] # m
    BY <1>1 DEF CallsInv, NoTaskYet
  <2>2. call[c].created <= Len(taskOrder) /\ \A k \in DOMAIN taskOrder : ~ (k <= call[c].created)
    BY <1>1, <1>3 DEF CallsInv, NoTaskYet
  <2>3. QED
    BY <1>1, <1>3, <1>4, <1>6, <2>1, <2>2 DEF CallsInv, TasksAreCallers
<1>11. DependsOnOwnTasks'
  BY <1>1, <1>3 DEF CallsInv, DependsOnOwnTasks
<1>12. QED
  BY <1>7, <1>8, <1>9, <1>10, <1>11 DEF CallsInv

LEMMA CreatesTaskKeeps ==
    ASSUME TemplateInv, CallsInv, NEW c \in Callers, CreatesTask(c)
    PROVE  CallsInv'
<1> DEFINE m == call[c].mission
           p == call[c].prefix
           n == call[c].created + 1
           i == taskOrder[n]
<1>1. /\ place = "accepted" /\ UNCHANGED vars /\ call[c].place = "tasks" /\ TasksLeft(c)
      /\ dagRuns' = dagRuns /\ missions' = missions
      /\ owner[p][i] = NoMission
      /\ owner' = [owner EXCEPT ![p][i] = m]
      /\ call' = [call EXCEPT ![c].created = @ + 1]
  BY DEF CreatesTask, At, NextTask
<1>2. CallsTypeOK
  BY DEF CallsInv
<1>3. /\ place' = place /\ taskOrder' = taskOrder /\ Tasks' = Tasks
      /\ \A j : Dependencies(j)' = Dependencies(j)
      /\ taskOrder \in Seq(Tasks) /\ NoneTwice /\ DependenciesFirst
      /\ \A j \in Tasks : Dependencies(j) \subseteq Tasks
  BY <1>1, TemplateStands
<1>4. /\ Claims(c) /\ Fills(c) /\ p \in Prefixes /\ m \in dagRuns /\ m \in missions
      /\ m \in Missions /\ m # NoMission
  BY <1>1, <1>2, RequestsAssumption
     DEF Claims, Fills, CallsInv, CallsTypeOK, ClaimsAreApart, TasksAreCallers
<1>5. n \in DOMAIN taskOrder /\ i \in Tasks /\ n \in Nat /\ n = call[c].created + 1
  BY <1>1, <1>2, <1>3 DEF TasksLeft, CallsTypeOK
<1>6. /\ call' \in [Callers -> [place : Places, mission : Missions \cup {NoMission},
                                prefix : Prefixes \cup {NoMission}, created : Nat]]
      /\ call'[c].created = n
      /\ \A d \in Callers : /\ call'[d].place = call[d].place
                            /\ call'[d].mission = call[d].mission
                            /\ call'[d].prefix = call[d].prefix
                            /\ d # c => call'[d].created = call[d].created
  BY <1>1, <1>2 DEF CallsTypeOK
<1> HIDE DEF n
<1>7. /\ owner' \in [Prefixes -> [Tasks -> Missions \cup {NoMission}]]
      /\ owner'[p][i] = m
      /\ \A q \in Prefixes : \A j \in Tasks :
            q # p \/ j # i => owner'[q][j] = owner[q][j]
  BY <1>1, <1>2, <1>4, <1>5 DEF CallsTypeOK
<1> HIDE DEF m, p, i
<1>8. \A q \in Prefixes : \A j \in Tasks :
         \/ q = p /\ j = i /\ owner'[q][j] = m /\ owner[q][j] = NoMission
         \/ owner'[q][j] = owner[q][j]
  BY <1>1, <1>7
<1>9. \A d \in Callers : (Claims(d)' <=> Claims(d)) /\ (Fills(d)' <=> Fills(d))
  BY <1>6 DEF Claims, Fills
<1>10. \A d \in Callers : Claims(d) /\ call[d].mission = m => d = c
  BY <1>4 DEF CallsInv, ClaimsAreApart, m
<1>11. CallsTypeOK' /\ NothingBefore'
  BY <1>1, <1>2, <1>3, <1>6, <1>7 DEF CallsTypeOK, NothingBefore
<1>12. ClaimsAreApart'
  BY <1>1, <1>6, <1>9 DEF CallsInv, ClaimsAreApart
<1>13. NoTaskYet'
  <2>1. \A d \in Callers : call[d].place = "mission" => call[d].mission # m /\ d # c
    BY <1>1, <1>10 DEF Claims
  <2>2. QED
    BY <1>3, <1>6, <1>8, <2>1 DEF CallsInv, NoTaskYet
<1>14. ReturnsWhole'
  BY <1>1, <1>3, <1>6 DEF CallsInv, ReturnsWhole
<1>15. TasksAreCallers'
  <2>1. ASSUME NEW d \in Callers, Fills(d)
        PROVE  /\ call[d].mission \in missions'
               /\ call'[d].created <= Len(taskOrder)
               /\ \A k \in DOMAIN taskOrder : k <= call'[d].created =>
                     owner'[call[d].prefix][taskOrder[k]] = call[d].mission
               /\ \A q \in Prefixes : \A j \in Tasks :
                     owner'[q][j] = call[d].mission => q = call[d].prefix
    <3>1. /\ call[d].mission \in missions /\ call[d].created <= Len(taskOrder)
          /\ call[d].mission # NoMission /\ call[d].prefix \in Prefixes
          /\ \A k \in DOMAIN taskOrder : k <= call[d].created =>
                owner[call[d].prefix][taskOrder[k]] = call[d].mission
          /\ \A q \in Prefixes : \A j \in Tasks :
                owner[q][j] = call[d].mission => q = call[d].prefix
      BY <1>2, <2>1, RequestsAssumption
         DEF CallsInv, CallsTypeOK, TasksAreCallers, ClaimsAreApart, Claims, Fills
    <3>2. \A k \in DOMAIN taskOrder : k <= call[d].created =>
             owner'[call[d].prefix][taskOrder[k]] = call[d].mission
      BY <1>3, <1>8, <3>1
    <3>3. CASE d = c
      <4>1. \A k \in DOMAIN taskOrder : k <= n => k <= call[c].created \/ k = n
        BY <1>2, <1>3, <1>5 DEF CallsTypeOK
      <4>2. owner'[call[d].prefix][taskOrder[n]] = call[d].mission
        BY <1>7, <3>3 DEF p, m, i
      <4>3. n <= Len(taskOrder)
        BY <1>3, <1>5
      <4>4. \A q \in Prefixes : \A j \in Tasks :
               owner'[q][j] = call[d].mission => q = call[d].prefix
        BY <1>8, <3>1, <3>3 DEF p
      <4>5. QED
        BY <1>1, <1>6, <3>1, <3>2, <3>3, <4>1, <4>2, <4>3, <4>4
    <3>4. CASE d # c
      <4>1. call[d].mission # m
        BY <1>10, <2>1, <3>4 DEF Claims, Fills
      <4>2. \A q \in Prefixes : \A j \in Tasks :
               owner'[q][j] = call[d].mission => q = call[d].prefix
        BY <1>8, <3>1, <4>1
      <4>3. QED
        BY <1>1, <1>6, <3>1, <3>2, <3>4, <4>2
    <3>5. QED
      BY <3>3, <3>4
  <2>2. QED
    BY <1>3, <1>6, <1>9, <2>1 DEF TasksAreCallers
<1>16. DependsOnOwnTasks'
  <2>1. ASSUME NEW j \in Dependencies(i) PROVE owner[p][j] = m /\ owner'[p][j] = m
    <3>1. PICK k \in 1 .. (n - 1) : taskOrder[k] = j
      BY <1>3, <1>5, <2>1 DEF DependenciesFirst, i
    <3>2. k \in DOMAIN taskOrder /\ k <= call[c].created
      BY <1>2, <1>3, <1>5, <3>1 DEF CallsTypeOK
    <3>3. owner[p][j] = m
      BY <1>4, <3>1, <3>2 DEF CallsInv, TasksAreCallers, p, m
    <3>4. j \in Tasks
      BY <1>3, <3>1, <3>2
    <3>5. QED
      BY <1>4, <1>8, <3>3, <3>4
  <2>2. ASSUME NEW q \in Prefixes, NEW j \in Tasks, owner'[q][j] # NoMission
        PROVE  /\ owner'[q][j] \in missions \cap dagRuns
               /\ \A k \in Dependencies(j) : owner'[q][k] = owner'[q][j]
    <3>1. CASE q = p /\ j = i
      BY <1>4, <1>7, <2>1, <3>1
    <3>2. CASE ~ (q = p /\ j = i)
      <4>1. owner'[q][j] = owner[q][j]
        BY <1>8, <3>2
      <4>2. /\ owner[q][j] \in missions \cap dagRuns
            /\ \A k \in Dependencies(j) : owner[q][k] = owner[q][j]
        BY <2>2, <4>1 DEF CallsInv, DependsOnOwnTasks
      <4>3. \A k \in Dependencies(j) : owner'[q][k] = owner[q][k]
        BY <1>3, <1>8, <2>2, <4>1, <4>2
      <4>4. QED
        BY <4>1, <4>2, <4>3
    <3>3. QED
      BY <3>1, <3>2
  <2>3. QED
    BY <1>1, <1>3, <2>2 DEF DependsOnOwnTasks
<1>17. QED
  BY <1>11, <1>12, <1>13, <1>14, <1>15, <1>16 DEF CallsInv

LEMMA CallsStutter ==
    ASSUME TemplateInv, CallsInv, UNCHANGED instantiationVars
    PROVE  CallsInv'
<1>1. /\ place' = place /\ taskOrder' = taskOrder /\ given' = given /\ call' = call
      /\ dagRuns' = dagRuns /\ missions' = missions /\ owner' = owner
  BY DEF instantiationVars, vars, rows
<1>2. Tasks' = Tasks /\ \A i : Dependencies(i)' = Dependencies(i)
  BY <1>1, SameGraph
<1>3. CallsTypeOK' /\ NothingBefore'
  BY <1>1, <1>2 DEF CallsInv, CallsTypeOK, NothingBefore
<1>4. ClaimsAreApart' /\ NoTaskYet' /\ ReturnsWhole'
  BY <1>1, <1>2 DEF CallsInv, ClaimsAreApart, NoTaskYet, ReturnsWhole, Claims
<1>5. TasksAreCallers'
  BY <1>1, <1>2 DEF CallsInv, TasksAreCallers, Fills
<1>6. DependsOnOwnTasks'
  BY <1>1, <1>2 DEF CallsInv, DependsOnOwnTasks
<1>7. QED
  BY <1>3, <1>4, <1>5, <1>6 DEF CallsInv

LEMMA CallsStep ==
    ASSUME TemplateInv, CallsInv, [InstantiationNext]_instantiationVars
    PROVE  CallsInv'
<1>1. CASE UNCHANGED instantiationVars
  BY <1>1, CallsStutter
<1>2. CASE Next /\ UNCHANGED <<call, rows>>
  BY <1>2, ParserKeepsCalls
<1>3. ASSUME NEW c \in Callers, NEW m \in Missions, NEW p \in Prefixes, CreatesRun(c, m, p)
      PROVE  CallsInv'
  BY <1>3, CreatesRunKeeps
<1>4. ASSUME NEW c \in Callers, CreatesMission(c) PROVE CallsInv'
  BY <1>4, CreatesMissionKeeps
<1>5. ASSUME NEW c \in Callers, CreatesTask(c) PROVE CallsInv'
  BY <1>5, CreatesTaskKeeps
<1>6. ASSUME NEW c \in Callers, TaskIsTaken(c) \/ Refuses(c) \/ Dies(c) PROVE CallsInv'
  <2>1. place = "accepted" /\ UNCHANGED vars /\ UNCHANGED rows /\ To(c, "failed")
    BY <1>6 DEF TaskIsTaken, Refuses, Dies, At
  <2>2. QED
    BY <2>1, FailsKeeps
<1>7. ASSUME NEW c \in Callers, Returns(c) PROVE CallsInv'
  BY <1>7, ReturnsKeeps
<1>8. QED
  BY <1>1, <1>2, <1>3, <1>4, <1>5, <1>6, <1>7 DEF InstantiationNext, CallStep

LEMMA CallsInvHolds == InstantiationSpec => [](TemplateInv /\ CallsInv)
<1>1. InstantiationInit => CallsInv
  BY CallsInit
<1>2. TemplateInv /\ CallsInv /\ [InstantiationNext]_instantiationVars => CallsInv'
  BY CallsStep
<1>3. QED
  BY <1>1, <1>2, TemplateInvHolds, PTL DEF InstantiationSpec

(* However many calls of instantiate collide on missions and prefixes and  *)
(* wherever they fail, a task there is belongs to a mission there is, and  *)
(* everything it depends on is there and of the same mission.              *)
THEOREM NoForeignDependency == InstantiationSpec => []DependsOnOwnTasks
<1>1. CallsInv => DependsOnOwnTasks
  BY DEF CallsInv
<1>2. QED
  BY <1>1, CallsInvHolds, PTL

(* A call that returns has made its run and its mission, and exactly one   *)
(* task for every step of the run.                                         *)
THEOREM OneTaskForEachStep == InstantiationSpec => []OneTaskPerStep
<1>1. ASSUME TemplateInv, CallsInv PROVE OneTaskPerStep
  <2>1. SUFFICES ASSUME NEW c \in Callers, call[c].place = "returned"
                 PROVE  /\ call[c].mission \in missions \cap dagRuns
                        /\ \A i \in Tasks :
                              {p \in Prefixes : owner[p][i] = call[c].mission}
                                 = {call[c].prefix}
    BY DEF OneTaskPerStep
  <2>2. Claims(c) /\ Fills(c)
    BY <2>1 DEF Claims, Fills
  <2>3. /\ call[c].mission \in missions \cap dagRuns /\ call[c].prefix \in Prefixes
        /\ call[c].created = Len(taskOrder)
        /\ \A k \in DOMAIN taskOrder : k <= call[c].created =>
              owner[call[c].prefix][taskOrder[k]] = call[c].mission
        /\ \A p \in Prefixes : \A i \in Tasks :
              owner[p][i] = call[c].mission => p = call[c].prefix
    BY <1>1, <2>1, <2>2 DEF CallsInv, ClaimsAreApart, TasksAreCallers, ReturnsWhole
  <2>4. Placed = Tasks /\ taskOrder \in Seq(Tasks)
    BY <1>1, <2>1 DEF CallsInv, NothingBefore, TemplateInv, TemplateDagTypeOK
  <2>5. ASSUME NEW i \in Tasks PROVE owner[call[c].prefix][i] = call[c].mission
    <3>1. PICK k \in DOMAIN taskOrder : taskOrder[k] = i
      BY <2>4 DEF Placed
    <3>2. k <= call[c].created
      BY <2>3, <2>4
    <3>3. QED
      BY <2>3, <3>1, <3>2
  <2>6. QED
    BY <2>3, <2>5
<1>2. QED
  BY <1>1, CallsInvHolds, PTL
=============================================================================
