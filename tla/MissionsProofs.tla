--------------------------- MODULE MissionsProofs ---------------------------
(***************************************************************************)
(* Proofs about Missions, for any tasks, runs, edits and startups: what    *)
(* the rows of mission runs say is true.                                   *)
(***************************************************************************)
EXTENDS Missions, SequenceTheorems, FiniteSetTheorems, TLAPS

(***************************************************************************)
(* The order of a mission.                                                 *)
(***************************************************************************)
LEMMA InsertAtInserts ==
    ASSUME NEW S, NEW s \in Seq(S), IsInjective(s), NEW i \in 1 .. (Len(s) + 1),
           NEW e \in S, \A k \in DOMAIN s : s[k] # e
    PROVE  InsertAt(s, i, e) \in Seq(S) /\ IsInjective(InsertAt(s, i, e))
<1> DEFINE left == SubSeq(s, 1, i - 1)
           begin == left \o <<e>>
           right == SubSeq(s, i, Len(s))
           new == begin \o right
<1>1. InsertAt(s, i, e) = new
  BY DEF InsertAt
<1>2. left \in Seq(S) /\ Len(left) = i - 1 /\ \A k \in 1 .. (i - 1) : left[k] = s[k]
  OBVIOUS
<1>3. /\ right \in Seq(S) /\ Len(right) = Len(s) - i + 1
      /\ \A k \in 1 .. (Len(s) - i + 1) : right[k] = s[k + i - 1]
  OBVIOUS
<1> HIDE DEF left, right
<1>4. <<e>> \in Seq(S) /\ Len(<<e>>) = 1 /\ <<e>>[1] = e
  OBVIOUS
<1>5. /\ begin \in Seq(S) /\ Len(begin) = i
      /\ \A k \in 1 .. Len(begin) : begin[k] = IF k <= Len(left) THEN left[k] ELSE <<e>>[k - Len(left)]
  BY <1>2, <1>4, ConcatProperties
<1>6. \A k \in 1 .. i : begin[k] = IF k < i THEN s[k] ELSE e
  BY <1>2, <1>4, <1>5
<1> HIDE DEF begin
<1>7. /\ new \in Seq(S) /\ Len(new) = Len(s) + 1
      /\ \A k \in 1 .. Len(new) : new[k] = IF k <= Len(begin) THEN begin[k] ELSE right[k - Len(begin)]
  <2>1. /\ new \in Seq(S) /\ Len(new) = Len(begin) + Len(right)
        /\ \A k \in 1 .. (Len(begin) + Len(right)) :
              new[k] = IF k <= Len(begin) THEN begin[k] ELSE right[k - Len(begin)]
    <3>1. begin \in Seq(S) /\ right \in Seq(S)
      BY <1>3, <1>5
    <3>2. QED
      BY <3>1, ConcatProperties, Zenon
  <2> HIDE DEF new
  <2>2. Len(new) = Len(s) + 1
    BY <1>3, <1>5, <2>1
  <2>3. QED
    BY <2>1, <2>2
<1> HIDE DEF new
<1>8. \A k \in 1 .. (Len(s) + 1) : new[k] = IF k < i THEN s[k] ELSE IF k = i THEN e ELSE s[k - 1]
  <2> SUFFICES ASSUME NEW k \in 1 .. (Len(s) + 1)
               PROVE  new[k] = IF k < i THEN s[k] ELSE IF k = i THEN e ELSE s[k - 1]
    OBVIOUS
  <2>1. CASE k <= i
    BY <2>1, <1>5, <1>6, <1>7
  <2>2. CASE ~ k <= i
    <3>1. new[k] = right[k - i]
      BY <2>2, <1>5, <1>7
    <3>2. k - i \in 1 .. (Len(s) - i + 1) /\ k - i + i - 1 = k - 1
      BY <2>2
    <3>3. right[k - i] = s[k - i + i - 1]
      BY <3>2, <1>3
    <3>4. QED
      BY <2>2, <3>1, <3>2, <3>3
  <2>3. QED
    BY <2>1, <2>2
<1>9. ASSUME NEW k \in 1 .. (Len(s) + 1), NEW l \in 1 .. (Len(s) + 1), new[k] = new[l]
      PROVE  k = l
  <2>1. \A m, n \in 1 .. Len(s) : s[m] = s[n] => m = n
    BY DEF IsInjective
  <2>2. \A m \in 1 .. (Len(s) + 1) : m # i => new[m] # e
    <3> SUFFICES ASSUME NEW m \in 1 .. (Len(s) + 1), m # i
                 PROVE  new[m] # e
      OBVIOUS
    <3>1. CASE m < i
      BY <3>1, <1>8
    <3>2. CASE m > i
      <4>1. m - 1 \in 1 .. Len(s) /\ new[m] = s[m - 1]
        BY <3>2, <1>8
      <4>2. QED
        BY <4>1
    <3>3. QED
      BY <3>1, <3>2
  <2>3. CASE k = i \/ l = i
    BY <2>2, <2>3, <1>8, <1>9
  <2>4. CASE k # i /\ l # i
    <3> DEFINE from(m) == IF m < i THEN m ELSE m - 1
    <3>1. \A m \in 1 .. (Len(s) + 1) : m # i => from(m) \in 1 .. Len(s) /\ new[m] = s[from(m)]
      BY <1>8
    <3>2. from(k) \in 1 .. Len(s) /\ from(l) \in 1 .. Len(s) /\ s[from(k)] = s[from(l)]
      BY <2>4, <3>1, <1>9
    <3>3. from(k) = from(l)
      BY <2>1, <3>2
    <3>4. QED
      BY <2>4, <3>3
  <2>5. QED
    BY <2>3, <2>4
<1>10. QED
  BY <1>1, <1>7, <1>9 DEF IsInjective

LEMMA RemoveFirstRemoves ==
    ASSUME NEW S, NEW s \in Seq(S), IsInjective(s), NEW e
    PROVE  /\ RemoveFirst(s, e) \in Seq(S) /\ IsInjective(RemoveFirst(s, e))
           /\ \A k \in DOMAIN RemoveFirst(s, e) : RemoveFirst(s, e)[k] # e
<1>1. CASE ~ \E i \in 1 .. Len(s) : s[i] = e
  BY <1>1 DEF RemoveFirst
<1>2. CASE \E i \in 1 .. Len(s) : s[i] = e
  <2> DEFINE p == SelectInSeq(s, LAMBDA v : v = e)
             left == SubSeq(s, 1, p - 1)
             right == SubSeq(s, p + 1, Len(s))
             rest == left \o right
  <2>1. p \in 1 .. Len(s) /\ s[p] = e
    <3> DEFINE I == {i \in 1 .. Len(s) : s[i] = e}
    <3>1. PICK i \in I : I = {i}
      BY <1>2 DEF IsInjective
    <3>2. Min(I) = i
      BY <3>1 DEF Min
    <3>3. p = Min(I)
      BY <3>1 DEF SelectInSeq
    <3>4. QED
      BY <3>1, <3>2, <3>3
  <2>2. RemoveFirst(s, e) = rest
    BY <1>2 DEF RemoveFirst, RemoveAt
  <2> HIDE DEF p
  <2>3. left \in Seq(S) /\ Len(left) = p - 1 /\ \A k \in 1 .. (p - 1) : left[k] = s[k]
    BY <2>1
  <2>4. /\ right \in Seq(S) /\ Len(right) = Len(s) - p
        /\ \A k \in 1 .. (Len(s) - p) : right[k] = s[p + k]
    BY <2>1
  <2> HIDE DEF left, right
  <2>5. /\ rest \in Seq(S) /\ Len(rest) = Len(s) - 1
        /\ \A k \in 1 .. Len(rest) : rest[k] = IF k <= Len(left) THEN left[k] ELSE right[k - Len(left)]
    <3>1. /\ rest \in Seq(S) /\ Len(rest) = Len(left) + Len(right)
          /\ \A k \in 1 .. (Len(left) + Len(right)) :
                rest[k] = IF k <= Len(left) THEN left[k] ELSE right[k - Len(left)]
      BY <2>3, <2>4, ConcatProperties, Zenon
    <3> HIDE DEF rest
    <3>2. Len(rest) = Len(s) - 1
      BY <2>1, <2>3, <2>4, <3>1
    <3>3. QED
      BY <3>1, <3>2
  <2> HIDE DEF rest
  <2>6. \A k \in 1 .. (Len(s) - 1) : rest[k] = IF k < p THEN s[k] ELSE s[k + 1]
    <3> SUFFICES ASSUME NEW k \in 1 .. (Len(s) - 1)
                 PROVE  rest[k] = IF k < p THEN s[k] ELSE s[k + 1]
      OBVIOUS
    <3>1. CASE k < p
      BY <3>1, <2>1, <2>3, <2>5
    <3>2. CASE ~ k < p
      <4>1. k - (p - 1) \in 1 .. (Len(s) - p) /\ p + (k - (p - 1)) = k + 1
        BY <2>1, <3>2
      <4>2. rest[k] = right[k - (p - 1)]
        BY <2>1, <2>3, <2>5, <3>2
      <4>3. right[k - (p - 1)] = s[p + (k - (p - 1))]
        BY <2>4, <4>1
      <4>4. QED
        BY <3>2, <4>1, <4>2, <4>3
    <3>3. QED
      BY <3>1, <3>2
  <2>7. \A k \in DOMAIN rest : rest[k] # e
    <3> SUFFICES ASSUME NEW k \in 1 .. (Len(s) - 1)
                 PROVE  rest[k] # e
      BY <2>5
    <3>1. \E i \in 1 .. Len(s) : i # p /\ rest[k] = s[i]
      BY <2>1, <2>6
    <3>2. QED
      BY <2>1, <3>1 DEF IsInjective
  <2>8. ASSUME NEW k \in 1 .. (Len(s) - 1), NEW l \in 1 .. (Len(s) - 1), rest[k] = rest[l]
        PROVE  k = l
    BY <2>1, <2>6, <2>8 DEF IsInjective
  <2>9. QED
    BY <2>2, <2>5, <2>7, <2>8 DEF IsInjective
<1>3. QED
  BY <1>1, <1>2

(***************************************************************************)
(* The record of a run: the tasks before the last one it began were        *)
(* completed, each after what it depended on, and the row does not say     *)
(* more than the call has done.                                            *)
(***************************************************************************)
RunRecords == [row : {"none", "running"} \cup Verdicts, place : Places, order : Seq(Tasks),
               needs : [Tasks -> SUBSET Tasks], children : Seq(Verdicts)]

AllCompleted(x) == \A k \in 1 .. Len(x.children) : x.children[k] = "completed"
Begun(x) == IF x.place = "running" THEN Len(x.children) + 1 ELSE Len(x.children)

DependenciesFirst(x) ==
    /\ \A k \in 1 .. (Begun(x) - 1) : x.children[k] = "completed"
    /\ \A k \in 1 .. Begun(x) : \A t \in x.needs[x.order[k]] : \E l \in 1 .. (k - 1) : x.order[l] = t

PlaceIsTrue(x) ==
    /\ Begun(x) <= Len(x.order)
    /\ x.place \in {"begun", "next", "running"} => AllCompleted(x)
    /\ x.place = "returned" => x.children # <<>>
    /\ x.place = "settling" => x.row \in Verdicts

RowIsTrue(x) ==
    /\ x.place = "free" => x.row = "none"
    /\ x.place = "gone" => x.row # "running"
    /\ x.row = "completed" => /\ x.place \in {"settling", "gone"}
                              /\ Len(x.children) = Len(x.order) /\ AllCompleted(x)

Sound(x) == DependenciesFirst(x) /\ PlaceIsTrue(x) /\ RowIsTrue(x)

MissionTypes ==
    /\ status \in {"ready", "running", "completed", "failed"}
    /\ order \in Seq(Tasks) /\ IsInjective(order)
    /\ members \subseteq Tasks
    /\ dependsOn \in [Tasks -> SUBSET Tasks]
    /\ task \in [Tasks -> {"ready", "running", "completed", "failed"}]
    /\ attaching \subseteq members

MissionInvariant ==
    /\ MissionTypes
    /\ run \in [Runs -> RunRecords]
    /\ \A r \in Runs : Sound(run[r])
    /\ RunningMissionIsRun

(***************************************************************************)
(* What each step of a call makes of the record of its run.                *)
(***************************************************************************)
LEMMA FreeIsSound == Free \in RunRecords /\ Sound(Free)
<1>1. Free \in RunRecords
  BY DEF Free, RunRecords, Places
<1>2. Len(Free.children) = 0 /\ Len(Free.order) = 0 /\ Begun(Free) = 0
      /\ Free.row = "none" /\ Free.place = "free"
  BY DEF Free, Begun
<1>3. DependenciesFirst(Free)
  BY <1>2 DEF DependenciesFirst
<1>4. PlaceIsTrue(Free) /\ RowIsTrue(Free)
  BY <1>2 DEF PlaceIsTrue, RowIsTrue
<1>5. QED
  BY <1>1, <1>3, <1>4 DEF Sound

(* A call that goes from one place to another with the same children.      *)
LEMMA MovesSoundly ==
    ASSUME NEW x \in RunRecords, Sound(x),
           NEW row \in {"none", "running"} \cup Verdicts, NEW place \in Places \ {"running"},
           RowIsTrue([x EXCEPT !.row = row, !.place = place]),
           place \in {"begun", "next"} => AllCompleted(x),
           place = "returned" => x.children # <<>>,
           place = "settling" => row \in Verdicts
    PROVE  /\ [x EXCEPT !.row = row, !.place = place] \in RunRecords
           /\ Sound([x EXCEPT !.row = row, !.place = place])
<1> DEFINE y == [x EXCEPT !.row = row, !.place = place]
<1>1. /\ y \in RunRecords /\ y.row = row /\ y.place = place
      /\ y.order = x.order /\ y.needs = x.needs /\ y.children = x.children
  BY DEF RunRecords
<1> HIDE DEF y
<1>2. Begun(y) = Len(x.children) /\ Len(x.children) \in Nat /\ Begun(y) <= Begun(x) /\ Begun(x) \in Nat
  BY <1>1 DEF Begun, RunRecords
<1>3. DependenciesFirst(y)
  <2>1. (1 .. (Begun(y) - 1)) \subseteq 1 .. (Begun(x) - 1) /\ (1 .. Begun(y)) \subseteq 1 .. Begun(x)
    BY <1>2
  <2>2. DependenciesFirst(x)
    BY DEF Sound
  <2>3. \A k \in 1 .. (Begun(y) - 1) : y.children[k] = "completed"
    BY <1>1, <2>1, <2>2, Zenon DEF DependenciesFirst
  <2>4. ASSUME NEW k \in 1 .. Begun(y), NEW t \in y.needs[y.order[k]]
        PROVE  \E l \in 1 .. (k - 1) : y.order[l] = t
    <3>1. k \in 1 .. Begun(x) /\ t \in x.needs[x.order[k]]
      BY <1>1, <2>1, <2>4
    <3>2. \E l \in 1 .. (k - 1) : x.order[l] = t
      BY <2>2, <3>1, Zenon DEF DependenciesFirst
    <3>3. QED
      BY <1>1, <3>2
  <2>5. QED
    BY <2>3, <2>4, Zenon DEF DependenciesFirst
<1>4. PlaceIsTrue(y)
  BY <1>1, <1>2 DEF Sound, PlaceIsTrue, AllCompleted, RunRecords
<1>5. RowIsTrue(y)
  BY DEF y
<1>6. QED
  BY <1>1, <1>3, <1>4, <1>5 DEF y, Sound

LEMMA BeginsSoundly ==
    ASSUME NEW o \in Seq(Tasks), NEW d \in [Tasks -> SUBSET Tasks]
    PROVE  LET y == [Free EXCEPT !.row = "running", !.place = "begun", !.order = o, !.needs = d]
           IN  y \in RunRecords /\ Sound(y)
<1> DEFINE y == [Free EXCEPT !.row = "running", !.place = "begun", !.order = o, !.needs = d]
<1>1. Free \in RunRecords /\ Len(Free.children) = 0
  BY FreeIsSound DEF Free
<1>2. "running" \in {"none", "running"} \cup Verdicts /\ "begun" \in Places
  BY DEF Places
<1>3. y \in RunRecords
  BY <1>1, <1>2 DEF RunRecords
<1>4. y.row = "running" /\ y.place = "begun" /\ y.order = o /\ y.children = Free.children
  BY <1>1 DEF RunRecords
<1> HIDE DEF y
<1>5. Len(y.children) = 0 /\ Begun(y) = 0 /\ Len(o) \in Nat
  BY <1>1, <1>4 DEF Begun
<1>6. DependenciesFirst(y)
  BY <1>5 DEF DependenciesFirst
<1>7. PlaceIsTrue(y) /\ RowIsTrue(y)
  BY <1>4, <1>5 DEF PlaceIsTrue, RowIsTrue, AllCompleted
<1>8. QED
  BY <1>3, <1>6, <1>7 DEF y, Sound

LEMMA StartsSoundly ==
    ASSUME NEW x \in RunRecords, Sound(x), x.place = "next", Len(x.children) < Len(x.order),
           \A t \in x.needs[x.order[Len(x.children) + 1]] :
              \E l \in 1 .. Len(x.children) : x.order[l] = t
    PROVE  [x EXCEPT !.place = "running"] \in RunRecords /\ Sound([x EXCEPT !.place = "running"])
<1> DEFINE y == [x EXCEPT !.place = "running"]
<1>1. /\ y \in RunRecords /\ y.row = x.row /\ y.place = "running"
      /\ y.order = x.order /\ y.needs = x.needs /\ y.children = x.children
  BY DEF RunRecords, Places
<1> HIDE DEF y
<1>2. /\ Begun(y) = Len(x.children) + 1 /\ Begun(x) = Len(x.children)
      /\ Len(x.children) \in Nat /\ Len(x.order) \in Nat
  BY <1>1 DEF Begun, RunRecords
<1>3. AllCompleted(x) /\ AllCompleted(y)
  BY <1>1 DEF Sound, PlaceIsTrue, AllCompleted
<1>4. DependenciesFirst(y)
  <2>1. \A k \in 1 .. (Begun(y) - 1) : y.children[k] = "completed"
    BY <1>1, <1>2, <1>3 DEF AllCompleted
  <2>2. ASSUME NEW k \in 1 .. Begun(y), NEW t \in y.needs[y.order[k]]
        PROVE  \E l \in 1 .. (k - 1) : y.order[l] = t
    <3>1. CASE k = Len(x.children) + 1
      <4>1. k - 1 = Len(x.children)
        BY <1>2, <3>1
      <4>2. QED
        BY <1>1, <3>1, <4>1
    <3>2. CASE k # Len(x.children) + 1
      <4>1. k \in 1 .. Begun(x)
        BY <1>2, <3>2
      <4>2. QED
        BY <1>1, <4>1 DEF Sound, DependenciesFirst
    <3>3. QED
      BY <3>1, <3>2
  <2>3. QED
    BY <2>1, <2>2 DEF DependenciesFirst
<1>5. PlaceIsTrue(y)
  BY <1>1, <1>2, <1>3 DEF PlaceIsTrue
<1>6. RowIsTrue(y)
  BY <1>1 DEF Sound, RowIsTrue
<1>7. QED
  BY <1>1, <1>4, <1>5, <1>6 DEF y, Sound

LEMMA EndsSoundly ==
    ASSUME NEW x \in RunRecords, Sound(x), x.place = "running", NEW verdict \in Verdicts
    PROVE  /\ [x EXCEPT !.place = "returned", !.children = Append(@, verdict)] \in RunRecords
           /\ Sound([x EXCEPT !.place = "returned", !.children = Append(@, verdict)])
<1> DEFINE y == [x EXCEPT !.place = "returned", !.children = Append(@, verdict)]
           longer == Append(x.children, verdict)
<1>1. /\ longer \in Seq(Verdicts) /\ Len(longer) = Len(x.children) + 1 /\ longer # <<>>
      /\ \A k \in 1 .. Len(x.children) : longer[k] = x.children[k]
  BY AppendProperties DEF RunRecords
<1> HIDE DEF longer
<1>2. y = [x EXCEPT !.place = "returned", !.children = longer]
  BY DEF longer, RunRecords
<1>3. /\ y \in RunRecords /\ y.row = x.row /\ y.place = "returned"
      /\ y.order = x.order /\ y.needs = x.needs /\ y.children = longer
  BY <1>1, <1>2 DEF RunRecords, Places
<1> HIDE DEF y
<1>4. Begun(y) = Begun(x) /\ Begun(x) = Len(x.children) + 1 /\ Len(x.children) \in Nat
  BY <1>1, <1>3 DEF Begun, RunRecords
<1>5. AllCompleted(x)
  BY DEF Sound, PlaceIsTrue
<1>6. DependenciesFirst(y)
  <2>1. \A k \in 1 .. (Begun(y) - 1) : y.children[k] = "completed"
    BY <1>1, <1>3, <1>4, <1>5 DEF AllCompleted
  <2>2. QED
    BY <1>3, <1>4, <2>1 DEF Sound, DependenciesFirst
<1>7. PlaceIsTrue(y)
  BY <1>1, <1>3, <1>4 DEF Sound, PlaceIsTrue
<1>8. RowIsTrue(y)
  BY <1>3 DEF Sound, RowIsTrue
<1>9. QED
  BY <1>3, <1>6, <1>7, <1>8 DEF y, Sound

(***************************************************************************)
(* The steps.                                                              *)
(***************************************************************************)
RunsInvariant == run \in [Runs -> RunRecords] /\ \A r \in Runs : Sound(run[r])

LEMMA RunChanges ==
    ASSUME RunsInvariant, NEW r \in Runs, NEW y \in RunRecords, Sound(y),
           run' = [run EXCEPT ![r] = y]
    PROVE  RunsInvariant'
BY DEF RunsInvariant

(* While the call of a step lives on, its mission is being run. *)
LEMMA GoesOnRunning ==
    ASSUME RunsInvariant, NEW r \in Runs, NEW y \in RunRecords, Sound(y),
           run' = [run EXCEPT ![r] = y], y.place \notin {"free", "gone"}
    PROVE  RunsInvariant' /\ RunningMissionIsRun'
<1>1. RunsInvariant'
  BY RunChanges
<1>2. run'[r] = y
  BY DEF RunsInvariant
<1>3. Alive(r)'
  BY <1>2 DEF Alive
<1>4. QED
  BY <1>1, <1>3 DEF RunningMissionIsRun

LEMMA LastChild ==
    ASSUME NEW x \in RunRecords, Sound(x), x.place = "returned"
    PROVE  /\ Last(x.children) \in Verdicts
           /\ Last(x.children) = "completed" => AllCompleted(x)
<1>1. Len(x.children) \in Nat /\ Len(x.children) >= 1 /\ x.children \in Seq(Verdicts)
  BY EmptySeq DEF Sound, PlaceIsTrue, RunRecords
<1>2. Begun(x) = Len(x.children)
  BY DEF Begun
<1>3. Last(x.children) = x.children[Len(x.children)]
  BY DEF Last
<1>4. x.children[Len(x.children)] \in Verdicts
  BY <1>1
<1>5. \A k \in 1 .. (Len(x.children) - 1) : x.children[k] = "completed"
  BY <1>2 DEF Sound, DependenciesFirst
<1>6. QED
  BY <1>1, <1>3, <1>4, <1>5 DEF AllCompleted

LEMMA RunStepKeeps ==
    ASSUME MissionTypes, RunsInvariant, NEW r \in Runs, RunsMission(r) \/ RunStep(r)
    PROVE  MissionTypes' /\ RunsInvariant' /\ RunningMissionIsRun'
<1> DEFINE x == run[r]
<1>0. x \in RunRecords /\ Sound(x)
  BY DEF RunsInvariant
<1>1. CASE RunsMission(r)
  <2> DEFINE y == [Free EXCEPT !.row = "running", !.place = "begun", !.order = order, !.needs = dependsOn]
  <2>1. run' = [run EXCEPT ![r] = y]
    BY <1>1 DEF RunsMission
  <2>2. y \in RunRecords /\ Sound(y)
    BY BeginsSoundly DEF MissionTypes
  <2>3. y.place = "begun"
    BY DEF Free
  <2> HIDE DEF y
  <2>4. RunsInvariant' /\ RunningMissionIsRun'
    BY <2>1, <2>2, <2>3, GoesOnRunning
  <2>5. MissionTypes'
    BY <1>1 DEF RunsMission, MissionTypes, missionVars
  <2>6. QED
    BY <2>4, <2>5
<1>2. CASE MarksMission(r)
  <2> DEFINE y == [x EXCEPT !.row = x.row, !.place = "next"]
  <2>1. run' = [run EXCEPT ![r] = y]
    BY <1>0, <1>2 DEF MarksMission, RunRecords, RunsInvariant
  <2>2. y \in RunRecords /\ Sound(y) /\ y.place = "next"
    <3>1. x.row \in {"none", "running"} \cup Verdicts /\ "next" \in Places \ {"running"} /\ y.place = "next"
      BY <1>0 DEF RunRecords, Places
    <3>2. RowIsTrue(y) /\ AllCompleted(x)
      BY <1>0, <1>2 DEF MarksMission, Sound, RowIsTrue, PlaceIsTrue, RunRecords
    <3>3. QED
      BY <1>0, <3>1, <3>2, MovesSoundly
  <2> HIDE DEF y
  <2>3. RunsInvariant' /\ RunningMissionIsRun'
    BY <2>1, <2>2, GoesOnRunning
  <2>4. MissionTypes'
    BY <1>2 DEF MarksMission, MissionTypes
  <2>5. QED
    BY <2>3, <2>4
<1>3. CASE Starts(r)
  <2> DEFINE y == [x EXCEPT !.place = "running"]
  <2>1. run' = [run EXCEPT ![r] = y]
    BY <1>0, <1>3 DEF Starts, RunsInvariant
  <2>2. y \in RunRecords /\ Sound(y) /\ y.place = "running"
    <3>1. x.place = "next" /\ Len(x.children) < Len(x.order) /\ y.place = "running"
      BY <1>0, <1>3 DEF Starts, At, Done, RunRecords
    <3>2. \A t \in x.needs[x.order[Len(x.children) + 1]] :
             \E l \in 1 .. Len(x.children) : x.order[l] = t
      BY <1>3 DEF Starts, CompletedTaskIds, Child, Done
    <3>3. QED
      BY <1>0, <3>1, <3>2, StartsSoundly
  <2> HIDE DEF y
  <2>3. RunsInvariant' /\ RunningMissionIsRun'
    BY <2>1, <2>2, GoesOnRunning
  <2>4. MissionTypes'
    BY <1>3 DEF Starts, MissionTypes, missionVars
  <2>5. QED
    BY <2>3, <2>4
<1>4. ASSUME NEW verdict \in Verdicts, Finish(r, verdict),
             x.place \in {"next", "returned"},
             verdict = "completed" => Len(x.children) = Len(x.order) /\ AllCompleted(x)
      PROVE  RunsInvariant' /\ RunningMissionIsRun'
  <2> DEFINE y == [x EXCEPT !.row = verdict, !.place = "settling"]
  <2>1. run' = [run EXCEPT ![r] = y]
    BY <1>0, <1>4 DEF Finish, RunsInvariant
  <2>2. y.row = verdict /\ y.place = "settling" /\ y.children = x.children /\ y.order = x.order
    BY <1>0 DEF RunRecords
  <2>3. RowIsTrue(y)
    BY <1>4, <2>2 DEF RowIsTrue, AllCompleted
  <2>4. verdict \in {"none", "running"} \cup Verdicts /\ "settling" \in Places \ {"running"}
    BY DEF Places
  <2>5. y \in RunRecords /\ Sound(y)
    BY <1>0, <2>3, <2>4, MovesSoundly
  <2> HIDE DEF y
  <2>6. QED
    BY <2>1, <2>2, <2>5, GoesOnRunning
<1>5. CASE CannotStart(r)
  <2>1. RunsInvariant' /\ RunningMissionIsRun'
    BY <1>4, <1>5 DEF CannotStart, At, Verdicts
  <2>2. QED
    BY <1>5, <2>1 DEF CannotStart, MissionTypes, missionVars
<1>6. ASSUME NEW verdict \in Verdicts, TaskEnds(r, verdict)
      PROVE  MissionTypes' /\ RunsInvariant' /\ RunningMissionIsRun'
  <2> DEFINE y == [x EXCEPT !.place = "returned", !.children = Append(@, verdict)]
  <2>1. run' = [run EXCEPT ![r] = y]
    BY <1>0, <1>6 DEF TaskEnds, RunsInvariant
  <2>2. y \in RunRecords /\ Sound(y) /\ y.place = "returned"
    <3>1. x.place = "running" /\ y.place = "returned"
      BY <1>0, <1>6 DEF TaskEnds, At, RunRecords
    <3>2. QED
      BY <1>0, <3>1, EndsSoundly
  <2> HIDE DEF y
  <2>3. RunsInvariant' /\ RunningMissionIsRun'
    BY <2>1, <2>2, GoesOnRunning
  <2>4. MissionTypes'
    BY <1>6 DEF TaskEnds, MissionTypes, missionVars, Verdicts
  <2>5. QED
    BY <2>3, <2>4
<1>7. CASE GoesOn(r)
  <2> DEFINE y == [x EXCEPT !.row = x.row, !.place = "next"]
  <2>1. run' = [run EXCEPT ![r] = y]
    BY <1>0, <1>7 DEF GoesOn, RunRecords, RunsInvariant
  <2>2. y \in RunRecords /\ Sound(y) /\ y.place = "next"
    <3>1. x.row \in {"none", "running"} \cup Verdicts /\ "next" \in Places \ {"running"} /\ y.place = "next"
      BY <1>0 DEF RunRecords, Places
    <3>2. RowIsTrue(y)
      BY <1>0, <1>7 DEF GoesOn, At, Sound, RowIsTrue, RunRecords
    <3>3. AllCompleted(x)
      BY <1>0, <1>7, LastChild DEF GoesOn, At
    <3>4. QED
      BY <1>0, <3>1, <3>2, <3>3, MovesSoundly
  <2> HIDE DEF y
  <2>3. RunsInvariant' /\ RunningMissionIsRun'
    BY <2>1, <2>2, GoesOnRunning
  <2>4. MissionTypes'
    BY <1>7 DEF GoesOn, MissionTypes, missionVars
  <2>5. QED
    BY <2>3, <2>4
<1>8. CASE Stops(r)
  <2>1. RunsInvariant' /\ RunningMissionIsRun'
    BY <1>0, <1>4, <1>8, LastChild DEF Stops, At
  <2>2. QED
    BY <1>8, <2>1 DEF Stops, MissionTypes, missionVars
<1>9. CASE Completes(r)
  <2>1. AllCompleted(x) /\ x.place = "next" /\ Len(x.children) = Len(x.order)
    BY <1>0, <1>9 DEF Completes, At, Done, Sound, PlaceIsTrue
  <2>2. RunsInvariant' /\ RunningMissionIsRun'
    BY <1>4, <1>9, <2>1 DEF Completes, Verdicts
  <2>3. QED
    BY <1>9, <2>2 DEF Completes, MissionTypes, missionVars
<1>10. CASE SettlesMission(r)
  <2> DEFINE y == [x EXCEPT !.row = x.row, !.place = "gone"]
  <2>1. run' = [run EXCEPT ![r] = y]
    BY <1>0, <1>10 DEF SettlesMission, RunRecords, RunsInvariant
  <2>2. x.row \in Verdicts
    BY <1>0, <1>10 DEF SettlesMission, Sound, PlaceIsTrue
  <2>3. y \in RunRecords /\ Sound(y)
    <3>1. "gone" \in Places \ {"running"}
      BY DEF Places
    <3>2. RowIsTrue(y)
      BY <1>0, <2>2 DEF Sound, RowIsTrue, RunRecords, AllCompleted, Verdicts
    <3>3. QED
      BY <1>0, <2>2, <3>1, <3>2, MovesSoundly
  <2> HIDE DEF y
  <2>4. RunsInvariant'
    BY <2>1, <2>3, RunChanges
  <2>5. MissionTypes' /\ status' # "running"
    BY <1>10, <2>2 DEF SettlesMission, MissionTypes, Verdicts
  <2>6. QED
    BY <2>4, <2>5 DEF RunningMissionIsRun
<1>11. QED
  BY <1>1, <1>2, <1>3, <1>5, <1>6, <1>7, <1>8, <1>9, <1>10 DEF RunStep

LEMMA EditKeeps ==
    ASSUME MissionTypes, RunsInvariant, RunningMissionIsRun,
           \/ ReadiesMission
           \/ OrdersTask
           \/ \E t \in Tasks : ReadiesTask(t) \/ AttachesTask(t) \/ AttachesElsewhere(t)
    PROVE  MissionTypes' /\ RunsInvariant' /\ RunningMissionIsRun'
<1>1. run' = run /\ torn' = torn /\ (status' = status \/ status' = "ready")
  BY Zenon DEF ReadiesMission, ReadiesTask, AttachesTask, OrdersTask, AttachesElsewhere, Edit,
     missionVars
<1>2. RunsInvariant' /\ RunningMissionIsRun'
  BY <1>1 DEF RunsInvariant, RunningMissionIsRun, Alive
<1>3. CASE ReadiesMission
  BY <1>2, <1>3 DEF ReadiesMission, MissionTypes
<1>4. ASSUME NEW t \in Tasks, ReadiesTask(t)
      PROVE  MissionTypes'
  BY <1>4 DEF ReadiesTask, MissionTypes, missionVars
<1>5. ASSUME NEW t \in Tasks, AttachesTask(t)
      PROVE  MissionTypes'
  BY <1>5 DEF AttachesTask, MissionTypes
<1>6. CASE OrdersTask
  <2>1. order' \in Seq(Tasks) /\ IsInjective(order')
    <3>1. PICK t \in attaching, position \in 1 .. (Len(order) + 1) :
             order' = InsertTaskOrder(order, t, position)
      BY <1>6 DEF OrdersTask
    <3>2. t \in Tasks
      BY <3>1 DEF MissionTypes
    <3> DEFINE rest == RemoveFirst(order, t)
    <3>3. /\ rest \in Seq(Tasks) /\ IsInjective(rest)
          /\ \A k \in DOMAIN rest : rest[k] # t
      BY <3>2, RemoveFirstRemoves DEF MissionTypes
    <3> HIDE DEF rest
    <3>4. order' = InsertAt(rest, IF position > Len(rest) + 1 THEN Len(rest) + 1 ELSE position, t)
      BY <3>1 DEF InsertTaskOrder, rest
    <3> DEFINE place == IF position > Len(rest) + 1 THEN Len(rest) + 1 ELSE position
    <3>5. place \in 1 .. (Len(rest) + 1)
      BY <3>3 DEF MissionTypes
    <3> HIDE DEF place
    <3>6. InsertAt(rest, place, t) \in Seq(Tasks) /\ IsInjective(InsertAt(rest, place, t))
      BY <3>2, <3>3, <3>5, InsertAtInserts
    <3>7. QED
      BY <3>4, <3>6 DEF place
  <2>2. /\ attaching' = {} /\ status' = status /\ members' = members
        /\ dependsOn' = dependsOn /\ task' = task
    BY <1>6, Zenon DEF OrdersTask
  <2>3. QED
    BY <1>2, <2>1, <2>2 DEF MissionTypes
<1>7. ASSUME NEW t \in Tasks, AttachesElsewhere(t)
      PROVE  MissionTypes'
  BY <1>7 DEF AttachesElsewhere, MissionTypes, Edit, Idle
<1>8. QED
  BY <1>2, <1>3, <1>4, <1>5, <1>6, <1>7

(* The recovery writes rows of runs that have begun and not been settled.  *)
LEMMA RecoverKeeps ==
    ASSUME MissionTypes, RunsInvariant, NEW gone \in SUBSET Runs, Recover(gone),
           \A r \in gone : Alive(r), attaching' \subseteq attaching
    PROVE  /\ MissionTypes' /\ RunsInvariant'
           /\ \A r \in Runs \ gone : run'[r].place = run[r].place
<1>1. MissionTypes'
  BY DEF Recover, MissionTypes
<1>2. ASSUME NEW r \in Runs
      PROVE  /\ run'[r] \in RunRecords /\ Sound(run'[r])
             /\ r \notin gone => run'[r].place = run[r].place
  <2> DEFINE x == run[r]
             row == IF x.row = "running" THEN "failed" ELSE x.row
  <2>1. x \in RunRecords /\ Sound(x)
    BY DEF RunsInvariant
  <2>2. row \in {"none", "running"} \cup Verdicts /\ row # "running" /\ x.place \in Places
    BY <2>1 DEF RunRecords, Verdicts
  <2>3. CASE r \in gone
    <3> DEFINE y == [x EXCEPT !.row = row, !.place = "gone"]
    <3>1. run'[r] = y
      BY <2>1, <2>3 DEF Recover, RunRecords
    <3>2. y.row = row /\ y.place = "gone" /\ y.children = x.children /\ y.order = x.order
      BY <2>1 DEF RunRecords
    <3>3. RowIsTrue(y)
      BY <2>1, <2>2, <3>2 DEF Sound, RowIsTrue, AllCompleted
    <3>4. "gone" \in Places \ {"running"}
      BY DEF Places
    <3>5. y \in RunRecords /\ Sound(y)
      BY <2>1, <2>2, <3>3, <3>4, MovesSoundly
    <3>6. QED
      BY <2>3, <3>1, <3>5
  <2>4. CASE r \notin gone
    <3> DEFINE y == [x EXCEPT !.row = row]
    <3>1. run'[r] = y
      BY <2>1, <2>4 DEF Recover, RunRecords
    <3>2. /\ y \in RunRecords /\ y.row = row /\ y.place = x.place
          /\ y.children = x.children /\ y.order = x.order /\ y.needs = x.needs
      BY <2>1, <2>2 DEF RunRecords
    <3> HIDE DEF y
    <3>3. Begun(y) = Begun(x) /\ (AllCompleted(y) <=> AllCompleted(x))
      BY <3>2 DEF Begun, AllCompleted
    <3>4. DependenciesFirst(y)
      BY <2>1, <3>2, <3>3 DEF Sound, DependenciesFirst
    <3>5. PlaceIsTrue(y)
      BY <2>1, <3>2, <3>3 DEF Sound, PlaceIsTrue, Verdicts
    <3>6. RowIsTrue(y)
      BY <2>1, <2>2, <3>2, <3>3 DEF Sound, RowIsTrue
    <3>7. QED
      BY <3>1, <3>2, <3>4, <3>5, <3>6 DEF Sound
  <2>5. QED
    BY <2>3, <2>4
<1>3. RunsInvariant'
  BY <1>2 DEF Recover, RunsInvariant
<1>4. QED
  BY <1>1, <1>2, <1>3

LEMMA RestartKeeps ==
    ASSUME MissionTypes, RunsInvariant, RunningMissionIsRun, Restarts \/ OtherStarts
    PROVE  MissionTypes' /\ RunsInvariant' /\ RunningMissionIsRun'
<1>1. CASE Restarts
  <2> DEFINE gone == {r \in Runs : Alive(r)}
  <2>1. Recover(gone) /\ attaching' = {} /\ torn' = (torn \/ \E r \in Runs : Alive(r) /\ run[r].row # "running")
    BY <1>1 DEF Restarts
  <2>2. MissionTypes' /\ RunsInvariant'
    BY <2>1, RecoverKeeps
  <2>3. RunningMissionIsRun'
    <3> SUFFICES ASSUME status' = "running"
                 PROVE  torn'
      BY DEF RunningMissionIsRun
    <3>1. status = "running" /\ \A r \in Runs : run[r].row # "running"
      BY <2>1 DEF Recover
    <3>2. QED
      BY <2>1, <3>1 DEF RunningMissionIsRun
  <2>4. QED
    BY <2>2, <2>3
<1>2. CASE OtherStarts
  <2>1. Recover({}) /\ torn' = torn /\ attaching' = attaching
    BY <1>2 DEF OtherStarts
  <2>2. MissionTypes' /\ RunsInvariant' /\ \A r \in Runs : run'[r].place = run[r].place
    BY <2>1, RecoverKeeps
  <2>3. status' = "running" => status = "running"
    BY <2>1 DEF Recover
  <2>4. QED
    BY <2>1, <2>2, <2>3 DEF RunningMissionIsRun, Alive
<1>3. QED
  BY <1>1, <1>2

LEMMA InvariantHolds == Spec => []MissionInvariant
<1>1. Init => MissionInvariant
  <2> SUFFICES ASSUME Init PROVE MissionInvariant
    OBVIOUS
  <2>1. order \in Seq(Tasks) /\ IsInjective(order)
    <3>1. PICK n \in Nat : order \in [1 .. n -> Tasks]
      BY MissionsAssumption, FS_CardinalityType DEF Init, SetToSeqs
    <3>2. IsInjective(order)
      BY DEF Init, SetToSeqs, IsInjective
    <3>3. QED
      BY <3>1, <3>2
  <2>2. MissionTypes
    BY <2>1 DEF Init, MissionTypes
  <2>3. run \in [Runs -> RunRecords] /\ \A r \in Runs : Sound(run[r])
    BY FreeIsSound DEF Init
  <2>4. QED
    BY <2>2, <2>3 DEF Init, MissionInvariant, RunningMissionIsRun
<1>2. MissionInvariant /\ [Next]_vars => MissionInvariant'
  <2> SUFFICES ASSUME MissionInvariant, [Next]_vars PROVE MissionInvariant'
    OBVIOUS
  <2>1. MissionTypes /\ RunsInvariant /\ RunningMissionIsRun
    BY DEF MissionInvariant, RunsInvariant
  <2>2. CASE UNCHANGED vars
    BY <2>2 DEF vars, MissionInvariant, MissionTypes, RunningMissionIsRun, Alive
  <2>3. CASE Next
    <3>1. MissionTypes' /\ RunsInvariant' /\ RunningMissionIsRun'
      BY <2>1, <2>3, RunStepKeeps, EditKeeps, RestartKeeps DEF Next
    <3>2. QED
      BY <3>1 DEF MissionInvariant, RunsInvariant
  <2>4. QED
    BY <2>2, <2>3
<1>3. QED
  BY <1>1, <1>2, PTL DEF Spec

(***************************************************************************)
(* What a run did is in its row: runMission begins a task only after the   *)
(* tasks it depended on when the run began have been completed in the same *)
(* run, begins none after a task that was not completed, and a row reads   *)
(* completed only when every task of the order was.                        *)
(***************************************************************************)
THEOREM MissionRunsAreTrue == Spec => []MissionsInv
<1>1. MissionInvariant => MissionsInv
  <2> SUFFICES ASSUME MissionInvariant PROVE MissionsInv
    OBVIOUS
  <2>1. MissionsTypeOK
    BY DEF MissionInvariant, MissionTypes, MissionsTypeOK, RunRecords
  <2>2. ASSUME NEW r \in Runs
        PROVE  /\ DependenciesFirst(run[r]) /\ RowIsTrue(run[r])
               /\ run[r] \in RunRecords
    BY DEF MissionInvariant, Sound
  <2>3. ChildrenInOrder
    BY <2>2 DEF ChildrenInOrder, DependenciesFirst, Begun, Done
  <2>4. CompletedMeansAll
    BY <2>2 DEF CompletedMeansAll, RowIsTrue, AllCompleted, RunRecords
  <2>5. QED
    BY <2>1, <2>3, <2>4 DEF MissionsInv
<1>2. QED
  BY <1>1, InvariantHolds, PTL

(* Between two transactions of any process a row that reads running belongs *)
(* to a call that is still alive: the recovery takes the row from the dead. *)
THEOREM NoRowWithoutACall == Spec => []NoZombieMissionRun
<1>1. MissionInvariant => NoZombieMissionRun
  BY DEF MissionInvariant, Sound, RowIsTrue, NoZombieMissionRun, Alive
<1>2. QED
  BY <1>1, InvariantHolds, PTL

(* The mission reads running only while one of its runs is alive, unless a  *)
(* process died between the row of a run and the mission (finishMissionRun  *)
(* writes them one after the other) or while another process had already    *)
(* failed the row of a living run.                                          *)
THEOREM RunningMissionHasARun == Spec => []RunningMissionIsRun
<1>1. MissionInvariant => RunningMissionIsRun
  BY DEF MissionInvariant
<1>2. QED
  BY <1>1, InvariantHolds, PTL
=============================================================================
