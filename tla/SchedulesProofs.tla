--------------------------- MODULE SchedulesProofs ---------------------------
(***************************************************************************)
(* Proofs about Schedules, for any schedules, clients, processes and       *)
(* intervals: a process never serves a schedule twice at once, remembers   *)
(* none longer than it serves it but those whose lock it could not have,   *)
(* and an attempt moves the row past its tick.                             *)
(***************************************************************************)
EXTENDS Schedules, FunctionTheorems, FiniteSetTheorems, SequenceTheorems, TLAPS

(***************************************************************************)
(* The next occurrence.                                                    *)
(***************************************************************************)
LEMMA NextOccurrenceIsNext ==
    ASSUME NEW seed \in Nat, NEW at \in Nat
    PROVE  /\ NextOccurrence(seed, at) \in Nat
           /\ NextOccurrence(seed, at) > at
           /\ seed <= at => NextOccurrence(seed, at) <= at + Interval
           /\ (NextOccurrence(seed, at) - seed) % Interval = 0
<1>1. Interval \in Nat /\ Interval > 0
  BY SchedulesAssumption
<1>2. CASE seed > at
  BY <1>1, <1>2 DEF NextOccurrence
<1>3. CASE ~ seed > at
  <2> DEFINE gap == at - seed
             times == gap \div Interval
             step == times * Interval
  <2>1. gap \in Nat /\ seed + gap = at
    BY <1>3
  <2> HIDE DEF gap
  <2>2. times \in Nat /\ step <= gap /\ gap < step + Interval /\ step \in Nat
    BY <1>1, <2>1
  <2>3. (times + 1) * Interval = step + Interval
    BY <1>1, <2>2
  <2>4. ((times + 1) * Interval) % Interval = 0
    BY <1>1, <2>2
  <2>5. NextOccurrence(seed, at) = seed + (times + 1) * Interval
    BY <1>3 DEF NextOccurrence, gap
  <2> HIDE DEF times
  <2>6. seed + (times + 1) * Interval - seed = (times + 1) * Interval
    BY <1>1, <2>2
  <2>7. QED
    BY <1>1, <1>3, <2>1, <2>2, <2>3, <2>4, <2>5, <2>6
<1>4. QED
  BY <1>2, <1>3

(***************************************************************************)
(* Types.                                                                  *)
(***************************************************************************)
Times == {{}} \cup {{n} : n \in 0 .. (MaxTime + Interval)}
RowRecords == [status : {"gone", "active", "paused", "disabled", "error"}, next : Times]
ServingPhases == RowPhases \cup EntryPhases
Phases == {"idle", "rows", "file", "returning", "throwing"} \cup ServingPhases
CallRecords == [phase : Phases, tick : BOOLEAN, due : Seq(Ids), at : 0 .. MaxTime, seen : RowRecords]

Listed == {s \in Rows : row[s] # Gone}

(* What the processes share, and the clock. *)
WorldTypes ==
    /\ now \in 0 .. MaxTime
    /\ row \in [Ids -> RowRecords]
    /\ recent \in Seq(Listed) /\ IsInjective(recent)
    /\ task \in [TaskSchedules -> {"ready", "running", "completed", "failed"}]
    /\ holder \in [FileSchedules -> Clients \cup {Nobody, Leftover}]
    /\ late \in [Clients -> SUBSET FileSchedules]

Types ==
    /\ WorldTypes
    /\ running \in [Processes -> SUBSET Ids]
    /\ leaked \in [Processes -> SUBSET FileSchedules]
    /\ call \in [Clients -> CallRecords]

(* What a call holds agrees with its phase. *)
WellFormed(x) ==
    /\ x.phase \in {"rows"} \cup RowPhases => x.due \in Seq(Rows)
    /\ x.phase \in {"file", "returning", "throwing"} \cup EntryPhases => x.due \in Seq(FileSchedules)
    /\ x.phase \in {"returning", "throwing"} \cup ServingPhases => x.due # <<>>
    /\ x.phase \in RowPhases => x.seen # Gone

(***************************************************************************)
(* The guard: what a call serves is among the running ids of its process,  *)
(* nothing stays there when it is not served unless its lock could not be  *)
(* had, what was so left behind is not served again, and the calls of a    *)
(* process serve different schedules.                                      *)
(***************************************************************************)
ServedIsRemembered == \A c \in Clients, s \in Ids : Serves(c, s) => s \in Me(c)

RememberedIsServed ==
    \A p \in Processes : \A s \in running[p] \ leaked[p] :
       \E c \in Clients : ProcessOf[c] = p /\ Serves(c, s)

LeakedIsRemembered == \A p \in Processes : leaked[p] \subseteq running[p]

LeakedIsIdle == \A c \in Clients : \A s \in leaked[ProcessOf[c]] : ~ Serves(c, s)

Guard == /\ ServedIsRemembered /\ RememberedIsServed
         /\ LeakedIsRemembered /\ LeakedIsIdle /\ OneCallPerProcess

ScheduleInvariant ==
    /\ Types
    /\ \A c \in Clients : WellFormed(call[c])
    /\ Guard

(***************************************************************************)
(* The guard, for each kind of step of a call.                             *)
(***************************************************************************)
LEMMA OneCallChanges ==
    ASSUME Types, NEW c \in Clients, NEW y, call' = [call EXCEPT ![c] = y]
    PROVE  /\ call'[c] = y
           /\ \A d \in Clients \ {c} : call'[d] = call[d]
           /\ \A d \in Clients \ {c}, s \in Ids : Serves(d, s)' <=> Serves(d, s)
           /\ \A s \in Ids : Serves(c, s)' <=> y.phase \in ServingPhases /\ Head(y.due) = s
<1>1. call'[c] = y /\ \A d \in Clients \ {c} : call'[d] = call[d]
  BY DEF Types
<1>2. QED
  BY <1>1 DEF Serves, Current, ServingPhases

LEMMA ProcessesAssumption == \A c \in Clients : ProcessOf[c] \in Processes
BY DEF Processes

LEMMA FilesAreIds == FileSchedules \subseteq Ids /\ Rows \subseteq Ids
BY DEF Ids

(* The call serves the same as before, or nothing as before. *)
LEMMA SameServiceGuarded ==
    ASSUME Types, Guard, NEW c \in Clients, NEW y, call' = [call EXCEPT ![c] = y],
           \/ call[c].phase \notin ServingPhases /\ y.phase \notin ServingPhases
           \/ /\ call[c].phase \in ServingPhases /\ y.phase \in ServingPhases
              /\ y.due = call[c].due,
           UNCHANGED <<running, leaked>>
    PROVE  Guard'
<1>1. \A d \in Clients, s \in Ids : Serves(d, s)' <=> Serves(d, s)
  BY OneCallChanges DEF Serves, Current, ServingPhases
<1>2. ServedIsRemembered' /\ LeakedIsRemembered' /\ OneCallPerProcess'
  BY <1>1 DEF Guard, ServedIsRemembered, LeakedIsRemembered, OneCallPerProcess, Me
<1>3. RememberedIsServed'
  BY <1>1 DEF Guard, RememberedIsServed, Types
<1>4. LeakedIsIdle'
  BY <1>1, FilesAreIds, ProcessesAssumption DEF Guard, LeakedIsIdle, Types
<1>5. QED
  BY <1>2, <1>3, <1>4 DEF Guard

(* The call takes up a schedule that its process does not remember. *)
LEMMA TakesUpGuarded ==
    ASSUME Types, Guard, NEW c \in Clients, NEW y, call' = [call EXCEPT ![c] = y],
           \A s \in Ids : ~ Serves(c, s),
           NEW t \in Ids, t \notin Me(c), y.phase \in ServingPhases, Head(y.due) = t,
           Remember(c, t), leaked' = leaked
    PROVE  Guard'
<1>1. /\ running'[ProcessOf[c]] = running[ProcessOf[c]] \cup {t}
      /\ \A p \in Processes : running[p] \subseteq running'[p]
      /\ \A p \in Processes \ {ProcessOf[c]} : running'[p] = running[p]
      /\ \A p \in Processes : running[p] \subseteq Ids /\ leaked[p] \subseteq Ids
  BY ProcessesAssumption, FilesAreIds DEF Remember, Types
<1>2. ServedIsRemembered'
  <2> SUFFICES ASSUME NEW d \in Clients, NEW s \in Ids, Serves(d, s)'
               PROVE  s \in running'[ProcessOf[d]]
    BY DEF ServedIsRemembered, Me
  <2>1. CASE d = c
    <3>1. \A z \in Ids : Serves(c, z)' <=> y.phase \in ServingPhases /\ Head(y.due) = z
      BY OneCallChanges
    <3>2. s = t
      BY <2>1, <3>1
    <3>3. QED
      BY <1>1, <2>1, <3>2
  <2>2. CASE d # c
    <3>1. s \in running[ProcessOf[d]]
      BY <2>2, OneCallChanges DEF Guard, ServedIsRemembered, Me
    <3>2. QED
      BY <1>1, <3>1, ProcessesAssumption
  <2>3. QED
    BY <2>1, <2>2
<1>3. RememberedIsServed'
  <2> SUFFICES ASSUME NEW p \in Processes, NEW s \in running'[p] \ leaked[p]
               PROVE  \E d \in Clients : ProcessOf[d] = p /\ Serves(d, s)'
    BY DEF RememberedIsServed
  <2>0. s \in Ids
    BY <1>1
  <2>1. CASE s \in running[p]
    <3>1. PICK d \in Clients : ProcessOf[d] = p /\ Serves(d, s)
      BY <2>1 DEF Guard, RememberedIsServed
    <3>2. QED
      BY <2>0, <3>1, OneCallChanges
  <2>2. CASE s \notin running[p]
    <3>1. p = ProcessOf[c] /\ s = t
      BY <1>1, <2>2
    <3>2. QED
      BY <2>0, <3>1, OneCallChanges
  <2>3. QED
    BY <2>1, <2>2
<1>4. LeakedIsRemembered'
  BY <1>1 DEF Guard, LeakedIsRemembered
<1>5. LeakedIsIdle'
  <2> SUFFICES ASSUME NEW d \in Clients, NEW s \in leaked[ProcessOf[d]], Serves(d, s)'
               PROVE  FALSE
    BY DEF LeakedIsIdle
  <2>1. s \in Ids /\ s \in running[ProcessOf[d]]
    BY <1>1, ProcessesAssumption DEF Guard, LeakedIsRemembered
  <2>2. CASE d = c
    BY <2>1, <2>2, OneCallChanges DEF Me
  <2>3. CASE d # c
    BY <2>1, <2>3, OneCallChanges DEF Guard, LeakedIsIdle
  <2>4. QED
    BY <2>2, <2>3
<1>6. OneCallPerProcess'
  <2> SUFFICES ASSUME NEW d \in Clients, NEW e \in Clients, NEW s \in Ids, d # e,
                      ProcessOf[d] = ProcessOf[e], Serves(d, s)', Serves(e, s)'
               PROVE  FALSE
    BY DEF OneCallPerProcess
  <2>1. CASE d # c /\ e # c
    BY <2>1, OneCallChanges DEF Guard, OneCallPerProcess
  <2>2. CASE d = c
    <3>1. s = t /\ Serves(e, s)
      BY <2>2, OneCallChanges
    <3>2. QED
      BY <2>2, <3>1 DEF Guard, ServedIsRemembered, Me
  <2>3. CASE e = c
    <3>1. s = t /\ Serves(d, s)
      BY <2>3, OneCallChanges
    <3>2. QED
      BY <2>3, <3>1 DEF Guard, ServedIsRemembered, Me
  <2>4. QED
    BY <2>1, <2>2, <2>3
<1>7. QED
  BY <1>2, <1>3, <1>4, <1>5, <1>6 DEF Guard

(* The call lets go of what it served; no other call of its process does   *)
(* serve that.  The id goes with it, or stays behind as leaked.            *)
LEMMA LetsGoGuarded ==
    ASSUME Types, Guard, NEW c \in Clients, NEW y, call' = [call EXCEPT ![c] = y],
           y.phase \notin ServingPhases, NEW t \in Ids, Serves(c, t),
           \/ Forget(c, t) /\ leaked' = leaked
           \/ leaked' = [leaked EXCEPT ![ProcessOf[c]] = @ \cup {t}] /\ running' = running
    PROVE  Guard'
<1>1. /\ \A p \in Processes : running'[p] \subseteq running[p] /\ leaked[p] \subseteq leaked'[p]
      /\ \A p \in Processes \ {ProcessOf[c]} : running'[p] = running[p] /\ leaked'[p] = leaked[p]
      /\ running[ProcessOf[c]] \ {t} \subseteq running'[ProcessOf[c]]
      /\ leaked'[ProcessOf[c]] \subseteq leaked[ProcessOf[c]] \cup {t}
      /\ running'[ProcessOf[c]] \ leaked'[ProcessOf[c]] \subseteq running[ProcessOf[c]] \ {t}
      /\ \A p \in Processes : running[p] \subseteq Ids
  BY ProcessesAssumption DEF Forget, Types
<1>2. t \in running[ProcessOf[c]] /\ t \notin leaked[ProcessOf[c]]
  BY DEF Guard, ServedIsRemembered, LeakedIsIdle, Me
<1>3. \A d \in Clients, s \in Ids : Serves(d, s)' => d # c /\ Serves(d, s)
  BY OneCallChanges
<1>4. \A d \in Clients \ {c} : ProcessOf[d] = ProcessOf[c] => ~ Serves(d, t)
  BY DEF Guard, OneCallPerProcess
<1>5. ServedIsRemembered'
  <2> SUFFICES ASSUME NEW d \in Clients, NEW s \in Ids, Serves(d, s)'
               PROVE  s \in running'[ProcessOf[d]]
    BY DEF ServedIsRemembered, Me
  <2>1. d # c /\ Serves(d, s) /\ s \in running[ProcessOf[d]]
    BY <1>3 DEF Guard, ServedIsRemembered, Me
  <2>2. CASE ProcessOf[d] = ProcessOf[c]
    BY <1>1, <1>4, <2>1, <2>2
  <2>3. CASE ProcessOf[d] # ProcessOf[c]
    BY <1>1, <2>1, <2>3, ProcessesAssumption
  <2>4. QED
    BY <2>2, <2>3
<1>6. RememberedIsServed'
  <2> SUFFICES ASSUME NEW p \in Processes, NEW s \in running'[p] \ leaked'[p]
               PROVE  \E d \in Clients : ProcessOf[d] = p /\ Serves(d, s)'
    BY DEF RememberedIsServed
  <2>1. s \in running[p] \ leaked[p] /\ s \in Ids /\ (p = ProcessOf[c] => s # t)
    BY <1>1
  <2>2. PICK d \in Clients : ProcessOf[d] = p /\ Serves(d, s)
    BY <2>1 DEF Guard, RememberedIsServed
  <2>3. d # c
    BY <2>1, <2>2 DEF Serves
  <2>4. QED
    BY <2>1, <2>2, <2>3, OneCallChanges
<1>7. LeakedIsRemembered'
  <2> SUFFICES ASSUME NEW p \in Processes, NEW s \in leaked'[p] PROVE s \in running'[p]
    BY DEF LeakedIsRemembered
  <2>1. CASE p # ProcessOf[c]
    BY <1>1, <2>1 DEF Guard, LeakedIsRemembered
  <2>2. CASE p = ProcessOf[c] /\ s # t
    BY <1>1, <2>2 DEF Guard, LeakedIsRemembered
  <2>3. CASE p = ProcessOf[c] /\ s = t
    <3>1. leaked' # leaked
      BY <1>2, <2>3
    <3>2. QED
      BY <1>2, <2>3, <3>1
  <2>4. QED
    BY <2>1, <2>2, <2>3
<1>8. LeakedIsIdle'
  <2> SUFFICES ASSUME NEW d \in Clients, NEW s \in leaked'[ProcessOf[d]], Serves(d, s)'
               PROVE  FALSE
    BY DEF LeakedIsIdle
  <2>1. s \in running[ProcessOf[d]] /\ s \in Ids
    BY <1>1, <1>7, ProcessesAssumption DEF LeakedIsRemembered
  <2>2. d # c /\ Serves(d, s)
    BY <1>3, <2>1
  <2>3. s \notin leaked[ProcessOf[d]]
    BY <2>2 DEF Guard, LeakedIsIdle
  <2>4. ProcessOf[d] = ProcessOf[c] /\ s = t
    BY <1>1, <2>3, ProcessesAssumption
  <2>5. QED
    BY <1>4, <2>2, <2>4
<1>9. OneCallPerProcess'
  BY <1>3 DEF Guard, OneCallPerProcess
<1>10. QED
  BY <1>5, <1>6, <1>7, <1>8, <1>9 DEF Guard

LEMMA RestartsGuarded ==
    ASSUME Types, Guard, NEW p \in Processes, Restarts(p)
    PROVE  Guard'
<1>1. \A d \in Clients, s \in Ids : Serves(d, s)' <=> ProcessOf[d] # p /\ Serves(d, s)
  BY DEF Restarts, Serves, Current, NoCall, RowPhases, EntryPhases
<1>2. /\ running'[p] = {} /\ \A q \in Processes \ {p} : running'[q] = running[q]
      /\ leaked'[p] = {} /\ \A q \in Processes \ {p} : leaked'[q] = leaked[q]
      /\ \A q \in Processes : running[q] \subseteq Ids /\ leaked[q] \subseteq Ids
  BY FilesAreIds DEF Restarts, Types
<1>3. ServedIsRemembered'
  BY <1>1, <1>2, ProcessesAssumption DEF Guard, ServedIsRemembered, Me
<1>4. RememberedIsServed'
  <2> SUFFICES ASSUME NEW q \in Processes, NEW s \in running'[q] \ leaked'[q]
               PROVE  \E d \in Clients : ProcessOf[d] = q /\ Serves(d, s)'
    BY DEF RememberedIsServed
  <2>1. q # p /\ s \in running[q] \ leaked[q] /\ s \in Ids
    BY <1>2
  <2>2. PICK d \in Clients : ProcessOf[d] = q /\ Serves(d, s)
    BY <2>1 DEF Guard, RememberedIsServed
  <2>3. QED
    BY <1>1, <2>1, <2>2
<1>5. OneCallPerProcess'
  BY <1>1 DEF Guard, OneCallPerProcess
<1>6. LeakedIsRemembered'
  BY <1>2 DEF Guard, LeakedIsRemembered
<1>7. LeakedIsIdle'
  BY <1>1, <1>2, ProcessesAssumption DEF Guard, LeakedIsIdle
<1>8. QED
  BY <1>3, <1>4, <1>5, <1>6, <1>7 DEF Guard

(***************************************************************************)
(* The records of calls and of rows, and the list.                         *)
(***************************************************************************)
LEMMA GoneIsRow == Gone \in RowRecords
BY DEF Gone, RowRecords, Times

LEMMA NoCallIsFormed == NoCall \in CallRecords /\ WellFormed(NoCall)
<1>1. NoCall \in CallRecords
  BY GoneIsRow, SchedulesAssumption DEF NoCall, CallRecords, Phases
<1>2. QED
  BY <1>1 DEF WellFormed, NoCall, ServingPhases, RowPhases, EntryPhases

(* Between schedules, a call has rows before it, or entries of the file. *)
LEMMA IdlingFormed ==
    ASSUME NEW y, y.phase \in {"rows", "file"},
           y.phase = "rows" => y.due \in Seq(Rows), y.phase = "file" => y.due \in Seq(FileSchedules)
    PROVE  WellFormed(y) /\ y.phase \notin ServingPhases
BY DEF WellFormed, ServingPhases, RowPhases, EntryPhases

LEMMA AdvancesFormed ==
    ASSUME NEW x \in CallRecords, WellFormed(x), x.due # <<>>, NEW phase \in {"rows", "file"},
           phase = "rows" => x.due \in Seq(Rows), phase = "file" => x.due \in Seq(FileSchedules)
    PROVE  LET y == [x EXCEPT !.phase = phase, !.due = Tail(@), !.seen = Gone]
           IN  y \in CallRecords /\ WellFormed(y) /\ y.phase = phase
<1> DEFINE rest == Tail(x.due)
           y == [x EXCEPT !.phase = phase, !.due = Tail(@), !.seen = Gone]
<1>1. /\ rest \in Seq(Ids)
      /\ phase = "rows" => rest \in Seq(Rows)
      /\ phase = "file" => rest \in Seq(FileSchedules)
  BY HeadTailProperties DEF CallRecords
<1>2. y = [x EXCEPT !.phase = phase, !.due = rest, !.seen = Gone]
  BY DEF CallRecords
<1> HIDE DEF rest, y
<1>3. phase \in Phases
  BY DEF Phases
<1>4. y \in CallRecords /\ y.phase = phase /\ y.due = rest
  BY <1>1, <1>2, <1>3, GoneIsRow DEF CallRecords
<1>5. WellFormed(y)
  BY <1>1, <1>4 DEF WellFormed, ServingPhases, RowPhases, EntryPhases
<1>6. QED
  BY <1>4, <1>5 DEF y

(* What a call is serving. *)
LEMMA CurrentIsTyped ==
    ASSUME Types, NEW c \in Clients, WellFormed(call[c]), call[c].due # <<>>
    PROVE  /\ Current(c) \in Ids
           /\ call[c].phase \in {"rows"} \cup RowPhases => Current(c) \in Rows
           /\ call[c].phase \in {"file", "returning", "throwing"} \cup EntryPhases =>
                Current(c) \in FileSchedules
<1>1. call[c].due \in Seq(Ids)
  BY DEF Types, CallRecords
<1>2. QED
  BY <1>1, HeadTailProperties DEF WellFormed, Current

LEMMA ListKeepsRows ==
    ASSUME Types, NEW some, some \subseteq ToSet(recent), NEW o \in InListOrder(some)
    PROVE  o \in Seq(some) /\ IsInjective(o) /\ \A i \in DOMAIN o : o[i] \in some
<1>1. IsFiniteSet(some) /\ Cardinality(some) \in Nat
  <2>1. some \subseteq Ids
    BY DEF Types, WorldTypes, Listed, ToSet, Ids
  <2>2. QED
    BY <2>1, SchedulesAssumption, FS_Subset, FS_CardinalityType
<1>2. /\ o \in [1 .. Cardinality(some) -> some]
      /\ \A i, j \in 1 .. Cardinality(some) : i # j => o[i] # o[j]
  BY DEF InListOrder, SetToSeqs
<1>3. QED
  BY <1>1, <1>2 DEF IsInjective

LEMMA LimitKeepsRows ==
    ASSUME NEW some, NEW o \in Seq(some)
    PROVE  UpToLimit(o) \in Seq(some)
<1> DEFINE m == IF Len(o) > ListLimit THEN ListLimit ELSE Len(o)
<1>1. m \in 0 .. Len(o)
  BY SchedulesAssumption
<1>2. \A k \in 1 .. m : o[k] \in some
  BY <1>1
<1>3. SubSeq(o, 1, m) \in Seq(some)
  BY <1>1, <1>2, SubSeqProperties
<1>4. QED
  BY <1>3 DEF UpToLimit

LEMMA MovesToFront ==
    ASSUME Types, NEW s \in Rows, Touch(s), NEW listed,
           ToSet(recent) \subseteq listed, s \in listed
    PROVE  recent' \in Seq(listed) /\ IsInjective(recent')
<1>1. PICK o \in InListOrder(Others(s)) : recent' = <<s>> \o o
  BY DEF Touch
<1>2. o \in Seq(Others(s)) /\ IsInjective(o) /\ \A i \in DOMAIN o : o[i] \in Others(s)
  BY ListKeepsRows DEF Others
<1>3. o \in Seq(listed) /\ <<s>> \in Seq(listed) /\ Len(<<s>>) = 1 /\ <<s>>[1] = s
  BY <1>2 DEF Others
<1>4. /\ <<s>> \o o \in Seq(listed) /\ Len(<<s>> \o o) = Len(o) + 1
      /\ \A i \in 1 .. (1 + Len(o)) : (<<s>> \o o)[i] = IF i <= 1 THEN <<s>>[i] ELSE o[i - 1]
  BY <1>3, ConcatProperties
<1>5. \A i \in 1 .. (Len(o) + 1) : recent'[i] = IF i = 1 THEN s ELSE o[i - 1]
  BY <1>1, <1>3, <1>4
<1>6. recent' \in Seq(listed) /\ Len(recent') = Len(o) + 1
  BY <1>1, <1>4
<1>7. ASSUME NEW i \in 1 .. (Len(o) + 1), NEW j \in 1 .. (Len(o) + 1), recent'[i] = recent'[j]
      PROVE  i = j
  <2>1. \A k \in 2 .. (Len(o) + 1) : k - 1 \in DOMAIN o /\ recent'[k] = o[k - 1] /\ recent'[k] # s
    BY <1>2, <1>3, <1>5 DEF Others
  <2>2. CASE i = 1
    BY <1>5, <1>7, <2>1, <2>2
  <2>3. CASE j = 1
    BY <1>5, <1>7, <2>1, <2>3
  <2>4. CASE i # 1 /\ j # 1
    <3>1. i - 1 = j - 1
      BY <1>2, <1>7, <2>1, <2>4 DEF IsInjective
    <3>2. QED
      BY <3>1
  <2>5. QED
    BY <2>2, <2>3, <2>4
<1>8. QED
  BY <1>6, <1>7 DEF IsInjective

(***************************************************************************)
(* The steps.                                                              *)
(***************************************************************************)
LEMMA WritesRow ==
    ASSUME Types, NEW s \in Ids, NEW new \in RowRecords, new # Gone,
           row' = [row EXCEPT ![s] = new], s \in Rows => Touch(s), s \notin Rows => recent' = recent
    PROVE  row' \in [Ids -> RowRecords] /\ recent' \in Seq(Listed') /\ IsInjective(recent')
<1>1. row' \in [Ids -> RowRecords]
  BY DEF Types, WorldTypes
<1>2. Listed \subseteq Listed' /\ (s \in Rows => s \in Listed')
  BY DEF Listed, Types, WorldTypes, Ids
<1>3. CASE s \in Rows
  <2>1. ToSet(recent) \subseteq Listed'
    BY <1>2 DEF Types, WorldTypes, ToSet
  <2>2. QED
    BY <1>1, <1>2, <1>3, <2>1, MovesToFront
<1>4. CASE s \notin Rows
  BY <1>1, <1>2, <1>4 DEF Types, WorldTypes
<1>5. QED
  BY <1>3, <1>4

LEMMA CallKeeps ==
    ASSUME Types, \A d \in Clients : WellFormed(call[d]), NEW c \in Clients,
           NEW y \in CallRecords, WellFormed(y), call' = [call EXCEPT ![c] = y]
    PROVE  call' \in [Clients -> CallRecords] /\ \A d \in Clients : WellFormed(call'[d])
BY DEF Types

(* The next runs of a row are times within the bounds. *)
LEMMA NextRunIsTyped ==
    ASSUME NEW s, NEW seen \in RowRecords, NEW at \in 0 .. MaxTime
    PROVE  NextRun(s, seen, at) \in Times
<1>0. MaxTime \in Nat /\ Interval \in Nat
  BY SchedulesAssumption
<1>1. CASE s \notin Recurring
  BY <1>1 DEF NextRun, Times
<1>2. CASE s \in Recurring
  <2> DEFINE seeds == IF seen.next = {} THEN {at} ELSE seen.next
  <2>1. PICK seed \in 0 .. (MaxTime + Interval) : seeds = {seed}
    BY <1>0 DEF RowRecords, Times
  <2>2. NextRun(s, seen, at) = {NextOccurrence(seed, at)}
    BY <1>2, <2>1 DEF NextRun
  <2>3. NextOccurrence(seed, at) \in 0 .. (MaxTime + Interval)
    <3>1. seed \in Nat /\ at \in Nat
      BY <1>0, <2>1
    <3>2. CASE seed > at
      BY <2>1, <3>2 DEF NextOccurrence
    <3>3. CASE ~ seed > at
      BY <1>0, <3>1, <3>3, NextOccurrenceIsNext
    <3>4. QED
      BY <3>2, <3>3
  <2>4. QED
    BY <2>2, <2>3 DEF Times
<1>3. QED
  BY <1>1, <1>2

Kept == Types' /\ (\A d \in Clients : WellFormed(call'[d])) /\ Guard'

(* A step of a call that serves the same before and after. *)
LEMMA SameStepKeeps ==
    ASSUME ScheduleInvariant, NEW c \in Clients,
           NEW y \in CallRecords, WellFormed(y), call' = [call EXCEPT ![c] = y],
           \/ call[c].phase \notin ServingPhases /\ y.phase \notin ServingPhases
           \/ /\ call[c].phase \in ServingPhases /\ y.phase \in ServingPhases
              /\ y.due = call[c].due,
           UNCHANGED <<running, leaked>>, WorldTypes'
    PROVE  Kept
<1>1. call' \in [Clients -> CallRecords] /\ \A d \in Clients : WellFormed(call'[d])
  BY CallKeeps DEF ScheduleInvariant
<1>2. Types'
  BY <1>1 DEF ScheduleInvariant, Types
<1>3. Guard'
  BY SameServiceGuarded DEF ScheduleInvariant
<1>4. QED
  BY <1>1, <1>2, <1>3 DEF Kept

(* A call begins to serve a schedule. *)
LEMMA TakeStepKeeps ==
    ASSUME ScheduleInvariant, NEW c \in Clients, call[c].phase \notin ServingPhases,
           NEW y \in CallRecords, WellFormed(y), y.phase \in ServingPhases,
           call' = [call EXCEPT ![c] = y],
           NEW t \in Ids, t \notin Me(c), Head(y.due) = t, Remember(c, t),
           leaked' = leaked, WorldTypes'
    PROVE  Kept
<1>1. call' \in [Clients -> CallRecords] /\ \A d \in Clients : WellFormed(call'[d])
  BY CallKeeps DEF ScheduleInvariant
<1>2. running' \in [Processes -> SUBSET Ids]
  BY DEF Remember, ScheduleInvariant, Types
<1>3. Types'
  BY <1>1, <1>2 DEF ScheduleInvariant, Types
<1>4. Guard'
  BY TakesUpGuarded DEF ScheduleInvariant, Serves, ServingPhases
<1>5. QED
  BY <1>1, <1>3, <1>4 DEF Kept

(* A call ceases to serve a schedule. *)
LEMMA LeaveStepKeeps ==
    ASSUME ScheduleInvariant, NEW c \in Clients, call[c].phase \in ServingPhases,
           NEW y \in CallRecords, WellFormed(y), y.phase \notin ServingPhases,
           call' = [call EXCEPT ![c] = y], Forget(c, Current(c)), leaked' = leaked,
           WorldTypes'
    PROVE  Kept
<1>1. call' \in [Clients -> CallRecords] /\ \A d \in Clients : WellFormed(call'[d])
  BY CallKeeps DEF ScheduleInvariant
<1>2. running' \in [Processes -> SUBSET Ids]
  BY DEF Forget, ScheduleInvariant, Types
<1>3. Types'
  BY <1>1, <1>2 DEF ScheduleInvariant, Types
<1>4. Current(c) \in Ids /\ Serves(c, Current(c))
  BY CurrentIsTyped DEF ScheduleInvariant, WellFormed, Serves, ServingPhases
<1>5. Guard'
  BY <1>4, LetsGoGuarded DEF ScheduleInvariant
<1>6. QED
  BY <1>1, <1>3, <1>5 DEF Kept

(* The shared state is typed after a step that leaves it alone. *)
LEMMA WorldStays ==
    ASSUME ScheduleInvariant, UNCHANGED <<now, store, holder, late>>
    PROVE  WorldTypes'
BY DEF ScheduleInvariant, Types, WorldTypes, Listed, store

LEMMA SkipsRunningKeeps ==
    ASSUME ScheduleInvariant, NEW c \in Clients, SkipsRunning(c)
    PROVE  Kept
<1> DEFINE x == call[c]
           y == [x EXCEPT !.phase = x.phase, !.due = Tail(@), !.seen = Gone]
<1>1. /\ x \in CallRecords /\ WellFormed(x) /\ x.due # <<>> /\ x.phase \in {"rows", "file"}
      /\ call' = [call EXCEPT ![c] = y]
      /\ UNCHANGED <<now, store, running, entries>>
  BY DEF ScheduleInvariant, Types, SkipsRunning, Advance, SetCall
<1>2. y \in CallRecords /\ WellFormed(y) /\ y.phase = x.phase
  BY <1>1, AdvancesFormed DEF WellFormed
<1> HIDE DEF y
<1>3. x.phase \notin ServingPhases /\ y.phase \notin ServingPhases
  BY <1>1, <1>2 DEF ServingPhases, RowPhases, EntryPhases
<1>4. WorldTypes'
  BY <1>1, WorldStays DEF entries
<1>5. QED
  BY <1>1, <1>2, <1>3, <1>4, SameStepKeeps DEF entries

LEMMA ThrowsKeeps ==
    ASSUME ScheduleInvariant, NEW c \in Clients, FindsNothing(c) \/ FileFails(c) \/ EndsCall(c)
    PROVE  Kept
<1>1. /\ call[c].phase \in {"rows", "file"}
      /\ call' = [call EXCEPT ![c] = NoCall]
      /\ UNCHANGED <<now, store, running, entries>>
  BY DEF FindsNothing, FileFails, EndsCall, Throws, SetCall, Phase
<1>2. NoCall.phase \notin ServingPhases /\ call[c].phase \notin ServingPhases
  BY <1>1 DEF NoCall, ServingPhases, RowPhases, EntryPhases
<1>3. WorldTypes'
  BY <1>1, WorldStays DEF entries
<1>4. QED
  BY <1>1, <1>2, <1>3, NoCallIsFormed, SameStepKeeps DEF entries

LEMMA TicksKeeps ==
    ASSUME ScheduleInvariant, NEW c \in Clients, NEW at \in 0 .. MaxTime, Ticks(c, at)
    PROVE  Kept
<1>1. PICK o \in InListOrder({s \in ToSet(recent) : Due(s, at)}) :
         call' = [call EXCEPT ![c] = [NoCall EXCEPT !.phase = "rows", !.tick = TRUE, !.at = at,
                                                    !.due = UpToLimit(o)]]
  BY DEF Ticks, SetCall
<1> DEFINE due == UpToLimit(o)
           y == [NoCall EXCEPT !.phase = "rows", !.tick = TRUE, !.at = at, !.due = due]
<1>2. due \in Seq(Rows) /\ due \in Seq(Ids)
  <2>1. o \in Seq({s \in ToSet(recent) : Due(s, at)})
    BY ListKeepsRows DEF ScheduleInvariant
  <2>2. ToSet(recent) \subseteq Rows
    BY DEF ScheduleInvariant, Types, WorldTypes, Listed, ToSet
  <2>3. o \in Seq(Rows) /\ o \in Seq(Ids)
    BY <2>1, <2>2 DEF Ids
  <2>4. QED
    BY <2>3, LimitKeepsRows
<1>3. call' = [call EXCEPT ![c] = y]
  BY <1>1
<1> HIDE DEF due
<1>4. y \in CallRecords /\ y.phase = "rows" /\ y.due = due
  BY <1>2, NoCallIsFormed DEF CallRecords, Phases
<1> HIDE DEF y
<1>5. WellFormed(y) /\ y.phase \notin ServingPhases
  BY <1>2, <1>4, IdlingFormed
<1>6. call[c].phase \notin ServingPhases /\ UNCHANGED <<now, store, running, entries>>
  BY DEF Ticks, Phase, ServingPhases, RowPhases, EntryPhases
<1>7. WorldTypes'
  BY <1>6, WorldStays DEF entries
<1>8. QED
  BY <1>3, <1>4, <1>5, <1>6, <1>7, SameStepKeeps DEF entries

LEMMA RunsByHandKeeps ==
    ASSUME ScheduleInvariant, NEW c \in Clients, NEW s \in Ids, RunsByHand(c, s)
    PROVE  Kept
<1> DEFINE phase == IF s \in Rows THEN "rows" ELSE "file"
           due == <<s>>
           y == [NoCall EXCEPT !.phase = phase, !.at = now, !.due = due]
<1>1. /\ due \in Seq(Ids) /\ phase \in {"rows", "file"}
      /\ phase = "rows" => due \in Seq(Rows)
      /\ phase = "file" => due \in Seq(FileSchedules)
  BY DEF Ids
<1>2. /\ call' = [call EXCEPT ![c] = y] /\ call[c].phase \notin ServingPhases
      /\ UNCHANGED <<now, store, running, entries>>
  BY DEF RunsByHand, SetCall, Phase, ServingPhases, RowPhases, EntryPhases
<1> HIDE DEF phase, due
<1>3. y \in CallRecords /\ y.phase = phase /\ y.due = due
  BY <1>1, NoCallIsFormed DEF CallRecords, Phases, ScheduleInvariant, Types, WorldTypes
<1> HIDE DEF y
<1>4. WellFormed(y) /\ y.phase \notin ServingPhases
  BY <1>1, <1>3, IdlingFormed
<1>5. WorldTypes'
  BY <1>2, WorldStays DEF entries
<1>6. QED
  BY <1>2, <1>3, <1>4, <1>5, SameStepKeeps DEF entries

LEMMA EndsRowsKeeps ==
    ASSUME ScheduleInvariant, NEW c \in Clients, EndsRows(c)
    PROVE  Kept
<1> DEFINE x == call[c]
<1>1. /\ x \in CallRecords /\ x.phase \notin ServingPhases
      /\ UNCHANGED <<now, store, running, entries>>
  BY DEF ScheduleInvariant, Types, EndsRows, Phase, ServingPhases, RowPhases, EntryPhases
<1>2. WorldTypes'
  BY <1>1, WorldStays DEF entries
<1>3. CASE x.tick
  <2> DEFINE due == {s \in FileSchedules : Due(s, x.at)}
  <2>1. PICK o \in SetToSeqs(due) :
           call' = [call EXCEPT ![c] = [x EXCEPT !.phase = "file", !.due = o]]
    BY <1>3 DEF EndsRows, SetCall
  <2> DEFINE y == [x EXCEPT !.phase = "file", !.due = o]
  <2>2. o \in Seq(FileSchedules) /\ o \in Seq(Ids)
    <3>1. due \subseteq Ids /\ due \subseteq FileSchedules
      BY DEF Ids
    <3>2. Cardinality(due) \in Nat
      BY <3>1, SchedulesAssumption, FS_Subset, FS_CardinalityType
    <3>3. o \in [1 .. Cardinality(due) -> due]
      BY <2>1 DEF SetToSeqs
    <3> HIDE DEF due
    <3>4. QED
      BY <3>1, <3>2, <3>3
  <2>3. y \in CallRecords /\ y.phase = "file" /\ y.due = o
    BY <1>1, <2>2 DEF CallRecords, Phases
  <2> HIDE DEF y
  <2>4. WellFormed(y) /\ y.phase \notin ServingPhases
    BY <2>2, <2>3, IdlingFormed
  <2>5. call' = [call EXCEPT ![c] = y]
    BY <2>1 DEF y
  <2>6. QED
    BY <1>1, <1>2, <2>3, <2>4, <2>5, SameStepKeeps DEF entries
<1>4. CASE ~ x.tick
  <2>1. call' = [call EXCEPT ![c] = NoCall] /\ NoCall.phase \notin ServingPhases
    BY <1>4 DEF EndsRows, SetCall, NoCall, ServingPhases, RowPhases, EntryPhases
  <2>2. QED
    BY <1>1, <1>2, <2>1, NoCallIsFormed, SameStepKeeps DEF entries
<1>5. QED
  BY <1>3, <1>4

LEMMA StartsKeeps ==
    ASSUME ScheduleInvariant, NEW c \in Clients, Starts(c)
    PROVE  Kept
<1> DEFINE x == call[c]
           s == Current(c)
           refused == s \in TaskSchedules /\ task[s] # "ready"
           phase == IF refused THEN "refused" ELSE "running"
           y == [x EXCEPT !.phase = phase, !.seen = row[s]]
<1>1. /\ x \in CallRecords /\ WellFormed(x) /\ x.phase = "rows" /\ x.due # <<>>
      /\ s \in Ids /\ s \notin Me(c) /\ row[s] \in RowRecords /\ row[s] # Gone
  BY CurrentIsTyped DEF Starts, ScheduleInvariant, Types, WorldTypes, Phase
<1>2. /\ call' = [call EXCEPT ![c] = y] /\ Remember(c, s)
      /\ UNCHANGED <<now, row, recent, entries>>
  BY DEF Starts, SetCall
<1>3. WorldTypes'
  BY DEF Starts, entries, ScheduleInvariant, Types, WorldTypes, Listed
<1>4. phase \in RowPhases /\ phase \in Phases
  BY DEF Phases, ServingPhases, RowPhases
<1> HIDE DEF phase, s
<1>5. y \in CallRecords /\ y.phase = phase /\ y.due = x.due /\ y.seen = row[s]
  BY <1>1, <1>4 DEF CallRecords
<1> HIDE DEF y
<1>6. WellFormed(y) /\ y.phase \in ServingPhases /\ x.phase \notin ServingPhases
  BY <1>1, <1>4, <1>5 DEF WellFormed, ServingPhases, RowPhases, EntryPhases
<1>7. Head(y.due) = s
  BY <1>5 DEF s, Current
<1>8. QED
  BY <1>1, <1>2, <1>3, <1>5, <1>6, <1>7, TakeStepKeeps DEF entries

LEMMA ConcludesKeeps ==
    ASSUME ScheduleInvariant, NEW c \in Clients, NEW succeeded \in BOOLEAN, Concludes(c, succeeded),
           call[c].phase \in RowPhases, UNCHANGED <<now, entries>>,
           task' \in [TaskSchedules -> {"ready", "running", "completed", "failed"}]
    PROVE  Kept
<1> DEFINE x == call[c]
           s == Current(c)
           next == NextRun(s, x.seen, x.at)
<1>1. /\ x \in CallRecords /\ WellFormed(x) /\ x.phase \in ServingPhases /\ x.due # <<>>
      /\ x.due \in Seq(Rows) /\ s \in Rows /\ s \in Ids /\ Forget(c, s)
  BY CurrentIsTyped DEF Concludes, ScheduleInvariant, Types, WellFormed, ServingPhases
<1>2. ASSUME row' \in [Ids -> RowRecords], recent' \in Seq(Listed'), IsInjective(recent')
      PROVE  WorldTypes'
  BY <1>2 DEF entries, ScheduleInvariant, Types, WorldTypes
<1>3. CASE row[s] = Gone \/ s \in Unparsable
  <2>1. call' = [call EXCEPT ![c] = NoCall] /\ UNCHANGED <<row, recent>>
    BY <1>3 DEF Concludes, Throws, SetCall
  <2>2. /\ row' \in [Ids -> RowRecords] /\ recent' \in Seq(Listed') /\ IsInjective(recent')
        /\ NoCall.phase \notin ServingPhases
    BY <2>1 DEF ScheduleInvariant, Types, WorldTypes, Listed, NoCall, ServingPhases, RowPhases,
                EntryPhases
  <2>3. QED
    BY <1>1, <1>2, <2>1, <2>2, NoCallIsFormed, LeaveStepKeeps DEF entries
<1>4. CASE ~ (row[s] = Gone \/ s \in Unparsable)
  <2> DEFINE y == [x EXCEPT !.phase = "rows", !.due = Tail(@), !.seen = Gone]
             verdict == IF ~ succeeded THEN "error" ELSE IF next = {} THEN "disabled" ELSE "active"
  <2>1. call' = [call EXCEPT ![c] = y] /\ row' = [row EXCEPT ![s] = Row(verdict, next)] /\ Touch(s)
    BY <1>4 DEF Concludes, Advance, SetCall
  <2>2. next \in Times
    BY <1>1, NextRunIsTyped DEF CallRecords
  <2>3. Row(verdict, next) \in RowRecords /\ Row(verdict, next) # Gone
    BY <2>2 DEF Row, RowRecords, Gone
  <2> HIDE DEF next, verdict
  <2>4. row' \in [Ids -> RowRecords] /\ recent' \in Seq(Listed') /\ IsInjective(recent')
    BY <1>1, <2>1, <2>3, WritesRow DEF ScheduleInvariant
  <2>5. y \in CallRecords /\ WellFormed(y) /\ y.phase = "rows"
    BY <1>1, AdvancesFormed
  <2> HIDE DEF y
  <2>6. y.phase \notin ServingPhases
    BY <2>5 DEF ServingPhases, RowPhases, EntryPhases
  <2>7. QED
    BY <1>1, <1>2, <2>1, <2>4, <2>5, <2>6, LeaveStepKeeps DEF entries
<1>5. QED
  BY <1>3, <1>4

LEMMA TargetKeeps ==
    ASSUME ScheduleInvariant, NEW c \in Clients,
           TargetEnds(c, TRUE) \/ TargetEnds(c, FALSE) \/ TargetRefuses(c)
    PROVE  Kept
<1>1. ASSUME NEW succeeded \in BOOLEAN, TargetEnds(c, succeeded)
      PROVE  Kept
  <2>1. task' \in [TaskSchedules -> {"ready", "running", "completed", "failed"}]
    BY <1>1 DEF TargetEnds, ScheduleInvariant, Types, WorldTypes
  <2>2. /\ Concludes(c, succeeded) /\ call[c].phase \in RowPhases
        /\ UNCHANGED <<now, entries>>
    BY <1>1 DEF TargetEnds, Phase, RowPhases
  <2>3. QED
    BY <2>1, <2>2, ConcludesKeeps
<1>2. CASE TargetRefuses(c)
  <2>1. /\ Concludes(c, FALSE) /\ call[c].phase \in RowPhases
        /\ UNCHANGED <<now, task, entries>>
    BY <1>2 DEF TargetRefuses, Phase, RowPhases
  <2>2. task' \in [TaskSchedules -> {"ready", "running", "completed", "failed"}]
    BY <2>1 DEF ScheduleInvariant, Types, WorldTypes
  <2>3. QED
    BY <2>1, <2>2, ConcludesKeeps
<1>3. QED
  BY <1>1, <1>2

(***************************************************************************)
(* The steps in the file.                                                  *)
(***************************************************************************)
LEMMA ClaimsKeeps ==
    ASSUME ScheduleInvariant, NEW c \in Clients, Claims(c)
    PROVE  Kept
<1> DEFINE x == call[c]
           s == Current(c)
           y == [x EXCEPT !.phase = "locking"]
<1>1. /\ x \in CallRecords /\ WellFormed(x) /\ x.phase = "file" /\ x.due # <<>>
      /\ s \in Ids /\ s \notin Me(c)
  BY CurrentIsTyped DEF Claims, ScheduleInvariant, Types, Phase
<1>2. /\ call' = [call EXCEPT ![c] = y] /\ Remember(c, s)
      /\ UNCHANGED <<now, store, entries>>
  BY DEF Claims, SetCall
<1>3. y \in CallRecords /\ y.phase = "locking" /\ y.due = x.due
  BY <1>1 DEF CallRecords, Phases, ServingPhases, EntryPhases
<1> HIDE DEF y
<1>4. WellFormed(y) /\ y.phase \in ServingPhases /\ x.phase \notin ServingPhases
  BY <1>1, <1>3 DEF WellFormed, ServingPhases, RowPhases, EntryPhases
<1>5. Head(y.due) = s
  BY <1>3 DEF Current
<1>6. WorldTypes'
  BY <1>2, WorldStays DEF entries
<1>7. QED
  BY <1>1, <1>2, <1>3, <1>4, <1>5, <1>6, TakeStepKeeps DEF entries

(* What a step within an entry starts from, and the record To writes.      *)
LEMMA InFileFormed ==
    ASSUME ScheduleInvariant, NEW c \in Clients, NEW from, InFile(c, from),
           from \subseteq EntryPhases \cup {"returning", "throwing"}
    PROVE  /\ call[c] \in CallRecords /\ WellFormed(call[c])
           /\ call[c].phase \in from /\ call[c].due # <<>> /\ call[c].due \in Seq(FileSchedules)
           /\ Current(c) \in FileSchedules /\ Current(c) \in Ids
           /\ UNCHANGED <<now, recent, task>>
<1>1. /\ call[c] \in CallRecords /\ WellFormed(call[c]) /\ call[c].phase \in from
      /\ UNCHANGED <<now, recent, task>>
  BY DEF ScheduleInvariant, Types, InFile
<1>2. call[c].due # <<>> /\ call[c].due \in Seq(FileSchedules)
  BY <1>1 DEF WellFormed, ServingPhases
<1>3. QED
  BY <1>1, <1>2, CurrentIsTyped DEF ScheduleInvariant

LEMMA ToFormed ==
    ASSUME NEW c \in Clients, call[c] \in CallRecords, call[c].due # <<>>,
           call[c].due \in Seq(FileSchedules),
           NEW phase \in EntryPhases \cup {"returning", "throwing"}, To(c, phase)
    PROVE  \E y \in CallRecords :
              /\ WellFormed(y) /\ y.phase = phase /\ y.due = call[c].due
              /\ call' = [call EXCEPT ![c] = y]
<1> DEFINE y == [call[c] EXCEPT !.phase = phase]
<1>1. phase \in Phases /\ phase \notin RowPhases /\ phase # "rows"
  BY DEF Phases, ServingPhases, RowPhases, EntryPhases
<1>2. y \in CallRecords /\ y.phase = phase /\ y.due = call[c].due
  BY <1>1 DEF CallRecords
<1>3. WellFormed(y)
  BY <1>1, <1>2 DEF WellFormed
<1>4. QED
  BY <1>2, <1>3 DEF To, SetCall

(* The file and the locks after a step within an entry. *)
LEMMA FileWorldStays ==
    ASSUME ScheduleInvariant, UNCHANGED <<now, recent, task>>,
           \/ row' = row
           \/ \E s \in FileSchedules : row' = [row EXCEPT ![s].next = {now + Interval}] /\ row[s] # Gone,
           \/ holder' = holder
           \/ \E s \in FileSchedules, h \in Clients \cup {Nobody} : holder' = [holder EXCEPT ![s] = h],
           \/ late' = late
           \/ \E c \in Clients, s \in FileSchedules :
                 late' \in {[late EXCEPT ![c] = @ \cup {s}], [late EXCEPT ![c] = @ \ {s}]}
    PROVE  WorldTypes'
<1>1. row' \in [Ids -> RowRecords] /\ recent' \in Seq(Listed') /\ IsInjective(recent')
  <2>1. CASE row' = row
    BY <2>1 DEF ScheduleInvariant, Types, WorldTypes, Listed
  <2>2. ASSUME NEW s \in FileSchedules, row' = [row EXCEPT ![s].next = {now + Interval}], row[s] # Gone
        PROVE  row' \in [Ids -> RowRecords] /\ recent' \in Seq(Listed') /\ IsInjective(recent')
    <3> DEFINE new == [row[s] EXCEPT !.next = {now + Interval}]
    <3>1. s \in Ids /\ s \notin Rows /\ row[s] \in RowRecords /\ now \in 0 .. MaxTime
      BY SchedulesAssumption, FilesAreIds DEF ScheduleInvariant, Types, WorldTypes
    <3>2. {now + Interval} \in Times
      <4>1. now + Interval \in 0 .. (MaxTime + Interval)
        BY <3>1, SchedulesAssumption
      <4>2. QED
        BY <4>1 DEF Times
    <3>3. new \in RowRecords /\ new # Gone
      BY <3>1, <3>2 DEF RowRecords, Gone
    <3>4. row' = [row EXCEPT ![s] = new]
      BY <2>2
    <3> HIDE DEF new
    <3>5. QED
      BY <3>1, <3>3, <3>4, WritesRow DEF ScheduleInvariant
  <2>3. QED
    BY <2>1, <2>2
<1>2. holder' \in [FileSchedules -> Clients \cup {Nobody, Leftover}]
  BY DEF ScheduleInvariant, Types, WorldTypes
<1>3. late' \in [Clients -> SUBSET FileSchedules]
  <2>1. late \in [Clients -> SUBSET FileSchedules]
    BY DEF ScheduleInvariant, Types, WorldTypes
  <2>2. ASSUME NEW c \in Clients, NEW s \in FileSchedules,
               late' \in {[late EXCEPT ![c] = @ \cup {s}], [late EXCEPT ![c] = @ \ {s}]}
        PROVE  late' \in [Clients -> SUBSET FileSchedules]
    BY <2>1, <2>2
  <2>3. QED
    BY <2>1, <2>2
<1>4. QED
  BY <1>1, <1>2, <1>3 DEF ScheduleInvariant, Types, WorldTypes

(* The steps in which the entry goes on being served. *)
LEMMA ServiceGoesOn ==
    ASSUME ScheduleInvariant, NEW c \in Clients,
           \/ Locks(c) \/ JudgesLock(c) \/ ReclaimsLock(c) \/ Marks(c)
           \/ HandlerEnds(c, TRUE) \/ HandlerEnds(c, FALSE) \/ HandlerTimesOut(c)
           \/ Saves(c) \/ Catches(c)
    PROVE  Kept
<1>1. PICK phase \in EntryPhases : To(c, phase)
  BY DEF Locks, JudgesLock, ReclaimsLock, Marks, HandlerEnds, HandlerTimesOut, Saves, Catches,
         EntryPhases
<1>2. InFile(c, EntryPhases)
  BY DEF Locks, JudgesLock, ReclaimsLock, Marks, HandlerEnds, HandlerTimesOut, Saves, Catches,
         InFile, EntryPhases
<1>3. /\ call[c] \in CallRecords /\ call[c].due # <<>> /\ call[c].due \in Seq(FileSchedules)
      /\ call[c].phase \in EntryPhases /\ Current(c) \in FileSchedules
      /\ UNCHANGED <<now, recent, task>>
  BY <1>2, InFileFormed
<1>4. PICK y \in CallRecords : /\ WellFormed(y) /\ y.phase = phase /\ y.due = call[c].due
                               /\ call' = [call EXCEPT ![c] = y]
  BY <1>1, <1>3, ToFormed
<1>5. WorldTypes'
  BY <1>3, FileWorldStays
  DEF Locks, JudgesLock, ReclaimsLock, Marks, HandlerEnds, HandlerTimesOut, Saves, Catches, entries
<1>6. UNCHANGED <<running, leaked>>
  BY DEF Locks, JudgesLock, ReclaimsLock, Marks, HandlerEnds, HandlerTimesOut, Saves, Catches, entries
<1>7. call[c].phase \in ServingPhases /\ y.phase \in ServingPhases
  BY <1>3, <1>4 DEF ServingPhases
<1>8. QED
  BY <1>4, <1>5, <1>6, <1>7, SameStepKeeps

(* The steps that leave the try block. *)
LEMMA ServiceEnds ==
    ASSUME ScheduleInvariant, NEW c \in Clients, MarkFails(c) \/ Logs(c) \/ CatchFails(c)
    PROVE  Kept
<1>1. PICK phase \in {"returning", "throwing"} : To(c, phase)
  BY DEF MarkFails, Logs, CatchFails
<1>2. InFile(c, EntryPhases) /\ Forget(c, Current(c)) /\ UNCHANGED <<row, entries>>
  BY DEF MarkFails, Logs, CatchFails, InFile, EntryPhases
<1>3. /\ call[c] \in CallRecords /\ call[c].due # <<>> /\ call[c].due \in Seq(FileSchedules)
      /\ call[c].phase \in EntryPhases /\ UNCHANGED <<now, recent, task>>
  BY <1>2, InFileFormed
<1>4. PICK y \in CallRecords : /\ WellFormed(y) /\ y.phase = phase /\ y.due = call[c].due
                               /\ call' = [call EXCEPT ![c] = y]
  BY <1>1, <1>3, ToFormed
<1>5. WorldTypes'
  BY <1>2, <1>3, WorldStays DEF entries, store
<1>6. call[c].phase \in ServingPhases /\ y.phase \notin ServingPhases
  BY <1>3, <1>4 DEF ServingPhases, RowPhases, EntryPhases
<1>7. QED
  BY <1>2, <1>4, <1>5, <1>6, LeaveStepKeeps DEF entries

LEMMA LockFailsKeeps ==
    ASSUME ScheduleInvariant, NEW c \in Clients, LockFails(c)
    PROVE  Kept
<1> DEFINE s == Current(c)
<1>1. /\ InFile(c, {"locking", "reclaiming"}) /\ call' = [call EXCEPT ![c] = NoCall]
      /\ leaked' = [leaked EXCEPT ![ProcessOf[c]] = @ \cup {s}]
      /\ UNCHANGED <<row, running, holder, late>>
  BY DEF LockFails, Throws, SetCall
<1>2. /\ call[c].phase \in {"locking", "reclaiming"} /\ s \in FileSchedules /\ s \in Ids
      /\ UNCHANGED <<now, recent, task>>
  BY <1>1, InFileFormed DEF EntryPhases
<1>3. call[c].phase \in ServingPhases /\ NoCall.phase \notin ServingPhases
  BY <1>2 DEF ServingPhases, RowPhases, EntryPhases, NoCall
<1>4. call' \in [Clients -> CallRecords] /\ \A d \in Clients : WellFormed(call'[d])
  BY <1>1, NoCallIsFormed, CallKeeps DEF ScheduleInvariant
<1>5. WorldTypes'
  BY <1>1, <1>2, WorldStays DEF store
<1>6. leaked' \in [Processes -> SUBSET FileSchedules]
  BY <1>1, <1>2 DEF ScheduleInvariant, Types
<1>7. Types'
  BY <1>1, <1>4, <1>5, <1>6 DEF ScheduleInvariant, Types
<1>8. Serves(c, s)
  BY <1>3 DEF Serves, ServingPhases
<1> HIDE DEF s
<1>9. Guard'
  BY <1>1, <1>2, <1>3, <1>8, LetsGoGuarded DEF ScheduleInvariant
<1>10. QED
  BY <1>4, <1>7, <1>9 DEF Kept

LEMMA ReleaseKeeps ==
    ASSUME ScheduleInvariant, NEW c \in Clients, ReleasesLock(c) \/ ReleaseFails(c)
    PROVE  Kept
<1> DEFINE x == call[c]
           y == [x EXCEPT !.phase = "file", !.due = Tail(@), !.seen = Gone]
<1>1. InFile(c, {"returning", "throwing"}) /\ UNCHANGED <<row, running, late, leaked>>
  BY DEF ReleasesLock, ReleaseFails, entries
<1>2. /\ x \in CallRecords /\ WellFormed(x) /\ x.phase \in {"returning", "throwing"}
      /\ x.due # <<>> /\ x.due \in Seq(FileSchedules) /\ Current(c) \in FileSchedules
      /\ UNCHANGED <<now, recent, task>>
  BY <1>1, InFileFormed
<1>3. WorldTypes'
  BY <1>1, <1>2, FileWorldStays DEF ReleasesLock, ReleaseFails, entries
<1>4. x.phase \notin ServingPhases
  BY <1>2 DEF ServingPhases, RowPhases, EntryPhases
<1>5. y \in CallRecords /\ WellFormed(y) /\ y.phase = "file"
  BY <1>2, AdvancesFormed
<1>6. call' = [call EXCEPT ![c] = y] \/ call' = [call EXCEPT ![c] = NoCall]
  BY DEF ReleasesLock, ReleaseFails, Advance, Throws, SetCall
<1> HIDE DEF y
<1>7. y.phase \notin ServingPhases /\ NoCall.phase \notin ServingPhases
  BY <1>5 DEF ServingPhases, RowPhases, EntryPhases, NoCall
<1>8. QED
  BY <1>1, <1>3, <1>4, <1>5, <1>6, <1>7, NoCallIsFormed, SameStepKeeps

(***************************************************************************)
(* What people do, the clock, late handlers and crashes.                   *)
(***************************************************************************)
LEMMA NoCallStepKeeps ==
    ASSUME ScheduleInvariant, WorldTypes', UNCHANGED <<running, leaked, call>>
    PROVE  Kept
<1>1. Types'
  BY DEF ScheduleInvariant, Types
<1>2. Guard'
  BY DEF ScheduleInvariant, Guard, ServedIsRemembered, RememberedIsServed, LeakedIsRemembered,
         LeakedIsIdle, OneCallPerProcess, Serves, Current, Me
<1>3. QED
  BY <1>1, <1>2 DEF ScheduleInvariant, Kept

LEMMA EditKeeps ==
    ASSUME ScheduleInvariant,
           \/ \E s \in Ids : Upserts(s) \/ Removes(s)
           \/ \E s \in TaskSchedules : ReadiesTask(s)
           \/ TimePasses
    PROVE  Kept
<1>1. /\ UNCHANGED <<running, entries, call>> /\ now' \in 0 .. MaxTime
      /\ task' \in [TaskSchedules -> {"ready", "running", "completed", "failed"}]
  BY SchedulesAssumption
  DEF Upserts, Removes, ReadiesTask, TimePasses, Edit, ScheduleInvariant, Types, WorldTypes, store
<1>2. row' \in [Ids -> RowRecords] /\ recent' \in Seq(Listed') /\ IsInjective(recent')
  <2>1. ASSUME NEW s \in Ids, Upserts(s)
        PROVE  row' \in [Ids -> RowRecords] /\ recent' \in Seq(Listed') /\ IsInjective(recent')
    <3>1. PICK status \in {"active", "paused"}, n \in now .. (now + Interval) :
             row' = [row EXCEPT ![s] = Row(status, {n})]
      BY <2>1 DEF Upserts
    <3>2. n \in 0 .. (MaxTime + Interval)
      BY SchedulesAssumption DEF ScheduleInvariant, Types, WorldTypes
    <3>3. Row(status, {n}) \in RowRecords /\ Row(status, {n}) # Gone
      BY <3>2 DEF Row, RowRecords, Times, Gone
    <3>4. (s \in Rows => Touch(s)) /\ (s \notin Rows => recent' = recent)
      BY <2>1 DEF Upserts
    <3>5. QED
      BY <3>1, <3>3, <3>4, WritesRow DEF ScheduleInvariant
  <2>2. ASSUME NEW s \in Ids, Removes(s)
        PROVE  row' \in [Ids -> RowRecords] /\ recent' \in Seq(Listed') /\ IsInjective(recent')
    <3>1. row' = [row EXCEPT ![s] = Gone] /\ recent' \in InListOrder(Others(s))
      BY <2>2 DEF Removes
    <3>2. recent' \in Seq(Others(s)) /\ IsInjective(recent')
      BY <3>1, ListKeepsRows DEF ScheduleInvariant, Others
    <3>3. Others(s) \subseteq Listed'
      BY <3>1 DEF ScheduleInvariant, Types, WorldTypes, Listed, Others, ToSet, Ids
    <3>4. row' \in [Ids -> RowRecords]
      BY <3>1, GoneIsRow DEF ScheduleInvariant, Types, WorldTypes
    <3>5. QED
      BY <3>2, <3>3, <3>4
  <2>3. CASE TimePasses \/ \E s \in TaskSchedules : ReadiesTask(s)
    BY <2>3 DEF TimePasses, ReadiesTask, ScheduleInvariant, Types, WorldTypes, Listed, store
  <2>4. QED
    BY <2>1, <2>2, <2>3
<1>3. WorldTypes'
  BY <1>1, <1>2 DEF entries, ScheduleInvariant, Types, WorldTypes
<1>4. QED
  BY <1>1, <1>3, NoCallStepKeeps DEF entries

LEMMA LateHandlerKeeps ==
    ASSUME ScheduleInvariant, NEW c \in Clients, NEW s \in FileSchedules, LateHandlerEnds(c, s)
    PROVE  Kept
<1>1. UNCHANGED <<now, store, holder, running, leaked, call>>
  BY DEF LateHandlerEnds
<1>2. WorldTypes'
  BY <1>1, FileWorldStays DEF LateHandlerEnds, store
<1>3. QED
  BY <1>1, <1>2, NoCallStepKeeps

LEMMA RestartKeeps ==
    ASSUME ScheduleInvariant, NEW p \in Processes, Restarts(p)
    PROVE  Kept
<1>1. call' \in [Clients -> CallRecords] /\ \A d \in Clients : WellFormed(call'[d])
  BY NoCallIsFormed DEF Restarts, ScheduleInvariant, Types
<1>2. Types'
  <2>1. running' \in [Processes -> SUBSET Ids] /\ leaked' \in [Processes -> SUBSET FileSchedules]
    BY DEF Restarts, ScheduleInvariant, Types
  <2>2. holder' \in [FileSchedules -> Clients \cup {Nobody, Leftover}]
    BY DEF Restarts, ScheduleInvariant, Types, WorldTypes
  <2>3. late' \in [Clients -> SUBSET FileSchedules]
    BY DEF Restarts, ScheduleInvariant, Types, WorldTypes
  <2>4. task' \in [TaskSchedules -> {"ready", "running", "completed", "failed"}]
    BY DEF Restarts, ScheduleInvariant, Types, WorldTypes
  <2>5. UNCHANGED <<now, row, recent>>
    BY DEF Restarts
  <2>6. WorldTypes'
    BY <2>2, <2>3, <2>4, <2>5 DEF ScheduleInvariant, Types, WorldTypes, Listed
  <2>7. QED
    BY <1>1, <2>1, <2>6 DEF Types
<1>3. Guard'
  BY RestartsGuarded DEF ScheduleInvariant
<1>4. QED
  BY <1>1, <1>2, <1>3 DEF Kept

LEMMA InvariantHolds == Spec => []ScheduleInvariant
<1>1. Init => ScheduleInvariant
  <2> SUFFICES ASSUME Init PROVE ScheduleInvariant
    OBVIOUS
  <2>1. Gone \in RowRecords /\ Row("active", {0}) \in RowRecords
    BY SchedulesAssumption, GoneIsRow DEF Row, RowRecords, Times
  <2>2. row \in [Ids -> RowRecords]
    BY <2>1 DEF Init
  <2>3. recent \in SetToSeqs(Listed)
    BY DEF Init, Listed
  <2>4. recent \in Seq(Listed) /\ IsInjective(recent)
    <3>1. Listed \subseteq Ids
      BY DEF Listed, Ids
    <3>2. Cardinality(Listed) \in Nat
      BY <3>1, SchedulesAssumption, FS_Subset, FS_CardinalityType
    <3>3. /\ recent \in [1 .. Cardinality(Listed) -> Listed]
          /\ \A i, j \in 1 .. Cardinality(Listed) : i # j => recent[i] # recent[j]
      BY <2>3 DEF SetToSeqs
    <3>4. QED
      BY <3>2, <3>3 DEF IsInjective
  <2>5. \A c \in Clients : call[c] = NoCall
    BY DEF Init
  <2>6. call \in [Clients -> CallRecords] /\ \A c \in Clients : WellFormed(call[c])
    BY NoCallIsFormed DEF Init
  <2>7. Types
    BY <2>2, <2>4, <2>6, SchedulesAssumption DEF Init, Types, WorldTypes
  <2>8. NoCall.phase = "idle"
    BY DEF NoCall
  <2>9. \A c \in Clients, s \in Ids : ~ Serves(c, s)
    BY <2>5, <2>8 DEF Serves, RowPhases, EntryPhases
  <2>10. \A p \in Processes : running[p] = {} /\ leaked[p] = {}
    BY DEF Init
  <2>11. Guard
    BY <2>9, <2>10, ProcessesAssumption
    DEF Guard, ServedIsRemembered, RememberedIsServed, LeakedIsRemembered, LeakedIsIdle,
        OneCallPerProcess
  <2>12. QED
    BY <2>6, <2>7, <2>11 DEF ScheduleInvariant
<1>2. ScheduleInvariant /\ [Next]_vars => ScheduleInvariant'
  <2> SUFFICES ASSUME ScheduleInvariant, [Next]_vars PROVE ScheduleInvariant'
    OBVIOUS
  <2>1. CASE UNCHANGED vars
    BY <2>1, WorldStays, NoCallStepKeeps DEF vars, entries, Kept, ScheduleInvariant
  <2>2. CASE Next
    <3>1. Kept
      <4>1. ASSUME NEW c \in Clients, CallSteps(c) PROVE Kept
        BY <4>1, SkipsRunningKeeps, StartsKeeps, ThrowsKeeps, TargetKeeps, EndsRowsKeeps,
           ClaimsKeeps, ServiceGoesOn, ServiceEnds, LockFailsKeeps, ReleaseKeeps
        DEF CallSteps, RowSteps, FileSteps
      <4>2. now \in 0 .. MaxTime
        BY DEF ScheduleInvariant, Types, WorldTypes
      <4>3. QED
        BY <2>2, <4>1, <4>2, TicksKeeps, RunsByHandKeeps, EditKeeps, LateHandlerKeeps, RestartKeeps,
           SchedulesAssumption
        DEF Next
    <3>2. QED
      BY <3>1 DEF Kept, ScheduleInvariant
  <2>3. QED
    BY <2>1, <2>2
<1>3. QED
  BY <1>1, <1>2, PTL DEF Spec

(***************************************************************************)
(* The guard against overlap within a process, runningAppStateScheduleIds  *)
(* and runningIds: what two calls of a process serve at the same time are  *)
(* different schedules, and the process remembers as running what its      *)
(* calls serve and the entries whose lock they could not have.             *)
(***************************************************************************)
THEOREM OverlapIsGuarded == Spec => []OverlapGuard
<1>1. ScheduleInvariant => OverlapGuard
  <2> SUFFICES ASSUME ScheduleInvariant PROVE OverlapGuard
    OBVIOUS
  <2>1. SchedulesTypeOK
    <3>1. \A s \in Ids : /\ row[s].status \in {"gone", "active", "paused", "disabled", "error"}
                         /\ row[s].next \in {{}} \cup {{n} : n \in 0 .. (MaxTime + Interval)}
      BY DEF ScheduleInvariant, Types, WorldTypes, RowRecords, Times
    <3>2. \A c \in Clients :
             /\ call[c].phase \in {"idle", "rows", "file", "returning", "throwing"}
                                 \cup RowPhases \cup EntryPhases
             /\ call[c].phase \in RowPhases => call[c].seen # Gone
             /\ call[c].due \in Seq(Ids)
      BY DEF ScheduleInvariant, Types, CallRecords, Phases, ServingPhases, WellFormed
    <3>3. QED
      BY <3>1, <3>2 DEF ScheduleInvariant, Types, WorldTypes, SchedulesTypeOK, Listed
  <2>2. GuardIsExact
    <3> SUFFICES ASSUME NEW p \in Processes
                 PROVE  running[p] = leaked[p] \cup
                           {s \in Ids : \E c \in Clients : ProcessOf[c] = p /\ Serves(c, s)}
      BY DEF GuardIsExact
    <3>1. running[p] \subseteq Ids
      BY DEF ScheduleInvariant, Types
    <3>2. QED
      BY <3>1
      DEF ScheduleInvariant, Guard, ServedIsRemembered, RememberedIsServed, LeakedIsRemembered, Me
  <2>3. QED
    BY <2>1, <2>2 DEF ScheduleInvariant, Guard, OverlapGuard
<1>2. QED
  BY <1>1, InvariantHolds, PTL

(* The next run that an attempt writes lies after the tick that made it, a  *)
(* whole number of intervals from the occurrence it served.                 *)
THEOREM AttemptsMoveOn == Spec => AttemptMovesOn
<1>1. ScheduleInvariant /\ [Next]_vars =>
        [\A c \in Clients :
            call[c].phase \in RowPhases /\ call'[c].phase = "rows" =>
               \A n \in row'[Current(c)].next :
                  /\ n > call[c].at
                  /\ \A seed \in call[c].seen.next : (n - seed) % Interval = 0]_vars
  <2> SUFFICES ASSUME ScheduleInvariant, Next, NEW c \in Clients,
                      call[c].phase \in RowPhases, call'[c].phase = "rows",
                      NEW n \in row'[Current(c)].next
               PROVE  /\ n > call[c].at
                      /\ \A seed \in call[c].seen.next : (n - seed) % Interval = 0
    OBVIOUS
  <2> DEFINE x == call[c]
             s == Current(c)
  <2>1. /\ x \in CallRecords /\ s \in Rows /\ s \in Ids
        /\ MaxTime \in Nat /\ Interval \in Nat
    BY CurrentIsTyped, SchedulesAssumption
    DEF ScheduleInvariant, Types, WellFormed, ServingPhases, RowPhases, Ids
  <2>2. \E succeeded \in BOOLEAN : Concludes(c, succeeded)
    <3>1. ASSUME NEW d \in Clients, d # c, NEW y, call' = [call EXCEPT ![d] = y]
          PROVE  FALSE
      BY <3>1 DEF ScheduleInvariant, Types, RowPhases
    <3>2. call' # call
      BY DEF RowPhases
    <3>3. ASSUME NEW d \in Clients, NEW at, Ticks(d, at) PROVE FALSE
      <4>1. call[d].phase = "idle" /\ \E y : call' = [call EXCEPT ![d] = y]
        BY <3>3 DEF Ticks, SetCall, Phase
      <4>2. QED
        BY <3>1, <4>1 DEF RowPhases
    <3>4. ASSUME NEW d \in Clients, NEW t \in Ids, RunsByHand(d, t) PROVE FALSE
      <4>1. call[d].phase = "idle" /\ \E y : call' = [call EXCEPT ![d] = y]
        BY <3>4 DEF RunsByHand, SetCall, Phase
      <4>2. QED
        BY <3>1, <4>1 DEF RowPhases
    <3>5. ASSUME NEW d \in Clients, CallSteps(d) PROVE d = c
      <4>1. \E y : call' = [call EXCEPT ![d] = y]
        BY <3>5
        DEF CallSteps, RowSteps, FileSteps, SkipsRunning, Starts, FindsNothing, TargetEnds,
            TargetRefuses, Concludes, EndsRows, FileFails, Claims, Locks, JudgesLock, ReclaimsLock,
            LockFails, Marks, MarkFails, HandlerEnds, HandlerTimesOut, Saves, Catches, Logs,
            CatchFails, ReleasesLock, ReleaseFails, EndsCall, SetCall, Throws, Advance, To
      <4>2. QED
        BY <3>1, <4>1
    <3>6. ASSUME CallSteps(c) PROVE \E succeeded \in BOOLEAN : Concludes(c, succeeded)
      <4>1. CASE RowSteps(c)
        BY <4>1 DEF RowSteps, SkipsRunning, Starts, FindsNothing, TargetEnds, TargetRefuses,
                    EndsRows, Phase, RowPhases
      <4>2. ~ FileSteps(c)
        BY DEF FileSteps, FileFails, Claims, Locks, JudgesLock, ReclaimsLock, LockFails, Marks,
               MarkFails, HandlerEnds, HandlerTimesOut, Saves, Catches, Logs, CatchFails,
               ReleasesLock, ReleaseFails, EndsCall, Phase, InFile, RowPhases
      <4>3. QED
        BY <3>6, <4>1, <4>2 DEF CallSteps
    <3>7. ASSUME NEW p \in Processes, Restarts(p) PROVE FALSE
      BY <3>7 DEF Restarts, NoCall, RowPhases, ScheduleInvariant, Types
    <3>8. ASSUME \/ \E t \in Ids : Upserts(t) \/ Removes(t)
                 \/ \E t \in TaskSchedules : ReadiesTask(t)
                 \/ \E d \in Clients, t \in FileSchedules : LateHandlerEnds(d, t)
                 \/ TimePasses
          PROVE FALSE
      BY <3>2, <3>8 DEF Upserts, Removes, ReadiesTask, LateHandlerEnds, TimePasses, Edit
    <3>9. QED
      BY <3>3, <3>4, <3>5, <3>6, <3>7, <3>8, SchedulesAssumption DEF Next
  <2>3. row' = [row EXCEPT ![s] = Row(row'[s].status, NextRun(s, x.seen, x.at))]
    <3>1. PICK succeeded \in BOOLEAN : Concludes(c, succeeded)
      BY <2>2
    <3>2. NoCall.phase # "rows"
      BY DEF NoCall
    <3>3. ~ (row[s] = Gone \/ s \in Unparsable)
      BY <3>1, <3>2 DEF Concludes, Throws, SetCall, ScheduleInvariant, Types
    <3>4. \E status : row' = [row EXCEPT ![s] = Row(status, NextRun(s, x.seen, x.at))]
      BY <3>1, <3>3 DEF Concludes
    <3>5. QED
      BY <2>1, <3>4 DEF Row, ScheduleInvariant, Types, WorldTypes
  <2>4. n \in NextRun(s, x.seen, x.at)
    BY <2>1, <2>3 DEF Row, ScheduleInvariant, Types, WorldTypes
  <2> DEFINE seeds == IF x.seen.next = {} THEN {x.at} ELSE x.seen.next
  <2>5. PICK seed \in 0 .. (MaxTime + Interval) : seeds = {seed}
    BY <2>1 DEF CallRecords, RowRecords, Times
  <2>6. n = NextOccurrence(seed, x.at) /\ x.at \in Nat /\ seed \in Nat
    BY <2>1, <2>4, <2>5 DEF NextRun, CallRecords
  <2>7. n > x.at /\ (n - seed) % Interval = 0
    BY <2>6, NextOccurrenceIsNext
  <2>8. \A t \in x.seen.next : t = seed
    BY <2>5
  <2>9. QED
    BY <2>7, <2>8
<1>2. QED
  BY <1>1, InvariantHolds, PTL DEF Spec, AttemptMovesOn
=============================================================================
