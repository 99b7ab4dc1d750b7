----------------------------- MODULE Schedules -----------------------------
(***************************************************************************)
(* LocalScheduleService and the ScheduleManager beneath it.  The schedules *)
(* of the app-state database run a task or instantiate a workflow          *)
(* template; the older ones of the file tasks.json send an input to a      *)
(* session.  There is no scheduler loop: the API's tick route and the      *)
(* command line call runDue, in processes that share the database, the     *)
(* file and the lock files, but not the sets of running ids.  The file's   *)
(* handler runs against a timer that ends the wait for it, not the handler.*)
(***************************************************************************)
EXTENDS Integers, Sequences, FiniteSets, SequencesExt

CONSTANTS
    TaskSchedules, TemplateSchedules,  \* rows of the table schedules
    FileSchedules,                     \* entries of tasks.json
    Recurring,     \* the rows with an rrule
    Unparsable,    \* the rows whose rrule upsert takes and parseRRule rejects
    Clients,       \* callers: of run by hand, or else of runDue,
    HandClients,   \* and of these some call again and again
    CronClients,
    ProcessOf,     \* ProcessOf[c]: the process client c calls in
    Interval,      \* the recurrence interval, in units of the clock
    ListLimit,     \* the most rows a tick reads, clampAppStateListLimit's default
    MaxTime,       \* bound: the clock
    MaxEdits,      \* bound: what people do
    MaxCrashes     \* bound: crashes of processes

Rows == TaskSchedules \cup TemplateSchedules
Ids == Rows \cup FileSchedules
Processes == {ProcessOf[c] : c \in Clients}
Nobody == "nobody"
Leftover == "leftover"   \* the owner of a lock file whose process is dead

ASSUME SchedulesAssumption ==
    /\ IsFiniteSet(Ids) /\ {Nobody, Leftover} \cap Clients = {}
    /\ TaskSchedules \cap TemplateSchedules = {} /\ Rows \cap FileSchedules = {}
    /\ Unparsable \subseteq Recurring /\ Recurring \subseteq Rows
    /\ ProcessOf \in [Clients -> Processes]
    /\ HandClients \subseteq Clients /\ CronClients \subseteq Clients \ HandClients
    /\ Interval \in Nat \ {0} /\ ListLimit \in Nat \ {0}
    /\ MaxTime \in Nat /\ MaxEdits \in Nat /\ MaxCrashes \in Nat

VARIABLES now,
          row,       \* row[s]: the row, or the entry, of schedule s
          recent,    \* the rows in the order of the list, by updated_at desc
          task,      \* task[s]: the status of the task that schedule s runs
          running,   \* running[p]: runningAppStateScheduleIds and runningIds
          holder,    \* holder[s]: who wrote the lock file of s
          late,      \* late[c]: the entries whose handler c no longer waits for
          leaked,    \* leaked[p]: history, the ids added before a lock that failed
          call,      \* call[c]: the call that client c is in
          edits, crashes
store == <<row, recent, task>>
entries == <<holder, late, leaked>>
vars == <<now, store, running, entries, call, edits, crashes>>

Gone == [status |-> "gone", next |-> {}]   \* no such row
Row(status, next) == [status |-> status, next |-> next]

(* nextRunAt may be missing: it is a set of at most one time. *)
Due(s, at) == row[s].status = "active" /\ \E n \in row[s].next : n <= at

(* A call: the schedules it still has to run, the tick's time, and the     *)
(* schedule it is running with the row it read before.                     *)
NoCall == [phase |-> "idle", tick |-> FALSE, due |-> <<>>, at |-> 0, seen |-> Gone]
Current(c) == Head(call[c].due)
Me(c) == running[ProcessOf[c]]

Init == /\ now = 0
        /\ row \in [Ids -> {Gone, Row("active", {0})}]
        /\ recent \in SetToSeqs({s \in Rows : row[s] # Gone})
        /\ task = [s \in TaskSchedules |-> "ready"]
        /\ running = [p \in Processes |-> {}]
        /\ holder = [s \in FileSchedules |-> Nobody]
        /\ late = [c \in Clients |-> {}]
        /\ leaked = [p \in Processes |-> {}]
        /\ call = [c \in Clients |-> NoCall]
        /\ edits = 0 /\ crashes = 0

SetCall(c, next) == call' = [call EXCEPT ![c] = next]

Remember(c, s) == running' = [running EXCEPT ![ProcessOf[c]] = @ \cup {s}]
Forget(c, s) == running' = [running EXCEPT ![ProcessOf[c]] = @ \ {s}]

(* The one sequence of some of the rows in the order of the list. *)
InListOrder(some) ==
    {o \in SetToSeqs(some) :
        \A i, j \in DOMAIN o : i < j =>
           \E k, l \in DOMAIN recent : k < l /\ recent[k] = o[i] /\ recent[l] = o[j]}
Others(s) == ToSet(recent) \ {s}

Touch(s) == \E o \in InListOrder(Others(s)) : recent' = <<s>> \o o

Phase(c, phase) == call[c].phase = phase

(* On to the next schedule of the call. *)
Advance(c, phase) == SetCall(c, [call[c] EXCEPT !.phase = phase, !.due = Tail(@),
                                                !.seen = Gone])
-----------------------------------------------------------------------------
(* runDue: the due rows are read once, the latest first and no more than   *)
(* the limit, for any time that the request names.  The bound counts the   *)
(* ticks of people.                                                        *)
UpToLimit(o) == SubSeq(o, 1, IF Len(o) > ListLimit THEN ListLimit ELSE Len(o))
Ticks(c, at) ==
    /\ Phase(c, "idle")
    /\ \E o \in InListOrder({s \in ToSet(recent) : Due(s, at)}) :
          SetCall(c, [NoCall EXCEPT !.phase = "rows", !.tick = TRUE, !.at = at,
                                    !.due = UpToLimit(o)])
    /\ IF c \in CronClients THEN UNCHANGED edits ELSE edits < MaxEdits /\ edits' = edits + 1
    /\ UNCHANGED <<now, store, running, entries, crashes>>

(* run(id): due or not, paused or not. *)
RunsByHand(c, s) ==
    /\ Phase(c, "idle") /\ edits < MaxEdits
    /\ row[s] # Gone
    /\ SetCall(c, [NoCall EXCEPT !.phase = IF s \in Rows THEN "rows" ELSE "file",
                                 !.at = now, !.due = <<s>>])
    /\ edits' = edits + 1
    /\ UNCHANGED <<now, store, running, entries, crashes>>

Throws(c) == SetCall(c, NoCall)

(* Answers "already-running". *)
SkipsRunning(c) ==
    /\ call[c].phase \in {"rows", "file"} /\ call[c].due # <<>>
    /\ Current(c) \in Me(c)
    /\ Advance(c, call[c].phase)
    /\ UNCHANGED <<now, store, running, entries, edits, crashes>>

(* runAppStateSchedule up to the wait for its target.  The row is read     *)
(* anew, but neither its status nor its nextRunAt is looked at.  A task    *)
(* must be ready; a template becomes a fresh mission.  (For agents whose   *)
(* runTask awaits nothing before it launches them.)                        *)
(* Mutant: the set of running ids is not looked at. *)
StartsUnguarded(c) ==
    /\ Phase(c, "rows") /\ call[c].due # <<>>
    /\ row[Current(c)] # Gone
    /\ Remember(c, Current(c))
    /\ SetCall(c, [call[c] EXCEPT !.phase = "running", !.seen = row[Current(c)]])
    /\ UNCHANGED <<now, store, entries, edits, crashes>>
Starts(c) ==
    /\ Phase(c, "rows") /\ call[c].due # <<>>
    /\ Current(c) \notin Me(c)
    /\ row[Current(c)] # Gone
    /\ Remember(c, Current(c))
    /\ LET s == Current(c)
           refused == s \in TaskSchedules /\ task[s] # "ready"
       IN  /\ SetCall(c, [call[c] EXCEPT !.phase = IF refused THEN "refused" ELSE "running",
                                         !.seen = row[s]])
           /\ task' = IF s \in TaskSchedules /\ ~ refused
                      THEN [task EXCEPT ![s] = "running"] ELSE task
    /\ UNCHANGED <<now, row, recent, entries, edits, crashes>>

(* The row was deleted since the list was read: the whole call fails, and  *)
(* with it the schedules it still had to run.                              *)
FindsNothing(c) ==
    /\ Phase(c, "rows") /\ call[c].due # <<>>
    /\ Current(c) \notin Me(c)
    /\ row[Current(c)] = Gone
    /\ Throws(c)
    /\ UNCHANGED <<now, store, running, entries, edits, crashes>>

(* nextRunAfterRRule: the first occurrence after the tick's time. *)
(* Mutant: an occurrence at the tick's very time counts. *)
NextOccurrenceFrom(seed, at) ==
    IF seed >= at THEN seed ELSE seed + ((at - seed + Interval - 1) \div Interval) * Interval
NextOccurrence(seed, at) ==
    IF seed > at THEN seed ELSE seed + ((at - seed) \div Interval + 1) * Interval

NextRun(s, seen, at) ==
    IF s \notin Recurring THEN {}
    ELSE {NextOccurrence(seed, at) : seed \in IF seen.next = {} THEN {at} ELSE seen.next}

(* The row gets the verdict and the next occurrence, both computed from    *)
(* the row as it was at the start; whatever was written meanwhile is       *)
(* overwritten.  If the row is gone or its rrule cannot be parsed, nothing *)
(* is written and the call fails.                                          *)
Concludes(c, succeeded) ==
    LET s == Current(c)
        next == NextRun(s, call[c].seen, call[c].at)
    IN  /\ Forget(c, s)
        /\ IF row[s] = Gone \/ s \in Unparsable
           THEN Throws(c) /\ UNCHANGED <<row, recent>>
           ELSE /\ row' = [row EXCEPT ![s] =
                      Row(IF ~ succeeded THEN "error"
                          ELSE IF next = {} THEN "disabled" ELSE "active", next)]
                /\ Touch(s)
                /\ Advance(c, "rows")

TargetEnds(c, succeeded) ==
    /\ Phase(c, "running")
    /\ Concludes(c, succeeded)
    /\ task' = IF Current(c) \notin TaskSchedules THEN task
               ELSE [task EXCEPT ![Current(c)] = IF succeeded THEN "completed" ELSE "failed"]
    /\ UNCHANGED <<now, entries, edits, crashes>>

TargetRefuses(c) ==
    /\ Phase(c, "refused")
    /\ Concludes(c, FALSE)
    /\ UNCHANGED <<now, task, entries, edits, crashes>>

(* After the rows a tick turns to the file, with the tick's own time. *)
EndsRows(c) ==
    /\ Phase(c, "rows") /\ call[c].due = <<>>
    /\ IF call[c].tick
       THEN \E o \in SetToSeqs({s \in FileSchedules : Due(s, call[c].at)}) :
               SetCall(c, [call[c] EXCEPT !.phase = "file", !.due = o])
       ELSE SetCall(c, NoCall)
    /\ UNCHANGED <<now, store, running, entries, edits, crashes>>
-----------------------------------------------------------------------------
(* ScheduleManager.runTask.  The id is remembered before the lock of the   *)
(* entry is asked for, and outside the try block.                          *)
Claims(c) ==
    /\ Phase(c, "file") /\ call[c].due # <<>>
    /\ Current(c) \notin Me(c)
    /\ Remember(c, Current(c))
    /\ SetCall(c, [call[c] EXCEPT !.phase = "locking"])
    /\ UNCHANGED <<now, store, entries, edits, crashes>>

To(c, phase) == SetCall(c, [call[c] EXCEPT !.phase = phase])
InFile(c, from) == call[c].phase \in from /\ UNCHANGED <<now, recent, task, edits, crashes>>

(* The read of the file, and the note of a skipped run, may fail. *)
FileFails(c) ==
    /\ \/ Phase(c, "rows") /\ call[c].due = <<>> /\ call[c].tick
       \/ Phase(c, "file") /\ call[c].due # <<>> /\ Current(c) \in Me(c)
    /\ Throws(c)
    /\ UNCHANGED <<now, store, running, entries, edits, crashes>>

(* acquireSessionLock, without the detail of SessionLock: the file of a    *)
(* dead owner is judged and then removed, whoever has written it since.    *)
Locks(c) ==
    /\ InFile(c, {"locking"})
    /\ holder[Current(c)] = Nobody
    /\ holder' = [holder EXCEPT ![Current(c)] = c]
    /\ To(c, "marking")
    /\ UNCHANGED <<row, running, late, leaked>>

JudgesLock(c) ==
    /\ InFile(c, {"locking"})
    /\ holder[Current(c)] = Leftover
    /\ To(c, "reclaiming")
    /\ UNCHANGED <<row, running, entries>>

ReclaimsLock(c) ==
    /\ InFile(c, {"reclaiming"})
    /\ holder' = [holder EXCEPT ![Current(c)] = Nobody]
    /\ To(c, "locking")
    /\ UNCHANGED <<row, running, late, leaked>>

(* It gives up after 15 seconds, or a file operation fails: the id stays.  *)
LockFails(c) ==
    /\ InFile(c, {"locking", "reclaiming"})
    /\ leaked' = [leaked EXCEPT ![ProcessOf[c]] = @ \cup {Current(c)}]
    /\ Throws(c)
    /\ UNCHANGED <<row, running, holder, late>>

(* The entry is marked as running under the global lock. *)
Marks(c) ==
    /\ InFile(c, {"marking"})
    /\ row[Current(c)] # Gone
    /\ To(c, "handling")
    /\ UNCHANGED <<row, running, entries>>

(* The entry is gone, or the global lock or the file fails. *)
MarkFails(c) ==
    /\ InFile(c, {"marking"})
    /\ Forget(c, Current(c))
    /\ To(c, "throwing")
    /\ UNCHANGED <<row, entries>>

HandlerEnds(c, succeeded) ==
    /\ InFile(c, {"handling"})
    /\ To(c, IF succeeded THEN "saving" ELSE "saving failure")
    /\ UNCHANGED <<row, running, entries>>

(* The timeout rejects the race and sets the signal; the handler goes on.  *)
HandlerTimesOut(c) ==
    /\ InFile(c, {"handling"})
    /\ late' = [late EXCEPT ![c] = @ \cup {Current(c)}]
    /\ To(c, "saving failure")
    /\ UNCHANGED <<row, running, holder, leaked>>

LateHandlerEnds(c, s) ==
    /\ s \in late[c]
    /\ late' = [late EXCEPT ![c] = @ \ {s}]
    /\ UNCHANGED <<now, store, running, holder, leaked, call, edits, crashes>>

(* The next run is reckoned from now, whatever the outcome.                *)
Saves(c) ==
    /\ InFile(c, {"saving", "saving failure"})
    /\ row' = IF row[Current(c)] = Gone THEN row
              ELSE [row EXCEPT ![Current(c)].next = {now + Interval}]
    /\ To(c, IF Phase(c, "saving") THEN "logging" ELSE "logging failure")
    /\ UNCHANGED <<running, entries>>

(* Whatever fails after a success is caught, and saved again as a failure. *)
Catches(c) ==
    /\ InFile(c, {"saving", "logging"})
    /\ To(c, "saving failure")
    /\ UNCHANGED <<row, running, entries>>

(* The finally block: the id is forgotten in the step that leaves the try  *)
(* block, and the lock released after it.                                  *)
(* Mutant: the id is forgotten after a success only. *)
LogsForgetfully(c) ==
    /\ InFile(c, {"logging", "logging failure"})
    /\ IF Phase(c, "logging") THEN Forget(c, Current(c)) ELSE UNCHANGED running
    /\ To(c, "returning")
    /\ UNCHANGED <<row, entries>>
Logs(c) ==
    /\ InFile(c, {"logging", "logging failure"})
    /\ Forget(c, Current(c))
    /\ To(c, "returning")
    /\ UNCHANGED <<row, entries>>

CatchFails(c) ==
    /\ InFile(c, {"saving failure", "logging failure"})
    /\ Forget(c, Current(c))
    /\ To(c, "throwing")
    /\ UNCHANGED <<row, entries>>

ReleasesLock(c) ==
    /\ InFile(c, {"returning", "throwing"})
    /\ holder' = [holder EXCEPT ![Current(c)] = Nobody]
    /\ IF Phase(c, "returning") THEN Advance(c, "file") ELSE Throws(c)
    /\ UNCHANGED <<row, running, late, leaked>>

(* The lock file stays, and its owner lives. *)
ReleaseFails(c) ==
    /\ InFile(c, {"returning", "throwing"})
    /\ Throws(c)
    /\ UNCHANGED <<row, running, entries>>

EndsCall(c) ==
    /\ Phase(c, "file") /\ call[c].due = <<>>
    /\ SetCall(c, NoCall)
    /\ UNCHANGED <<now, store, running, entries, edits, crashes>>
-----------------------------------------------------------------------------
(* People, the clock, and crashes. *)
Edit == /\ edits < MaxEdits
        /\ edits' = edits + 1
        /\ UNCHANGED <<now, running, entries, call, crashes>>

(* upsert and setScheduleEnabled.  The task of a schedule must be ready.   *)
Upserts(s) ==
    /\ Edit
    /\ s \in TaskSchedules => task[s] = "ready"
    /\ \E status \in {"active", "paused"}, n \in now .. (now + Interval) :
          row' = [row EXCEPT ![s] = Row(status, {n})]
    /\ IF s \in Rows THEN Touch(s) ELSE UNCHANGED recent
    /\ UNCHANGED task

Removes(s) ==
    /\ Edit
    /\ row[s] # Gone
    /\ row' = [row EXCEPT ![s] = Gone]
    /\ recent' \in InListOrder(Others(s))
    /\ UNCHANGED task

ReadiesTask(s) ==
    /\ Edit
    /\ task[s] # "ready"
    /\ task' = [task EXCEPT ![s] = "ready"]
    /\ UNCHANGED <<row, recent>>

TimePasses ==
    /\ now < MaxTime
    /\ now' = now + 1
    /\ UNCHANGED <<store, running, entries, call, edits, crashes>>

(* A process dies and starts again: its calls, handlers and sets are gone, *)
(* its lock files are stale, and the startup recovery fails the running    *)
(* tasks.                                                                  *)
Restarts(p) ==
    /\ crashes < MaxCrashes
    /\ crashes' = crashes + 1
    /\ running' = [running EXCEPT ![p] = {}]
    /\ leaked' = [leaked EXCEPT ![p] = {}]
    /\ holder' = [s \in FileSchedules |->
                     IF holder[s] \in Clients /\ ProcessOf[holder[s]] = p THEN Leftover
                     ELSE holder[s]]
    /\ late' = [c \in Clients |-> IF ProcessOf[c] = p THEN {} ELSE late[c]]
    /\ call' = [c \in Clients |-> IF ProcessOf[c] = p THEN NoCall ELSE call[c]]
    /\ task' = [s \in TaskSchedules |-> IF task[s] = "running" THEN "failed" ELSE task[s]]
    /\ UNCHANGED <<now, row, recent, edits>>

RowSteps(c) ==
    \/ SkipsRunning(c) \/ Starts(c) \/ FindsNothing(c)
    \/ TargetEnds(c, TRUE) \/ TargetEnds(c, FALSE) \/ TargetRefuses(c) \/ EndsRows(c)

FileSteps(c) ==
    \/ FileFails(c) \/ Claims(c)
    \/ Locks(c) \/ JudgesLock(c) \/ ReclaimsLock(c) \/ LockFails(c)
    \/ Marks(c) \/ MarkFails(c)
    \/ HandlerEnds(c, TRUE) \/ HandlerEnds(c, FALSE) \/ HandlerTimesOut(c)
    \/ Saves(c) \/ Catches(c) \/ Logs(c) \/ CatchFails(c)
    \/ ReleasesLock(c) \/ ReleaseFails(c) \/ EndsCall(c)

CallSteps(c) == RowSteps(c) \/ FileSteps(c)

(* CronClients tick with the present time, others with any. *)
Next == \/ \E c \in CronClients : Ticks(c, now)
        \/ \E c \in Clients \ (HandClients \cup CronClients), at \in 0 .. MaxTime : Ticks(c, at)
        \/ \E c \in HandClients, s \in Ids : RunsByHand(c, s)
        \/ \E c \in Clients : CallSteps(c)
        \/ \E c \in Clients, s \in FileSchedules : LateHandlerEnds(c, s)
        \/ \E s \in Ids : Upserts(s) \/ Removes(s)
        \/ \E s \in TaskSchedules : ReadiesTask(s)
        \/ TimePasses
        \/ \E p \in Processes : Restarts(p)

Spec == Init /\ [][Next]_vars

(* Targets have a maximum runtime and handlers a timeout; something        *)
(* outside the program keeps ticking, and its reads of the file do not     *)
(* fail for ever.                                                          *)
FairSpec == /\ Spec
            /\ \A c \in Clients : WF_vars(CallSteps(c))
            /\ \A c \in CronClients : WF_vars(Ticks(c, now)) /\ SF_vars(EndsRows(c))
-----------------------------------------------------------------------------
RowPhases == {"running", "refused"}
EntryPhases == {"locking", "reclaiming", "marking", "handling", "saving", "saving failure",
                "logging", "logging failure"}
Serves(c, s) == call[c].phase \in RowPhases \cup EntryPhases /\ Current(c) = s

SchedulesTypeOK ==
    /\ now \in 0 .. MaxTime
    /\ \A s \in Ids : /\ row[s].status \in {"gone", "active", "paused", "disabled", "error"}
                      /\ row[s].next \in {{}} \cup {{n} : n \in 0 .. (MaxTime + Interval)}
    /\ recent \in Seq({s \in Rows : row[s] # Gone}) /\ IsInjective(recent)
    /\ task \in [TaskSchedules -> {"ready", "running", "completed", "failed"}]
    /\ running \in [Processes -> SUBSET Ids]
    /\ holder \in [FileSchedules -> Clients \cup {Nobody, Leftover}]
    /\ late \in [Clients -> SUBSET FileSchedules]
    /\ leaked \in [Processes -> SUBSET FileSchedules]
    /\ \A c \in Clients :
          /\ call[c].phase \in {"idle", "rows", "file", "returning", "throwing"}
                              \cup RowPhases \cup EntryPhases
          /\ call[c].phase \in RowPhases => call[c].seen # Gone
          /\ call[c].due \in Seq(Ids)

(* skip-if-running, within a process: the set of running ids holds what a  *)
(* call of the process serves, and nothing longer than that but the        *)
(* entries whose lock could not be had.                                    *)
GuardIsExact ==
    \A p \in Processes :
       running[p] = leaked[p] \cup {s \in Ids : \E c \in Clients : ProcessOf[c] = p /\ Serves(c, s)}

(* Within a process no schedule is served by two calls at once. *)
OneCallPerProcess ==
    \A c, d \in Clients, s \in Ids :
       c # d /\ ProcessOf[c] = ProcessOf[d] => ~ (Serves(c, s) /\ Serves(d, s))

(* The guard against overlap within a process, for rows and for the file.  *)
OverlapGuard == SchedulesTypeOK /\ GuardIsExact /\ OneCallPerProcess

(* Running flags clear always: no id outlives the call that added it.      *)
RunningFlagsClear ==
    \A p \in Processes : \A s \in running[p] :
       \E c \in Clients : ProcessOf[c] = p /\ Serves(c, s)

(* The handler of an entry of the file runs once at a time. *)
FileRunsExclusively ==
    \A c, d \in Clients, s \in FileSchedules :
       Phase(c, "handling") /\ Current(c) = s =>
          /\ Phase(d, "handling") /\ Current(d) = s => c = d
          /\ s \notin late[d]

(* An attempt moves the row past the tick that made it, on the grid of its *)
(* occurrences: the same tick time never makes it due again, and occur-    *)
(* rences that were missed are passed over.                                *)
AttemptMovesOn ==
    [][\A c \in Clients :
          call[c].phase \in RowPhases /\ call'[c].phase = "rows" =>
             \A n \in row'[Current(c)].next :
                /\ n > call[c].at
                /\ \A seed \in call[c].seen.next : (n - seed) % Interval = 0]_vars

(* A schedule that is due is served, or ceases to be due, as long as       *)
(* something keeps ticking in a process whose running ids have not kept    *)
(* it after a lock that could not be had.                                  *)
DueIsServed ==
    \A s \in Ids :
       Due(s, now) ~> \/ ~ Due(s, now)
                      \/ \E c \in Clients : Serves(c, s)
                      \/ \A c \in CronClients : s \in leaked[ProcessOf[c]]
=============================================================================
