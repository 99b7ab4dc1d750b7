---------------------------- MODULE SessionRuns ----------------------------
(***************************************************************************)
(* The runs of one session: runtime.run with the session record, the       *)
(* transcript, the marker of the active run, cancellation requests, the    *)
(* retention sweep.  The session lock is taken as the mutex that           *)
(* SessionLock implements until a reclaim removes another's lock file; a   *)
(* dead process leaves it behind.                                          *)
(*                                                                         *)
(* runtime.run does not await the promise it returns from its try block:   *)
(* the finally block goes on beside the run's body.  A run is therefore    *)
(* two threads here, stage and body.  The cancellation watch is stopped in *)
(* the very step that starts the body, before its first poll, so that no   *)
(* action polls it.                                                        *)
(***************************************************************************)
EXTENDS Naturals, Sequences, SequencesExt

CONSTANTS Runs,
          NoRun,
          MaxCrashes,    \* bound: deaths of the process
          MaxRequests    \* bound: cancellation requests

ASSUME RunsAssumption == NoRun \notin Runs
ASSUME BoundsAssumption == MaxCrashes \in Nat /\ MaxRequests \in Nat

VARIABLES lock,        \* who holds the session lock
          record,      \* the session record
          transcript,  \* the transcript file
          active,      \* the run the active file names
          cancel,      \* the run the cancellation file names
          stage,       \* stage[r]: run r in runtime.run itself
          body,        \* body[r]: run r in the body it started
          request,     \* the cancellation request in progress
          crashes, requests

vars == <<lock, record, transcript, active, cancel, stage, body,
          request, crashes, requests>>

files == <<record, transcript, active, cancel>>
control == <<request, requests>>

Sweeping == {"sweep lock", "sweep record", "sweep transcript", "sweep release"}
Holding == {"mark", "clear request", "start", "clean request", "clean marker", "release"}
Stages == {"new", "lock", "done", "refused", "dead"} \cup Sweeping \cup Holding

Preparing == {"prepare", "ask"}
Ended == {"none", "ended", "dead"}
Bodies == {"execute", "reply", "update", "report", "report update"} \cup Preparing \cup Ended

NoRequest == [at |-> "none", run |-> NoRun, repeated |-> FALSE]

Init == /\ lock = NoRun
        /\ record \in {"none", "stale"}   \* a session of long ago
        /\ transcript = <<>>
        /\ active = NoRun
        /\ cancel = NoRun
        /\ stage = [r \in Runs |-> "new"]
        /\ body = [r \in Runs |-> "none"]
        /\ request = NoRequest
        /\ crashes = 0
        /\ requests = 0

ToStage(r, s) == stage' = [stage EXCEPT ![r] = s]
ToBody(r, b) == body' = [body EXCEPT ![r] = b]
Say(r, role) == transcript' = Append(transcript, [run |-> r, role |-> role])

\* A dead holder's lock file can be reclaimed.
LockFree == lock \in {NoRun} \cup {r \in Runs : stage[r] = "dead"}
-----------------------------------------------------------------------------
(* pruneRunHistoryIfDue: one process sweeps at a time, under its own lock; *)
(* it may not be due, and its errors are swallowed.                        *)
SkipSweep(r) ==
    /\ stage[r] = "new"
    /\ ToStage(r, "lock")
    /\ UNCHANGED <<lock, files, body, control, crashes>>

BeginSweep(r) ==
    /\ stage[r] = "new" /\ record = "stale"
    /\ \A other \in Runs : stage[other] \notin Sweeping
    /\ ToStage(r, "sweep lock")
    /\ UNCHANGED <<lock, files, body, control, crashes>>

(* Mutant: the sweep goes on when the session's lock cannot be had. *)
SweepLocksIgnoringTimeout(r) ==
    /\ stage[r] = "sweep lock"
    /\ ToStage(r, "sweep record")
    /\ UNCHANGED <<lock, files, body, control, crashes>>
(* With the lock the record is judged again; without it the sweep goes on  *)
(* to other sessions. *)
SweepLocks(r) ==
    /\ stage[r] = "sweep lock"
    /\ \/ /\ LockFree
          /\ lock' = r
          /\ ToStage(r, IF record = "stale" THEN "sweep record" ELSE "sweep release")
       \/ lock # NoRun /\ ToStage(r, "lock") /\ UNCHANGED lock
    /\ UNCHANGED <<files, body, control, crashes>>

SweepRemovesRecord(r) ==
    /\ stage[r] = "sweep record"
    /\ record' = "none"
    /\ ToStage(r, "sweep transcript")
    /\ UNCHANGED <<lock, transcript, active, cancel, body, control, crashes>>

SweepRemovesTranscript(r) ==
    /\ stage[r] = "sweep transcript"
    /\ transcript' = <<>>
    /\ ToStage(r, "sweep release")
    /\ UNCHANGED <<lock, record, active, cancel, body, control, crashes>>

SweepFails(r) ==
    /\ stage[r] \in {"sweep record", "sweep transcript"}
    /\ ToStage(r, "sweep release")
    /\ UNCHANGED <<lock, files, body, control, crashes>>

SweepReleases(r) ==
    /\ stage[r] = "sweep release"
    /\ lock' = NoRun
    /\ ToStage(r, "lock")
    /\ UNCHANGED <<files, body, control, crashes>>
-----------------------------------------------------------------------------
(* Mutant: the deadline is not looked at. *)
AwaitsLock(r) ==
    /\ stage[r] = "lock"
    /\ LockFree
    /\ lock' = r
    /\ ToStage(r, "mark")
    /\ UNCHANGED <<files, body, control, crashes>>
AcquiresLock(r) ==
    /\ stage[r] = "lock"
    /\ \/ LockFree /\ lock' = r /\ ToStage(r, "mark")
       \/ lock # NoRun /\ ToStage(r, "refused") /\ UNCHANGED lock   \* SESSION_LOCK_TIMEOUT
    /\ UNCHANGED <<files, body, control, crashes>>

MarksActive(r) ==
    /\ stage[r] = "mark"
    /\ active' = r
    /\ ToStage(r, "clear request")
    /\ UNCHANGED <<lock, record, transcript, cancel, body, control, crashes>>

ClearsRequest(r) ==
    /\ stage[r] = "clear request"
    /\ cancel' = NoRun
    /\ ToStage(r, "start")
    /\ UNCHANGED <<lock, record, transcript, active, body, control, crashes>>

(* A marker that cannot be written, a request that cannot be cleared. *)
MarkFails(r) ==
    /\ stage[r] \in {"mark", "clear request"}
    /\ ToStage(r, "clean request")
    /\ UNCHANGED <<lock, files, body, control, crashes>>

(* The body starts, and the finally block stops the watch and goes on.     *)
StartsBody(r) ==
    /\ stage[r] = "start"
    /\ ToBody(r, "prepare")
    /\ ToStage(r, "clean request")
    /\ UNCHANGED <<lock, files, control, crashes>>

CleansRequest(r) ==
    /\ stage[r] = "clean request"
    /\ cancel' = NoRun
    /\ ToStage(r, "clean marker")
    /\ UNCHANGED <<lock, record, transcript, active, body, control, crashes>>

(* Mutant: the marker is left to the next run. *)
CleansMarkerLater(r) ==
    /\ stage[r] = "clean marker"
    /\ ToStage(r, "release")
    /\ UNCHANGED <<lock, files, body, control, crashes>>
CleansMarker(r) ==
    /\ stage[r] = "clean marker"
    /\ active' = NoRun
    /\ ToStage(r, "release")
    /\ UNCHANGED <<lock, record, transcript, cancel, body, control, crashes>>

ReleasesLock(r) ==
    /\ stage[r] = "release"
    /\ lock' = NoRun
    /\ ToStage(r, "done")
    /\ UNCHANGED <<files, body, control, crashes>>

(* A failing step of the finally block skips those after it. *)
CleaningFails(r) ==
    /\ stage[r] \in {"clean request", "clean marker", "release"}
    /\ ToStage(r, "done")
    /\ UNCHANGED <<lock, files, body, control, crashes>>
-----------------------------------------------------------------------------
(* prepareSession writes the record with a new updatedAt; the transcript   *)
(* is read, memory searched and the context built from them.               *)
Prepares(r) ==
    /\ body[r] = "prepare"
    /\ record' = "fresh"
    /\ ToBody(r, "ask")
    /\ UNCHANGED <<lock, transcript, active, cancel, stage, control, crashes>>

(* An error before the inner try block leaves no entry behind. *)
PreparationFails(r) ==
    /\ body[r] \in Preparing
    /\ ToBody(r, "ended")
    /\ UNCHANGED <<lock, files, stage, control, crashes>>

(* The user's entry is saved and the execution begins: ProviderCalls. *)
Asks(r) ==
    /\ body[r] = "ask"
    /\ Say(r, "user")
    /\ ToBody(r, "execute")
    /\ UNCHANGED <<lock, record, active, cancel, stage, control, crashes>>

(* It succeeds, or it fails, times out or is aborted by the caller. *)
Executes(r) ==
    /\ body[r] = "execute"
    /\ ToBody(r, "reply") \/ ToBody(r, "report")
    /\ UNCHANGED <<lock, files, stage, control, crashes>>

Replies(r) ==
    /\ body[r] = "reply"
    /\ Say(r, "reply")
    /\ ToBody(r, "update")
    /\ UNCHANGED <<lock, record, active, cancel, stage, control, crashes>>

(* updateSessionMetadata leaves a record that is gone alone. *)
Touch == record' = IF record = "none" THEN "none" ELSE "fresh"

UpdatesSession(r) ==
    /\ body[r] \in {"update", "report update"}
    /\ Touch
    /\ ToBody(r, "ended")
    /\ UNCHANGED <<lock, transcript, active, cancel, stage, control, crashes>>

(* An error of the inner try block, the update's included, is reported.    *)
SavingFails(r) ==
    /\ body[r] \in {"reply", "update"}
    /\ ToBody(r, "report")
    /\ UNCHANGED <<lock, files, stage, control, crashes>>

Reports(r) ==
    /\ body[r] = "report"
    /\ Say(r, "error")
    /\ ToBody(r, "report update")
    /\ UNCHANGED <<lock, record, active, cancel, stage, control, crashes>>

(* Mutant: a report whose update failed is made again. *)
ReportsAgain(r) ==
    /\ body[r] \in {"report", "report update"}
    /\ ToBody(r, IF body[r] = "report" THEN "ended" ELSE "report")
    /\ UNCHANGED <<lock, files, stage, control, crashes>>
ReportFails(r) ==
    /\ body[r] \in {"report", "report update"}
    /\ ToBody(r, "ended")
    /\ UNCHANGED <<lock, files, stage, control, crashes>>
-----------------------------------------------------------------------------
(* requestCancellationByRunId finds the run among the active markers (one  *)
(* it does not find is "not-running") and looks whether the session has a  *)
(* cancellation file already.                                              *)
RequestsCancellation(r) ==
    /\ request = NoRequest /\ requests < MaxRequests
    /\ active = r
    /\ request' = [at |-> "found", run |-> r, repeated |-> cancel # NoRun]
    /\ requests' = requests + 1
    /\ UNCHANGED <<lock, files, stage, body, crashes>>

(* requestCancellation looks for the session's marker again and reads it.  *)
ReadsMarker ==
    /\ request.at = "found"
    /\ request' = IF active = NoRun THEN NoRequest
                  ELSE [request EXCEPT !.at = "post", !.run = active]
    /\ UNCHANGED <<lock, files, stage, body, requests, crashes>>

PostsRequest ==
    /\ request.at = "post"
    /\ cancel' = request.run
    /\ request' = IF request.repeated THEN [request EXCEPT !.at = "clear"] ELSE NoRequest
    /\ UNCHANGED <<lock, record, transcript, active, stage, body, requests, crashes>>

(* A repeated request takes the marker for an orphan, whosever it is now.  *)
ClearsOrphan ==
    /\ request.at = "clear"
    /\ active' = NoRun
    /\ request' = NoRequest
    /\ UNCHANGED <<lock, record, transcript, cancel, stage, body, requests, crashes>>

Crash ==
    /\ crashes < MaxCrashes
    /\ crashes' = crashes + 1
    /\ stage' = [r \in Runs |-> IF stage[r] \in {"new", "done", "refused"} /\ lock # r
                                THEN stage[r] ELSE "dead"]
    /\ body' = [r \in Runs |-> IF body[r] \in Ended THEN body[r] ELSE "dead"]
    /\ request' = NoRequest
    /\ UNCHANGED <<lock, files, requests>>

Main(r) ==
    \/ SkipSweep(r) \/ BeginSweep(r) \/ SweepLocks(r)
    \/ SweepRemovesRecord(r) \/ SweepRemovesTranscript(r) \/ SweepFails(r)
    \/ SweepReleases(r) \/ AcquiresLock(r) \/ MarksActive(r) \/ ClearsRequest(r)
    \/ MarkFails(r) \/ StartsBody(r) \/ CleansRequest(r) \/ CleansMarker(r) \/ ReleasesLock(r)
    \/ CleaningFails(r)

Body(r) ==
    \/ Prepares(r) \/ PreparationFails(r) \/ Asks(r)
    \/ Executes(r) \/ Replies(r) \/ UpdatesSession(r) \/ SavingFails(r)
    \/ Reports(r) \/ ReportFails(r)

Next == \/ ReadsMarker \/ PostsRequest \/ ClearsOrphan \/ Crash
        \/ \E r \in Runs : \/ Main(r) \/ Body(r) \/ RequestsCancellation(r)

Spec == Init /\ [][Next]_vars

(* File calls are answered, timers fire, callers begin; a provider need    *)
(* not answer, and nobody need abort, ask for a cancellation or crash.     *)
FairSpec == Spec /\ \A r \in Runs : WF_vars(Main(r)) /\ WF_vars(Body(r))
-----------------------------------------------------------------------------
Entries == [run : Runs, role : {"user", "reply", "error"}]

SessionTypeOK ==
    /\ lock \in Runs \cup {NoRun} /\ active \in Runs \cup {NoRun} /\ cancel \in Runs \cup {NoRun}
    /\ record \in {"none", "stale", "fresh"}
    /\ transcript \in Seq(Entries)
    /\ stage \in [Runs -> Stages] /\ body \in [Runs -> Bodies]
    /\ request \in [at : {"none", "found", "post", "clear"}, run : Runs \cup {NoRun}, repeated : BOOLEAN]
    /\ crashes \in 0..MaxCrashes /\ requests \in 0..MaxRequests

(* A marker names the run that holds the session lock, or one of a dead    *)
(* process; markRunActive and clearRunActive of two runs never mix, so no  *)
(* run takes another's marker away.                                        *)
MarkerOfHolder == active # NoRun => lock = active \/ stage[active] = "dead"

(* The sweep removes nothing of a session while a run is in the part of    *)
(* runtime.run that the session lock covers.                               *)
SweepSparesHolders ==
    \A r, s \in Runs :
        stage[r] \in Holding => stage[s] \notin {"sweep record", "sweep transcript"}

Rank == [user |-> 1, reply |-> 2, error |-> 3]

(* Of one run the transcript has a question, then perhaps an answer, then  *)
(* perhaps an error, each once: an answer that comes after the timeout, a  *)
(* retry or a fallback adds nothing.                                       *)
TurnsInOrder ==
    \A i, j \in DOMAIN transcript :
        i < j /\ transcript[i].run = transcript[j].run
        => Rank[transcript[i].role] < Rank[transcript[j].role]

(* Every run that is begun returns, and its body comes to its end, whoever *)
(* dies, fails to answer or keeps the lock.                                *)
EveryRunEnds ==
    \A r \in Runs :
        stage[r] # "new" ~> stage[r] \in {"done", "refused", "dead"} /\ body[r] \in Ended

(* What the session lock is there for: a run's entries stand together in   *)
(* the transcript.                                                         *)
TurnsSerialized ==
    \A i \in DOMAIN transcript :
        transcript[i].role = "user" /\ i < Len(transcript)
        => transcript[i + 1].run = transcript[i].run
=============================================================================
