------------------------- MODULE AgentRuntimeProofs -------------------------
(***************************************************************************)
(* Proofs about the agent runtime.  SessionRuns: how runs of one session   *)
(* share its lock, its transcript and its cancellation record.             *)
(* ProviderCalls, for every length of the provider order and every number  *)
(* of attempts: what a run calls, and when it gives up.                    *)
(***************************************************************************)
EXTENDS SessionRuns, ProviderCalls, SequenceTheorems, TLAPS

(* The steps under the lock are taken by its holder only, and a marker     *)
(* names a run that is past its own mark and has not cleared it.           *)
LockedSweep == Sweeping \ {"sweep lock"}

HoldersHold == \A r \in Runs : stage[r] \in Holding \cup LockedSweep => lock = r

Marked == {"clear request", "start", "clean request", "clean marker", "done", "dead"}

MarkersStand == active # NoRun => active \in Runs /\ stage[active] \in Marked

StagesTyped == stage \in [Runs -> Stages] /\ lock \in Runs \cup {NoRun}

LockInv == StagesTyped /\ HoldersHold /\ MarkersStand /\ MarkerOfHolder

LEMMA LockInvStep == ASSUME LockInv, [Next]_vars PROVE LockInv'
<1> USE RunsAssumption
    DEF LockInv, StagesTyped, HoldersHold, MarkersStand, MarkerOfHolder, LockedSweep, Marked,
        Stages, Sweeping, Holding, ToStage, ToBody, Say
<1>1. ASSUME NEW r \in Runs, SkipSweep(r) \/ BeginSweep(r) \/ SweepFails(r) PROVE LockInv'
  BY <1>1 DEF SkipSweep, BeginSweep, SweepFails, files
<1>2. ASSUME NEW r \in Runs, SweepLocks(r) PROVE LockInv'
  BY <1>2 DEF SweepLocks, LockFree, files
<1>3. ASSUME NEW r \in Runs, SweepRemovesRecord(r) \/ SweepRemovesTranscript(r) \/ SweepReleases(r)
      PROVE  LockInv'
  BY <1>3 DEF SweepRemovesRecord, SweepRemovesTranscript, SweepReleases, files
<1>4. ASSUME NEW r \in Runs, AcquiresLock(r) PROVE LockInv'
  BY <1>4 DEF AcquiresLock, LockFree, files
<1>5. ASSUME NEW r \in Runs, MarksActive(r) PROVE LockInv'
  BY <1>5 DEF MarksActive
<1>6. ASSUME NEW r \in Runs, ClearsRequest(r) \/ MarkFails(r) \/ StartsBody(r) PROVE LockInv'
  BY <1>6 DEF ClearsRequest, MarkFails, StartsBody, files
<1>7. ASSUME NEW r \in Runs, CleansRequest(r) \/ CleansMarker(r) PROVE LockInv'
  BY <1>7 DEF CleansRequest, CleansMarker
<1>8. ASSUME NEW r \in Runs, ReleasesLock(r) PROVE LockInv'
  BY <1>8 DEF ReleasesLock, files
<1>9. ASSUME NEW r \in Runs, CleaningFails(r) PROVE LockInv'
  BY <1>9 DEF CleaningFails, files
<1>10. ASSUME NEW r \in Runs, Body(r) PROVE LockInv'
  BY <1>10 DEF Body, Prepares, PreparationFails, Asks, Executes, Replies, UpdatesSession,
               SavingFails, Reports, ReportFails, files
<1>11. ASSUME NEW r \in Runs, RequestsCancellation(r) PROVE LockInv'
  BY <1>11 DEF RequestsCancellation, files
<1>12. CASE ReadsMarker \/ PostsRequest \/ ClearsOrphan
  BY <1>12 DEF ReadsMarker, PostsRequest, ClearsOrphan, files
<1>13. CASE Crash
  BY <1>13 DEF Crash, files
<1>14. CASE UNCHANGED vars
  BY <1>14 DEF vars
<1>15. QED
  BY <1>1, <1>2, <1>3, <1>4, <1>5, <1>6, <1>7, <1>8, <1>9, <1>10, <1>11, <1>12, <1>13, <1>14
     DEF Next, Main

LEMMA LockInvariance == Spec => []LockInv
<1>1. Init => LockInv
  BY DEF Init, LockInv, StagesTyped, HoldersHold, MarkersStand, MarkerOfHolder, LockedSweep,
         Stages, Sweeping, Holding
<1>2. LockInv /\ [Next]_vars => LockInv'
  BY LockInvStep
<1>3. QED
  BY <1>1, <1>2, PTL DEF Spec

(* Markers of active runs never mix: each is the lock holder's own, or was *)
(* left behind by a dead process.                                          *)
THEOREM MarkersBelongToHolders == Spec => []MarkerOfHolder
  BY LockInvariance, PTL DEF LockInv

(* The retention sweep stays out of the way of lock holders.               *)
THEOREM SweepIsExcluded == Spec => []SweepSparesHolders
<1>1. LockInv => SweepSparesHolders
  BY RunsAssumption DEF LockInv, HoldersHold, SweepSparesHolders, LockedSweep, Sweeping, Holding
<1>2. QED
  BY <1>1, LockInvariance, PTL

(***************************************************************************)
(* The transcript.  A run's body is begun once; the place of the body      *)
(* bounds the rank of the entries that the run can have written by then.   *)
(***************************************************************************)
Early == {"new", "lock", "mark", "clear request", "start"} \cup Sweeping

NotBegun == \A r \in Runs : stage[r] \in Early => body[r] = "none"

Spoken(b) == IF b \in {"none", "prepare", "ask"} THEN 0
             ELSE IF b \in {"execute", "reply"} THEN 1
             ELSE IF b \in {"update", "report"} THEN 2 ELSE 3

EntriesBounded ==
    \A i \in DOMAIN transcript : Rank[transcript[i].role] <= Spoken(body[transcript[i].run])

TurnsTyped ==
    stage \in [Runs -> Stages] /\ body \in [Runs -> Bodies] /\ transcript \in Seq(Entries)

TurnsInv == TurnsTyped /\ NotBegun /\ EntriesBounded /\ TurnsInOrder

LEMMA RanksTyped ==
    /\ \A role \in {"user", "reply", "error"} : Rank[role] \in {1, 2, 3}
    /\ \A b : Spoken(b) \in {0, 1, 2, 3}
BY DEF Rank, Spoken

LEMMA EntryTyped ==
    ASSUME TurnsInv, NEW i \in DOMAIN transcript
    PROVE  /\ transcript[i].run \in Runs /\ Rank[transcript[i].role] \in {1, 2, 3}
           /\ Rank[transcript[i].role] <= Spoken(body[transcript[i].run])
<1>1. transcript[i] \in Entries
  BY DEF TurnsInv, TurnsTyped
<1>2. transcript[i].run \in Runs /\ transcript[i].role \in {"user", "reply", "error"}
  BY <1>1 DEF Entries
<1>3. QED
  BY <1>2, RanksTyped DEF TurnsInv, EntriesBounded

(* A step of the body that says something ranks it above all it said. *)
LEMMA SaysInOrder ==
    ASSUME TurnsInv, NEW r \in Runs, NEW role \in {"user", "reply", "error"}, NEW b \in Bodies,
           Spoken(body[r]) < Rank[role], Rank[role] <= Spoken(b),
           Say(r, role), ToBody(r, b), stage' = stage, stage[r] \notin Early
    PROVE  TurnsInv'
<1> DEFINE entry == [run |-> r, role |-> role]
<1>1. entry \in Entries
  BY DEF Entries
<1>2. /\ transcript' \in Seq(Entries) /\ Len(transcript') = Len(transcript) + 1
      /\ \A i \in 1 .. Len(transcript) : transcript'[i] = transcript[i]
      /\ transcript'[Len(transcript) + 1] = entry
  BY <1>1, AppendProperties DEF Say, TurnsInv, TurnsTyped
<1>3. entry.run = r /\ entry.role = role
  OBVIOUS
<1> HIDE DEF entry
<1>4. DOMAIN transcript = 1 .. Len(transcript) /\ DOMAIN transcript' = 1 .. (Len(transcript) + 1)
      /\ Len(transcript) \in Nat
  BY <1>2 DEF TurnsInv, TurnsTyped
<1>5. TurnsTyped'
  BY <1>2 DEF TurnsInv, TurnsTyped, ToBody
<1>6. NotBegun'
  BY DEF TurnsInv, TurnsTyped, NotBegun, ToBody
<1>7. \A i \in DOMAIN transcript :
         /\ transcript[i].run \in Runs /\ Rank[transcript[i].role] \in {1, 2, 3}
         /\ Rank[transcript[i].role] <= Spoken(body[transcript[i].run])
  BY EntryTyped
<1>8. Rank[role] \in {1, 2, 3} /\ \A a : Spoken(a) \in {0, 1, 2, 3}
  BY RanksTyped
<1>9. body'[r] = b /\ \A s \in Runs \ {r} : body'[s] = body[s]
  BY DEF ToBody, TurnsInv, TurnsTyped
<1>10. EntriesBounded'
  <2> SUFFICES ASSUME NEW i \in DOMAIN transcript'
               PROVE  Rank[transcript'[i].role] <= Spoken(body'[transcript'[i].run])
    BY DEF EntriesBounded
  <2>1. CASE i = Len(transcript) + 1
    BY <1>2, <1>3, <1>9, <2>1
  <2>2. CASE i # Len(transcript) + 1
    <3>1. i \in DOMAIN transcript /\ transcript'[i] = transcript[i]
      BY <1>2, <1>4, <2>2
    <3>2. /\ Rank[transcript[i].role] <= Spoken(body[transcript[i].run])
          /\ transcript[i].run \in Runs
      BY <1>7, <3>1
    <3>3. CASE transcript[i].run = r
      <4>1. Spoken(body[r]) \in {0, 1, 2, 3} /\ Spoken(b) \in {0, 1, 2, 3}
        BY <1>8 DEF TurnsInv, TurnsTyped
      <4>2. QED
        BY <1>7, <1>8, <1>9, <3>1, <3>2, <3>3, <4>1
    <3>4. CASE transcript[i].run # r
      BY <1>9, <3>1, <3>2, <3>4
    <3>5. QED
      BY <3>3, <3>4
  <2>3. QED
    BY <2>1, <2>2
<1>11. TurnsInOrder'
  <2> SUFFICES ASSUME NEW i \in DOMAIN transcript', NEW j \in DOMAIN transcript', i < j,
                      transcript'[i].run = transcript'[j].run
               PROVE  Rank[transcript'[i].role] < Rank[transcript'[j].role]
    BY DEF TurnsInOrder
  <2>1. i \in DOMAIN transcript /\ transcript'[i] = transcript[i]
    BY <1>2, <1>4
  <2>2. CASE j = Len(transcript) + 1
    <3>1. transcript[i].run = r
      BY <1>2, <1>3, <2>1, <2>2
    <3>2. Rank[transcript[i].role] <= Spoken(body[r])
      BY <2>1, <3>1 DEF TurnsInv, EntriesBounded
    <3>3. Spoken(body[r]) \in {0, 1, 2, 3}
      BY <1>8 DEF TurnsInv, TurnsTyped
    <3>4. QED
      BY <1>2, <1>3, <1>7, <1>8, <2>1, <2>2, <3>2, <3>3
  <2>3. CASE j # Len(transcript) + 1
    <3>1. j \in DOMAIN transcript /\ transcript'[j] = transcript[j]
      BY <1>2, <1>4, <2>3
    <3>2. QED
      BY <2>1, <3>1 DEF TurnsInv, TurnsInOrder
  <2>4. QED
    BY <2>2, <2>3
<1>12. QED
  BY <1>5, <1>6, <1>10, <1>11 DEF TurnsInv

(* A step of the body that says nothing. *)
LEMMA SilentBodyStep ==
    ASSUME TurnsInv, NEW r \in Runs, NEW b \in Bodies, Spoken(body[r]) <= Spoken(b),
           transcript' = transcript, ToBody(r, b), stage' \in [Runs -> Stages],
           \A s \in Runs : stage'[s] \in Early => stage[s] \in Early /\ s # r
    PROVE  TurnsInv'
<1>1. TurnsTyped' /\ NotBegun'
  BY DEF TurnsInv, TurnsTyped, NotBegun, ToBody
<1>2. EntriesBounded'
  <2> SUFFICES ASSUME NEW i \in DOMAIN transcript
               PROVE  Rank[transcript[i].role] <= Spoken(body'[transcript[i].run])
    BY DEF EntriesBounded
  <2>1. /\ transcript[i].run \in Runs /\ Rank[transcript[i].role] \in {1, 2, 3}
        /\ Rank[transcript[i].role] <= Spoken(body[transcript[i].run])
    BY EntryTyped
  <2>2. Spoken(body[r]) \in {0, 1, 2, 3} /\ Spoken(b) \in {0, 1, 2, 3}
    BY RanksTyped
  <2>3. CASE transcript[i].run = r
    <3>1. body'[r] = b
      BY DEF ToBody, TurnsInv, TurnsTyped
    <3>2. QED
      BY <2>1, <2>2, <2>3, <3>1
  <2>4. CASE transcript[i].run # r
    BY <2>1, <2>4 DEF ToBody, TurnsInv, TurnsTyped
  <2>5. QED
    BY <2>3, <2>4
<1>3. TurnsInOrder'
  BY DEF TurnsInv, TurnsInOrder
<1>4. QED
  BY <1>1, <1>2, <1>3 DEF TurnsInv

(* A step of the run itself. *)
LEMMA StageStep ==
    ASSUME TurnsInv, body' = body, transcript' \in {transcript, <<>>}, stage' \in [Runs -> Stages],
           \A s \in Runs : stage'[s] \in Early => stage[s] \in Early
    PROVE  TurnsInv'
<1>1. NotBegun'
  BY DEF TurnsInv, NotBegun
<1>2. <<>> \in Seq(Entries) /\ \A i : i \notin DOMAIN <<>>
  OBVIOUS
<1>3. CASE transcript' = transcript
  BY <1>1, <1>3 DEF TurnsInv, TurnsTyped, EntriesBounded, TurnsInOrder
<1>4. CASE transcript' = <<>>
  <2>1. transcript' \in Seq(Entries) /\ \A i : i \notin DOMAIN transcript'
    BY <1>2, <1>4, Zenon
  <2>2. TurnsTyped'
    BY <2>1 DEF TurnsInv, TurnsTyped
  <2>3. EntriesBounded' /\ TurnsInOrder'
    BY <2>1, Zenon DEF EntriesBounded, TurnsInOrder
  <2>4. QED
    BY <1>1, <2>2, <2>3 DEF TurnsInv
<1>5. QED
  BY <1>3, <1>4

LEMMA TurnsInvStep == ASSUME TurnsInv, [Next]_vars PROVE TurnsInv'
<1>1. ASSUME NEW r \in Runs, Main(r), ~ StartsBody(r) PROVE TurnsInv'
  <2>1. body' = body /\ transcript' \in {transcript, <<>>}
    BY <1>1
    DEF Main, SkipSweep, BeginSweep, SweepLocks, SweepRemovesRecord, SweepRemovesTranscript,
        SweepFails, SweepReleases, AcquiresLock, MarksActive, ClearsRequest, MarkFails,
        CleansRequest, CleansMarker, ReleasesLock, CleaningFails, files
  <2>2. \E s \in Stages : ToStage(r, s) /\ (s \in Early => stage[r] \in Early)
    <3>1. \A s \in Early : s \in Stages
      BY DEF Early, Stages, Sweeping, Holding
    <3>2. CASE SkipSweep(r) \/ BeginSweep(r) \/ SweepLocks(r) \/ SweepRemovesRecord(r)
               \/ SweepRemovesTranscript(r) \/ SweepFails(r) \/ SweepReleases(r)
      BY <3>1, <3>2
      DEF SkipSweep, BeginSweep, SweepLocks, SweepRemovesRecord, SweepRemovesTranscript,
          SweepFails, SweepReleases, Early, Sweeping
    <3>3. CASE AcquiresLock(r)
      BY <3>3 DEF AcquiresLock, Early, Stages, Holding
    <3>4. CASE MarksActive(r) \/ ClearsRequest(r) \/ MarkFails(r)
      <4>1. /\ stage[r] \in {"mark", "clear request"}
            /\ ToStage(r, "clear request") \/ ToStage(r, "start") \/ ToStage(r, "clean request")
        BY <3>4 DEF MarksActive, ClearsRequest, MarkFails
      <4>2. {"clear request", "start", "clean request"} \subseteq Stages
        BY DEF Stages, Holding
      <4>3. stage[r] \in Early
        BY <4>1 DEF Early
      <4>4. QED
        BY <4>1, <4>2, <4>3
    <3>5. CASE CleansRequest(r) \/ CleansMarker(r) \/ ReleasesLock(r) \/ CleaningFails(r)
      <4>1. ToStage(r, "clean marker") \/ ToStage(r, "release") \/ ToStage(r, "done")
        BY <3>5, Zenon DEF CleansRequest, CleansMarker, ReleasesLock, CleaningFails
      <4>2. {"clean marker", "release", "done"} \subseteq Stages
        BY DEF Stages, Holding
      <4>3. "clean marker" \notin Early /\ "release" \notin Early /\ "done" \notin Early
        BY DEF Early, Sweeping
      <4>4. QED
        BY <4>1, <4>2, <4>3, Zenon
    <3>6. QED
      BY <1>1, <3>2, <3>3, <3>4, <3>5 DEF Main
  <2>3. stage' \in [Runs -> Stages] /\ \A s \in Runs : stage'[s] \in Early => stage[s] \in Early
    BY <2>2 DEF ToStage, TurnsInv, TurnsTyped
  <2>4. QED
    BY <2>1, <2>3, StageStep
<1>2. ASSUME NEW r \in Runs, StartsBody(r) PROVE TurnsInv'
  <2>1. /\ ToBody(r, "prepare") /\ ToStage(r, "clean request") /\ transcript' = transcript
        /\ stage[r] = "start"
    BY <1>2 DEF StartsBody, files
  <2>2. body[r] = "none"
    BY <2>1 DEF TurnsInv, NotBegun, Early
  <2>3. "prepare" \in Bodies /\ Spoken(body[r]) <= Spoken("prepare")
    BY <2>2 DEF Bodies, Preparing, Spoken
  <2>4. /\ stage' \in [Runs -> Stages]
        /\ \A s \in Runs : stage'[s] \in Early => stage[s] \in Early /\ s # r
    BY <2>1 DEF ToStage, TurnsInv, TurnsTyped, Stages, Holding, Early, Sweeping
  <2>5. QED
    BY <2>1, <2>3, <2>4, SilentBodyStep
<1>3. ASSUME NEW r \in Runs, Body(r) PROVE TurnsInv'
  <2>1. stage' = stage /\ stage[r] \notin Early
    BY <1>3
    DEF Body, Prepares, PreparationFails, Asks, Executes, Replies, UpdatesSession, SavingFails,
        Reports, ReportFails, files, TurnsInv, NotBegun, Preparing
  <2>2. CASE Asks(r)
    <3>1. Say(r, "user") /\ ToBody(r, "execute") /\ Spoken(body[r]) = 0 /\ "execute" \in Bodies
      BY <2>2 DEF Asks, Spoken, Bodies
    <3>2. Rank["user"] = 1 /\ Spoken("execute") = 1
      BY DEF Rank, Spoken
    <3>3. QED
      BY <2>1, <3>1, <3>2, SaysInOrder
  <2>3. CASE Replies(r)
    <3>1. Say(r, "reply") /\ ToBody(r, "update") /\ Spoken(body[r]) = 1 /\ "update" \in Bodies
      BY <2>3 DEF Replies, Spoken, Bodies
    <3>2. Rank["reply"] = 2 /\ Spoken("update") = 2
      BY DEF Rank, Spoken
    <3>3. QED
      BY <2>1, <3>1, <3>2, SaysInOrder
  <2>4. CASE Reports(r)
    <3> DEFINE place == "report update"
    <3>1. Say(r, "error") /\ ToBody(r, place) /\ Spoken(body[r]) = 2 /\ place \in Bodies
      BY <2>4, Zenon DEF Reports, Spoken, Bodies
    <3>2. Rank["error"] = 3
      BY DEF Rank
    <3>3. Spoken(place) = 3
      BY DEF Spoken
    <3> HIDE DEF place
    <3>4. QED
      BY <2>1, <3>1, <3>2, <3>3, SaysInOrder
  <2>5. CASE Prepares(r) \/ PreparationFails(r) \/ Executes(r) \/ UpdatesSession(r)
             \/ SavingFails(r) \/ ReportFails(r)
    <3>1. transcript' = transcript
          /\ \E b \in Bodies : ToBody(r, b) /\ Spoken(body[r]) <= Spoken(b)
      <4>1. /\ Spoken("prepare") = 0 /\ Spoken("ask") = 0 /\ Spoken("execute") = 1
            /\ Spoken("reply") = 1 /\ Spoken("update") = 2 /\ Spoken("report") = 2
            /\ Spoken("ended") = 3 /\ \A b : Spoken(b) <= 3
            /\ {"ask", "reply", "report", "ended"} \subseteq Bodies
        BY DEF Spoken, Bodies, Preparing, Ended
      <4>2. CASE PreparationFails(r) \/ UpdatesSession(r) \/ ReportFails(r)
        <5>1. transcript' = transcript /\ ToBody(r, "ended")
          BY <4>2 DEF PreparationFails, UpdatesSession, ReportFails, files
        <5>2. QED
          BY <4>1, <5>1
      <4>3. CASE Prepares(r)
        <5>1. transcript' = transcript /\ ToBody(r, "ask") /\ body[r] = "prepare"
          BY <4>3 DEF Prepares
        <5>2. QED
          BY <4>1, <5>1
      <4>4. CASE Executes(r)
        <5>1. /\ transcript' = transcript /\ body[r] = "execute"
              /\ ToBody(r, "reply") \/ ToBody(r, "report")
          BY <4>4 DEF Executes, files
        <5>2. QED
          BY <4>1, <5>1
      <4>5. CASE SavingFails(r)
        <5>1. /\ transcript' = transcript /\ body[r] \in {"reply", "update"}
              /\ ToBody(r, "report")
          BY <4>5 DEF SavingFails, files
        <5>2. QED
          BY <4>1, <5>1
      <4>6. QED
        BY <2>5, <4>2, <4>3, <4>4, <4>5
    <3>2. stage' \in [Runs -> Stages] /\ \A s \in Runs : stage'[s] \in Early => stage[s] \in Early /\ s # r
      BY <2>1 DEF TurnsInv, TurnsTyped
    <3>3. QED
      BY <3>1, <3>2, SilentBodyStep
  <2>6. QED
    BY <1>3, <2>2, <2>3, <2>4, <2>5 DEF Body
<1>4. ASSUME \/ UNCHANGED vars \/ ReadsMarker \/ PostsRequest \/ ClearsOrphan
             \/ \E r \in Runs : RequestsCancellation(r)
      PROVE  TurnsInv'
  <2>1. UNCHANGED <<stage, body, transcript>>
    BY <1>4 DEF vars, ReadsMarker, PostsRequest, ClearsOrphan, RequestsCancellation, files
  <2>2. QED
    BY <2>1, StageStep DEF TurnsInv, TurnsTyped
<1>5. CASE Crash
  <2>1. /\ transcript' = transcript
        /\ \A r \in Runs : stage'[r] \in {stage[r], "dead"} /\ body'[r] \in {body[r], "dead"}
        /\ \A r \in Runs : body[r] = "none" => body'[r] = "none"
        /\ stage' \in [Runs -> Stages] /\ body' \in [Runs -> Bodies]
    BY <1>5 DEF Crash, files, TurnsInv, TurnsTyped, Stages, Bodies, Ended
  <2>2. TurnsTyped' /\ NotBegun'
    BY <2>1 DEF TurnsInv, TurnsTyped, NotBegun, Early, Sweeping
  <2>3. EntriesBounded'
    <3> SUFFICES ASSUME NEW i \in DOMAIN transcript
                 PROVE  Rank[transcript[i].role] <= Spoken(body'[transcript[i].run])
      BY <2>1 DEF EntriesBounded
    <3>1. /\ transcript[i].run \in Runs /\ Rank[transcript[i].role] \in {1, 2, 3}
          /\ Rank[transcript[i].role] <= Spoken(body[transcript[i].run])
      BY EntryTyped
    <3>2. Spoken("dead") = 3
      BY DEF Spoken
    <3>3. QED
      BY <2>1, <3>1, <3>2
  <2>4. TurnsInOrder'
    BY <2>1 DEF TurnsInv, TurnsInOrder
  <2>5. QED
    BY <2>2, <2>3, <2>4 DEF TurnsInv
<1>6. QED
  BY <1>1, <1>2, <1>3, <1>4, <1>5 DEF Next

(***************************************************************************)
(* Of one run the transcript has the question, then perhaps the answer,    *)
(* then perhaps the error, each once, whatever times out, is retried or    *)
(* fails to be saved, and although the body runs outside the session lock. *)
(***************************************************************************)
THEOREM EntriesStandInOrder == Spec => []TurnsInOrder
<1>1. Init => TurnsInv
  BY DEF Init, TurnsInv, TurnsTyped, NotBegun, EntriesBounded, TurnsInOrder, Stages, Bodies, Ended
<1>2. TurnsInv /\ [Next]_vars => TurnsInv'
  BY TurnsInvStep
<1>3. TurnsInv => TurnsInOrder
  BY DEF TurnsInv
<1>4. QED
  BY <1>1, <1>2, <1>3, PTL DEF Spec
-----------------------------------------------------------------------------
(* ProviderCalls *)

(* The provider under way is the only one that may still be called; those  *)
(* before it are exhausted and those after it untouched.                   *)
Position ==
    /\ call \in {"running", "waiting"} => provider \in registered /\ tries[provider] >= 1
    /\ call = "waiting" => tries[provider] < MaxAttempts
    /\ call = "begin" => provider = 0
    /\ \A j \in Order : j > provider => tries[j] = 0
    /\ \A j \in registered : j < provider => tries[j] = MaxAttempts

(* A run with an outcome has stopped calling, or its calls are aborted.    *)
Finality ==
    /\ outcome # "pending" => call = "over" \/ aborted
    /\ timer = "set" => outcome = "pending"

CallsInv == CallsTypeOK /\ Position /\ Finality /\ FailsOnlyExhausted

LEMMA CallsInvInit == CallsInit => CallsInv
<1> SUFFICES ASSUME CallsInit PROVE CallsInv
  OBVIOUS
<1> USE ProvidersAssumption DEF CallsInit, Order
<1>1. CallsTypeOK
  <2>1. tries \in [Order -> 0..MaxAttempts] /\ provider \in 0..Providers
    OBVIOUS
  <2>2. registered \subseteq Order
    OBVIOUS
  <2>3. aborted \in BOOLEAN /\ fatal \in BOOLEAN
    BY Zenon
  <2>4. QED
    BY <2>1, <2>2, <2>3 DEF CallsTypeOK
<1>2. Position
  BY DEF Position
<1>3. Finality /\ FailsOnlyExhausted
  BY DEF Finality, FailsOnlyExhausted
<1>4. QED
  BY <1>1, <1>2, <1>3 DEF CallsInv

(* An attempt at the first registered provider from place i on, when all   *)
(* before i are exhausted.                                                 *)
LEMMA TurnToStep ==
    ASSUME CallsInv, call \in {"begin", "running"}, NEW i \in 1..(Providers + 1), i > provider, TurnTo(i),
           \A j \in registered : j < i => tries[j] = MaxAttempts,
           UNCHANGED <<registered, aborted, fatal>>
    PROVE  CallsInv' /\ (aborted \/ outcome # "pending" => tries' = tries)
<1> USE ProvidersAssumption DEF CallsInv, CallsTypeOK, Position, Finality, FailsOnlyExhausted, Order
<1>1. CASE NextFrom(i) = {}
  <2>1. \A j \in registered : j < i
    BY <1>1 DEF NextFrom
  <2>2. QED
    BY <1>1, <2>1 DEF TurnTo, Stop, Settle
<1>2. ASSUME NEW n \in NextFrom(i), \A k \in NextFrom(i) : n <= k, Attempt(n), aborted
      PROVE  CallsInv' /\ (aborted \/ outcome # "pending" => tries' = tries)
  BY <1>2 DEF Attempt, Stop, Settle
<1>3. ASSUME NEW n \in NextFrom(i), \A k \in NextFrom(i) : n <= k, Attempt(n), ~ aborted
      PROVE  CallsInv' /\ (aborted \/ outcome # "pending" => tries' = tries)
  <2>1. /\ n \in Order /\ n \in registered /\ n >= i
        /\ \A k \in registered : k >= i => n <= k
    BY <1>3 DEF NextFrom
  <2>2. CallProvider(n)
    BY <1>3 DEF Attempt
  <2>3. tries[n] = 0
    BY <2>1
  <2>4. \A j \in registered : j < n => j < i
    BY <2>1
  <2>5. /\ provider' = n /\ call' = "running" /\ tries' = [tries EXCEPT ![n] = @ + 1]
        /\ UNCHANGED <<outcome, timer>>
    BY <2>2 DEF CallProvider
  <2>6. tries' \in [Order -> 0..MaxAttempts] /\ tries'[n] = 1
        /\ \A j \in Order : j # n => tries'[j] = tries[j]
    BY <2>1, <2>3, <2>5
  <2>7. CallsTypeOK' /\ Finality'
    BY <1>3, <2>1, <2>5, <2>6
  <2>8. Position'
    BY <2>1, <2>4, <2>5, <2>6
  <2>9. outcome = "pending"
    BY <1>3
  <2>10. QED
    BY <1>3, <2>5, <2>7, <2>8, <2>9
<1>4. QED
  BY <1>1, <1>2, <1>3 DEF TurnTo

LEMMA InvStep ==
    ASSUME CallsInv, [CallsNext]_callVars
    PROVE  /\ CallsInv'
           /\ aborted \/ outcome # "pending" => tries' = tries
           /\ outcome # "pending" => outcome' = outcome
<1> USE ProvidersAssumption DEF CallsInv, CallsTypeOK, Position, Finality, FailsOnlyExhausted
<1>1. CASE Begins
  <2>1. 1 \in 1..(Providers + 1) /\ 1 > provider /\ \A j \in registered : ~ (j < 1)
    BY <1>1 DEF Begins, Order
  <2>2. CallsInv' /\ (aborted \/ outcome # "pending" => tries' = tries)
    BY <1>1, <2>1, TurnToStep DEF Begins
  <2>3. QED
    BY <1>1, <2>2 DEF Begins, TurnTo, Attempt, Stop, Settle, CallProvider
<1>2. CASE Answers
  BY <1>2 DEF Answers, Stop, Settle
<1>3. CASE FailsForGood
  BY <1>3 DEF FailsForGood, Stop, Settle
<1>4. CASE FailsRetryably
  BY <1>4 DEF FailsRetryably
<1>5. CASE Retries
  <2>1. CASE aborted
    BY <1>5, <2>1 DEF Retries, Attempt, Stop, Settle
  <2>2. CASE ~ aborted
    <3>1. /\ provider' = provider /\ call' = "running"
          /\ tries' = [tries EXCEPT ![provider] = @ + 1]
          /\ UNCHANGED <<outcome, timer, registered, aborted, fatal>>
      BY <1>5, <2>2 DEF Retries, Attempt, CallProvider
    <3>2. provider \in Order /\ tries[provider] < MaxAttempts /\ outcome = "pending"
      BY <1>5, <2>2 DEF Retries
    <3>3. /\ tries' \in [Order -> 0..MaxAttempts] /\ tries'[provider] >= 1
          /\ \A j \in Order : j # provider => tries'[j] = tries[j]
      BY <3>1, <3>2 DEF Order
    <3>4. Position'
      BY <1>5, <3>1, <3>2, <3>3 DEF Retries, Order
    <3>5. QED
      BY <2>2, <3>1, <3>2, <3>3, <3>4
  <2>3. QED
    BY <2>1, <2>2
<1>6. CASE FallsBack
  <2>1. /\ provider + 1 \in 1..(Providers + 1) /\ provider + 1 > provider
        /\ \A j \in registered : j < provider + 1 => tries[j] = MaxAttempts
    BY <1>6 DEF FallsBack, Order
  <2>2. CallsInv' /\ (aborted \/ outcome # "pending" => tries' = tries)
    BY <1>6, <2>1, TurnToStep DEF FallsBack
  <2>3. QED
    BY <1>6, <2>2 DEF FallsBack, TurnTo, Attempt, Stop, Settle, CallProvider
<1>7. CASE TimerFires
  BY <1>7 DEF TimerFires
<1>8. CASE CallerAborts
  BY <1>8 DEF CallerAborts
<1>9. CASE UNCHANGED callVars
  BY <1>9 DEF callVars
<1>10. QED
  BY <1>1, <1>2, <1>3, <1>4, <1>5, <1>6, <1>7, <1>8, <1>9 DEF CallsNext

LEMMA Invariance == CallsSpec => []CallsInv
<1>1. CallsInv /\ [CallsNext]_callVars => CallsInv'
  BY InvStep
<1>2. QED
  BY CallsInvInit, <1>1, PTL DEF CallsSpec

(* No provider is called out of its turn.                                  *)
THEOREM FallbackKeepsOrder == CallsSpec => []FallbackInOrder
<1>1. CallsInv => FallbackInOrder
  BY ProvidersAssumption DEF CallsInv, CallsTypeOK, Position, FallbackInOrder, Order
<1>2. QED
  BY <1>1, Invariance, PTL

(* A run does not give up while a registered provider may still be called. *)
THEOREM GivesUpExhausted == CallsSpec => []FailsOnlyExhausted
  BY Invariance, PTL DEF CallsInv

(* After an abort, a timeout or an outcome no provider is called.          *)
THEOREM AbortStopsCalls == CallsSpec => NoCallAfterAbort
<1>1. CallsInv /\ [CallsNext]_callVars => [aborted \/ outcome # "pending" => tries' = tries]_callVars
  BY InvStep
<1>2. QED
  BY <1>1, Invariance, PTL DEF CallsSpec, NoCallAfterAbort

(* The first outcome stands.                                               *)
THEOREM FirstOutcomeStands == CallsSpec => OutcomeIsFinal
<1>1. CallsInv /\ [CallsNext]_callVars => [outcome # "pending" => outcome' = outcome]_callVars
  BY InvStep
<1>2. QED
  BY <1>1, Invariance, PTL DEF CallsSpec, OutcomeIsFinal
=============================================================================
