----------------------------- MODULE WorkQueue -----------------------------
(***************************************************************************)
(* WorkManager on the queue file of one session.  enqueue and drain hold   *)
(* the session's lock file while they load the queue, change their copy    *)
(* and save it; a drain holds it while its handler runs, too.              *)
(***************************************************************************)
EXTENDS SessionLock, Sequences, SequencesExt

CONSTANTS Requests,   \* what callers enqueue
          NoRequest,
          NoKey,      \* a request without a dedupeKey
          MaxItems    \* bound: items accepted into the queue file

ASSUME RequestsAssumption == \A r \in Requests : r.mode \in {"collect", "followup"}
ASSUME NoRequestAssumption == NoRequest \notin Requests
ASSUME MaxItemsAssumption == MaxItems \in Nat

VARIABLES disk,             \* the queue file
          loaded,           \* loaded[c]: the copy of client c
          at,               \* at[c]: where client c is in its call
          request,          \* request[c]: what client c enqueues
          drainingSessions, \* the processes whose manager is draining
          accepted,         \* how many items were saved, for fresh ids
          handled,          \* history: ids of the items a handler finished
          unclean           \* history: a drain left its flag, and none cleaned up since

queueVars == <<disk, loaded, at, request, drainingSessions, accepted, handled, unclean>>
workVars == <<lockVars, queueVars>>

NoQueue == [items |-> <<>>, draining |-> FALSE]

DrainPlaces == {"drain lock", "drain load", "mark", "handle", "remove",
                "reload", "unmark", "drain release"}
Places == {"none", "enqueue lock", "load", "save", "release"} \cup DrainPlaces
MarkedPlaces == {"handle", "remove", "reload", "unmark"}    \* the flag may be on disk
Outside == {"none", "enqueue lock", "drain lock"}

WorkInit ==
    /\ LockInit
    /\ disk = NoQueue
    /\ loaded = [c \in Clients |-> NoQueue]
    /\ at = [c \in Clients |-> "none"]
    /\ request = [c \in Clients |-> NoRequest]
    /\ drainingSessions = {}
    /\ accepted = 0
    /\ handled = {}
    /\ unclean = FALSE

Goto(c, place) == at' = [at EXCEPT ![c] = place]

SetLoaded(c, queue) == loaded' = [loaded EXCEPT ![c] = queue]

Forget(c) == request' = [request EXCEPT ![c] = NoRequest]

LetGo(c) == drainingSessions' = drainingSessions \ {ProcessOf[c]}
-----------------------------------------------------------------------------
CallEnqueue(c) ==
    /\ at[c] = "none"
    /\ Begin(c)
    /\ Goto(c, "enqueue lock")
    /\ \E r \in Requests : request' = [request EXCEPT ![c] = r]
    /\ UNCHANGED <<disk, loaded, drainingSessions, accepted, handled, unclean>>

(* A manager that is draining already answers "already-draining". *)
CallDrain(c) ==
    /\ at[c] = "none"
    /\ ProcessOf[c] \notin drainingSessions
    /\ drainingSessions' = drainingSessions \cup {ProcessOf[c]}
    /\ Begin(c)
    /\ Goto(c, "drain lock")
    /\ UNCHANGED <<disk, loaded, request, accepted, handled, unclean>>

(* A step of acquireSessionLock that leaves its caller waiting or lets it  *)
(* into its critical section. *)
AcquireStep(c) ==
    /\ at[c] \in {"enqueue lock", "drain lock"}
    /\ Open(c) \/ Read(c) \/ Reclaim(c) \/ Write(c)
    /\ IF lockStep'[c] = "held"
       THEN Goto(c, IF at[c] = "enqueue lock" THEN "load" ELSE "drain load")
       ELSE UNCHANGED at
    /\ UNCHANGED <<disk, loaded, request, drainingSessions, accepted, handled, unclean>>

AcquireFails(c) ==
    /\ at[c] \in {"enqueue lock", "drain lock"}
    /\ GiveUp(c) \/ WriteFails(c)
    /\ Goto(c, "none")
    /\ Forget(c)
    /\ IF at[c] = "drain lock" THEN LetGo(c) ELSE UNCHANGED drainingSessions
    /\ UNCHANGED <<disk, loaded, accepted, handled, unclean>>
-----------------------------------------------------------------------------
Load(c) ==
    /\ at[c] = "load"
    /\ SetLoaded(c, disk)
    /\ Goto(c, "save")
    /\ UNCHANGED <<lockVars, disk, request, drainingSessions, accepted, handled, unclean>>

(* The duplicate test of enqueue, for each dedupeMode. *)
Matches(existing, r) ==
    \/ r.dedupe = "payload" /\ existing.payload = r.payload /\ existing.mode = r.mode
    \/ r.dedupe = "dedupe-key" /\ r.key # NoKey /\ existing.key = r.key

Matching(items, r) == {i \in DOMAIN items : Matches(items[i], r)}

ItemOf(r) == [id |-> accepted + 1, payload |-> r.payload, mode |-> r.mode, key |-> r.key]

FirstMatch(items, r) == CHOOSE i \in Matching(items, r) : \A j \in Matching(items, r) : i <= j

(* items.splice at the first duplicate, or push. *)
WithRequest(items, r) ==
    IF Matching(items, r) = {}
    THEN Append(items, ItemOf(r))
    ELSE [items EXCEPT ![FirstMatch(items, r)] = ItemOf(r)]

KeepsOld(items, r) == r.drop = "keep-old" /\ Matching(items, r) # {}

Save(c) ==
    /\ at[c] = "save"
    /\ IF KeepsOld(loaded[c].items, request[c])
       THEN UNCHANGED <<disk, accepted>>
       ELSE /\ accepted < MaxItems
            /\ disk' = [loaded[c] EXCEPT !.items = WithRequest(@, request[c])]
            /\ accepted' = accepted + 1
    /\ Goto(c, "release")
    /\ UNCHANGED <<lockVars, loaded, request, drainingSessions, handled, unclean>>

DrainLoad(c) ==
    /\ at[c] = "drain load"
    /\ SetLoaded(c, [disk EXCEPT !.draining = TRUE])
    /\ Goto(c, "mark")
    /\ UNCHANGED <<lockVars, disk, request, drainingSessions, accepted, handled, unclean>>

(* The queue goes to disk as draining; an empty one is done already. *)
NextBatchOrEnd(c, items) == Goto(c, IF items = <<>> THEN "reload" ELSE "handle")

Mark(c) ==
    /\ at[c] = "mark"
    /\ disk' = loaded[c]
    /\ NextBatchOrEnd(c, loaded[c].items)
    /\ UNCHANGED <<lockVars, loaded, request, drainingSessions, accepted, handled, unclean>>

(* buildNextBatch: one followup, or the leading run of collects. *)
BatchSize(items) ==
    IF items[1].mode = "followup" THEN 1
    ELSE CHOOSE n \in DOMAIN items :
            /\ \A i \in 1..n : items[i].mode = "collect"
            /\ n = Len(items) \/ items[n + 1].mode # "collect"

Batch(c) == SubSeq(loaded[c].items, 1, BatchSize(loaded[c].items))

BatchIds(c) == {item.id : item \in ToSet(Batch(c))}

HandlerEnds(c) ==
    /\ at[c] = "handle"
    /\ handled' = handled \cup BatchIds(c)
    /\ Goto(c, "remove")
    /\ UNCHANGED <<lockVars, disk, loaded, request, drainingSessions, accepted, unclean>>

(* Mutant: the finally block is missing. *)
HandlerFailsOutright(c) ==
    /\ at[c] = "handle"
    /\ Goto(c, "drain release")
    /\ UNCHANGED <<lockVars, disk, loaded, request, drainingSessions, accepted, handled, unclean>>

HandlerFails(c) ==
    /\ at[c] = "handle"
    /\ Goto(c, "reload")
    /\ UNCHANGED <<lockVars, disk, loaded, request, drainingSessions, accepted, handled, unclean>>

(* Mutant: the whole queue that was loaded is taken as done. *)
RemoveWholeQueue(c) ==
    /\ at[c] = "remove"
    /\ disk' = [loaded[c] EXCEPT !.items = <<>>]
    /\ SetLoaded(c, disk')
    /\ Goto(c, "reload")
    /\ UNCHANGED <<lockVars, request, drainingSessions, accepted, handled, unclean>>

(* The places of the items that stay, and the items in their order: the    *)
(* k-th has k - 1 others before it. *)
Staying(c) == {i \in DOMAIN loaded[c].items : loaded[c].items[i].id \notin BatchIds(c)}

Rest(c) ==
    [k \in 1..Cardinality(Staying(c)) |->
        loaded[c].items[CHOOSE i \in Staying(c) :
                            Cardinality({j \in Staying(c) : j < i}) = k - 1]]

RemoveBatch(c) ==
    /\ at[c] = "remove"
    /\ disk' = [loaded[c] EXCEPT !.items = Rest(c)]
    /\ SetLoaded(c, disk')
    /\ NextBatchOrEnd(c, disk'.items)
    /\ UNCHANGED <<lockVars, request, drainingSessions, accepted, handled, unclean>>

(* A load that fails is thrown; a drain still runs its finally block, and  *)
(* there the load may fail again. *)
LoadFails(c) ==
    /\ \/ at[c] = "load" /\ Goto(c, "release")
       \/ at[c] = "drain load" /\ Goto(c, "reload")
       \/ at[c] = "reload" /\ Goto(c, "drain release")
    /\ unclean' = (unclean \/ at[c] = "reload")
    /\ UNCHANGED <<lockVars, disk, loaded, request, drainingSessions, accepted, handled>>

(* The finally block of drain: the flag is cleared if it is set. *)
Reload(c) ==
    /\ at[c] = "reload"
    /\ SetLoaded(c, disk)
    /\ Goto(c, IF disk.draining THEN "unmark" ELSE "drain release")
    /\ unclean' = (unclean /\ disk.draining)
    /\ UNCHANGED <<lockVars, disk, request, drainingSessions, accepted, handled>>

Unmark(c) ==
    /\ at[c] = "unmark"
    /\ disk' = [loaded[c] EXCEPT !.draining = FALSE]
    /\ Goto(c, "drain release")
    /\ unclean' = FALSE
    /\ UNCHANGED <<lockVars, loaded, request, drainingSessions, accepted, handled>>

(* A save that fails is thrown; a drain still runs its finally block. *)
SaveFails(c) ==
    /\ \/ at[c] = "save" /\ Goto(c, "release")
       \/ at[c] \in {"mark", "remove"} /\ Goto(c, "reload")
       \/ at[c] = "unmark" /\ Goto(c, "drain release")
    /\ unclean' = (unclean \/ at[c] = "unmark")
    /\ UNCHANGED <<lockVars, disk, loaded, request, drainingSessions, accepted, handled>>

Return(c) ==
    /\ at[c] \in {"release", "drain release"}
    /\ Release(c) \/ ReleaseFails(c)
    /\ Goto(c, "none")
    /\ SetLoaded(c, NoQueue)
    /\ Forget(c)
    /\ IF at[c] = "drain release" THEN LetGo(c) ELSE UNCHANGED drainingSessions
    /\ UNCHANGED <<disk, accepted, handled, unclean>>

ProcessDies(p) ==
    /\ Dies(p)
    /\ at' = [c \in Clients |-> IF ProcessOf[c] = p THEN "none" ELSE at[c]]
    /\ loaded' = [c \in Clients |-> IF ProcessOf[c] = p THEN NoQueue ELSE loaded[c]]
    /\ request' = [c \in Clients |-> IF ProcessOf[c] = p THEN NoRequest ELSE request[c]]
    /\ drainingSessions' = drainingSessions \ {p}
    /\ unclean' = (unclean \/ \E c \in Clients : ProcessOf[c] = p /\ at[c] \in MarkedPlaces)
    /\ UNCHANGED <<disk, accepted, handled>>

TimePasses == LockAges /\ UNCHANGED queueVars

Acquisition(c) == AcquireStep(c) \/ AcquireFails(c)

Progress(c) == \/ Load(c) \/ Save(c) \/ DrainLoad(c) \/ Mark(c) \/ HandlerEnds(c)
               \/ HandlerFails(c) \/ RemoveBatch(c) \/ Reload(c) \/ Unmark(c) \/ SaveFails(c)
               \/ LoadFails(c) \/ Return(c)

WorkNext == \/ TimePasses
            \/ \E p \in Processes : ProcessDies(p)
            \/ \E c \in Clients : \/ CallEnqueue(c) \/ CallDrain(c)
                                  \/ Acquisition(c) \/ Progress(c)

WorkSpec == WorkInit /\ [][WorkNext]_workVars

(* File calls are answered, a handler ends (runs have a timeout), and the  *)
(* deadline of an acquisition passes while it polls.                       *)
FairWorkSpec == /\ WorkSpec
                /\ \A c \in Clients : /\ WF_workVars(Acquisition(c) \/ Progress(c))
                                      /\ SF_workVars(AcquireFails(c))
-----------------------------------------------------------------------------
WorkItems == [id : 1..MaxItems, payload : {r.payload : r \in Requests},
              mode : {"collect", "followup"}, key : {r.key : r \in Requests} \cup {NoKey}]
Queues == [items : Seq(WorkItems), draining : BOOLEAN]

WorkTypeOK == /\ LockTypeOK
              /\ disk \in Queues
              /\ loaded \in [Clients -> Queues]
              /\ at \in [Clients -> Places]
              /\ request \in [Clients -> Requests \cup {NoRequest}]
              /\ drainingSessions \subseteq Processes
              /\ accepted \in 0..MaxItems
              /\ handled \subseteq 1..MaxItems
              /\ unclean \in BOOLEAN

(* While a client is going to save its copy, the file has not changed      *)
(* under it: no update is lost (loadQueueUnlocked to saveQueue).  A        *)
(* reclaim that removes the lock of another client is what breaks it.      *)
CopyIsFresh ==
    misfired \/ \A c \in Clients :
        at[c] \in {"save", "mark", "handle", "remove", "unmark"} => loaded[c].items = disk.items

(* drainingSessions names a process exactly while one of its calls drains, *)
(* however that call ends: a leaked entry would answer "already-draining"  *)
(* for ever.                                                               *)
GuardIsExact ==
    \A p \in Processes :
        p \in drainingSessions <=> \E c \in Clients : ProcessOf[c] = p /\ at[c] \in DrainPlaces

(* The draining flag that status reports is set while a drain works and    *)
(* off when none does, but for a drain that could not clean up: it died,   *)
(* or the load or save of its finally block failed.  The next drain that   *)
(* can heals what such a drain left.                                       *)
FlagIsTruthful ==
    misfired \/ /\ \A c \in Clients : at[c] \in {"handle", "remove"} => disk.draining
                /\ disk.draining /\ ~ unclean => \E c \in Clients : at[c] \in MarkedPlaces

(* Two items one of which may stand in for the other. *)
SameWork(old, new) == \/ old.payload = new.payload /\ old.mode = new.mode
                      \/ old.key = new.key /\ old.key # NoKey

Promise == INSTANCE AtLeastOnceQueue
             WITH queue <- disk.items, Items <- WorkItems, Duplicates <- SameWork

(* Accepted work stays in the queue, in its order, until a handler has     *)
(* finished it; only a duplicate may take its place.  It is so until a     *)
(* reclaim takes the lock of another client.                               *)
QueueUntilMisfire == Promise!Init /\ [][misfired' \/ Promise!Next]_<<disk.items, handled>>

(* Every call of enqueue and drain comes back, to whatever extent others   *)
(* crash or leave lock files behind.                                       *)
EveryCallReturns == \A c \in Clients : at[c] # "none" ~> at[c] = "none"
=============================================================================
