---------------------------- MODULE K8sLeaseLock ----------------------------
(***************************************************************************)
(* K8sLeaseLockProvider on one lock name.  Each call of the Kubernetes API *)
(* is one step at the API server; between the calls of one client the      *)
(* other clients are served.  A lease is identified by its holder, which   *)
(* is a fresh owner and token for every acquisition.                       *)
(***************************************************************************)
EXTENDS Naturals, FiniteSets

CONSTANTS Clients,      \* acquisitions, each with its own holderIdentity
          NoLease

ASSUME NoLeaseAssumption == NoLease \notin Clients

VARIABLES lease,    \* the Lease object: NoLease or its holderIdentity
          inTime,   \* the clients whose lease period is not over
          pc,       \* pc[c]: the call client c makes next
          judged,   \* judged[c]: the lease client c read and decided to delete
          misfired  \* history: a delete removed another lease than that

leaseVars == <<lease, inTime, pc, judged, misfired>>

Steps == {"idle", "read", "delete expired", "create", "held",
          "read to release", "delete to release", "released", "denied", "failed"}

LeaseInit == /\ lease = NoLease
             /\ inTime = {}
             /\ pc = [c \in Clients |-> "idle"]
             /\ judged = [c \in Clients |-> NoLease]
             /\ misfired = FALSE

Goto(c, step) == pc' = [pc EXCEPT ![c] = step]

TryAcquire(c) == pc[c] = "idle" /\ Goto(c, "read") /\ UNCHANGED <<lease, inTime, judged, misfired>>

(* shouldReclaimLease *)
Reclaimable == lease # NoLease /\ lease \notin inTime

Judge(c) == judged' = [judged EXCEPT ![c] = lease]

ReadLease(c) ==
    /\ pc[c] = "read"
    /\ \/ lease = NoLease /\ Goto(c, "create") /\ UNCHANGED judged
       \/ Reclaimable /\ Goto(c, "delete expired") /\ Judge(c)
       \/ lease # NoLease /\ ~ Reclaimable /\ Goto(c, "denied") /\ UNCHANGED judged
    /\ UNCHANGED <<lease, inTime, misfired>>

(* By name, with no resourceVersion precondition: it deletes whatever      *)
(* lease is there by now; a lease that is gone already is no error.        *)
DeleteByName(c) ==
    /\ misfired' = (misfired \/ lease \notin {judged[c], NoLease})
    /\ lease' = NoLease
    /\ judged' = [judged EXCEPT ![c] = NoLease]
    /\ UNCHANGED inTime

DeleteExpired(c) == pc[c] = "delete expired" /\ DeleteByName(c) /\ Goto(c, "create")

(* Mutant: the lease is written over whatever is there. *)
CreateLeaseByUpsert(c) ==
    /\ pc[c] = "create"
    /\ lease' = c
    /\ inTime' = inTime \cup {c}
    /\ Goto(c, "held")
    /\ UNCHANGED <<judged, misfired>>

(* A conflict sends the client back to the read until its deadline. *)
CreateLease(c) ==
    /\ pc[c] = "create"
    /\ \/ /\ lease = NoLease
          /\ lease' = c
          /\ inTime' = inTime \cup {c}
          /\ Goto(c, "held")
       \/ /\ lease # NoLease
          /\ Goto(c, "read") \/ Goto(c, "denied")
          /\ UNCHANGED <<lease, inTime>>
    /\ UNCHANGED <<judged, misfired>>

ReleaseLock(c) ==
    /\ pc[c] = "held"
    /\ Goto(c, "read to release")
    /\ UNCHANGED <<lease, inTime, judged, misfired>>

ReadToRelease(c) ==
    /\ pc[c] = "read to release"
    /\ \/ lease = c /\ Goto(c, "delete to release") /\ Judge(c)
       \/ lease # c /\ Goto(c, "released") /\ UNCHANGED judged
    /\ UNCHANGED <<lease, inTime, misfired>>

DeleteToRelease(c) == pc[c] = "delete to release" /\ DeleteByName(c) /\ Goto(c, "released")

(* An API error ends the operation, before or after the call had its       *)
(* effect; a lease that was created stays.                                 *)
CallFails(c) ==
    /\ pc[c] \in {"read", "delete expired", "create", "read to release", "delete to release"}
    /\ Goto(c, "failed")
    /\ \/ UNCHANGED <<lease, inTime, judged, misfired>>
       \/ pc[c] \in {"delete expired", "delete to release"} /\ DeleteByName(c)
       \/ /\ pc[c] = "create" /\ lease = NoLease
          /\ lease' = c /\ inTime' = inTime \cup {c}
          /\ UNCHANGED <<judged, misfired>>

(* renewTime + leaseDurationSeconds passes, wherever the client is.        *)
LeaseRunsOut(c) ==
    /\ c \in inTime
    /\ inTime' = inTime \ {c}
    /\ UNCHANGED <<lease, pc, judged, misfired>>

LeaseNext == \E c \in Clients :
           \/ TryAcquire(c) \/ ReadLease(c) \/ DeleteExpired(c) \/ CreateLease(c)
           \/ ReleaseLock(c) \/ ReadToRelease(c) \/ DeleteToRelease(c)
           \/ CallFails(c) \/ LeaseRunsOut(c)

LeaseSpec == LeaseInit /\ [][LeaseNext]_leaseVars
-----------------------------------------------------------------------------
LeaseTypeOK == /\ lease \in Clients \cup {NoLease}
               /\ inTime \subseteq Clients
               /\ pc \in [Clients -> Steps]
               /\ \A c \in inTime : pc[c] \notin {"idle", "read", "delete expired", "create", "denied"}
               /\ judged \in [Clients -> Clients \cup {NoLease}]
               /\ misfired \in BOOLEAN

Holders == {c \in Clients : pc[c] = "held" /\ c \in inTime}

(* A slot of the concurrency policy is reserved through this lock: at most *)
(* one client holds it within the time its lease grants.                   *)
SingleHolder == Cardinality(Holders) <= 1

(* Until a delete has removed another lease than the one its client read,  *)
(* the lease of a client that holds the lock in time is still there, so no *)
(* other client holds it; holders that outstay their lease do no harm.     *)
HeldLeaseExists == misfired \/ \A c \in Holders : lease = c
=============================================================================
