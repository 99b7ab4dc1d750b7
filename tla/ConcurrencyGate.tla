--------------------------- MODULE ConcurrencyGate ---------------------------
(***************************************************************************)
(* PolicyAwareExecutionBackend.run and PolicyConcurrencyLeaseManager: a    *)
(* run may start only when its request holds one of maxConcurrentRuns slot *)
(* locks.  A slot is a named lock of IDistributedLock whose operations are *)
(* atomic where they take effect: LocalMemoryLock (between two awaits of   *)
(* one process) and RedisLockProvider (SET NX PX, and a compare-and-delete *)
(* script).  K8sLeaseLock models the provider that is not atomic.          *)
(*                                                                         *)
(* Every reservation draws a fresh ownerId and token, so the entry of a    *)
(* slot is identified by the request that made it.  A lease lasts ten      *)
(* minutes and is never renewed.                                           *)
(***************************************************************************)
EXTENDS Naturals, FiniteSets

CONSTANTS Requests,     \* requests to run an agent
          Limit,        \* policy.maxConcurrentRuns, when the policy sets one
          Nobody,       \* no entry
          RunsFitLease, \* no run outlasts POLICY_CONCURRENCY_LOCK_LEASE_MS
          Unreliable    \* lock calls may fail, instances may die

ASSUME LimitAssumption == Limit \in Nat \ {0}
ASSUME NobodyAssumption == Nobody \notin Requests
ASSUME RequestsAssumption == IsFiniteSet(Requests)
ASSUME FlagsAssumption == RunsFitLease \in BOOLEAN /\ Unreliable \in BOOLEAN

Slots == 1 .. Limit

VARIABLES lock,     \* lock[k]: whose entry slot k holds
          expired,  \* the slots whose entry is past expiresAt
          phase,    \* phase[r]: how far PolicyAwareExecutionBackend.run is
          slot      \* slot[r]: the slot r tries, or holds

vars == <<lock, expired, phase, slot>>

Phases == {"new", "scanning", "running", "releasing", "ended", "rejected", "failed"}

Init == /\ lock = [k \in Slots |-> Nobody]
        /\ expired = {}
        /\ phase = [r \in Requests |-> "new"]
        /\ slot = [r \in Requests |-> 1]

(* Mutant: an entry blocks its slot although it has expired. *)
AvailableOnceFreed(k) == lock[k] = Nobody

(* tryAcquire succeeds on a slot without entry or with an expired one. *)
Available(k) == lock[k] = Nobody \/ k \in expired

(* Mutant: the expiry of the entry taken over stays. *)
TakeWithOldExpiry(r, k) == /\ lock' = [lock EXCEPT ![k] = r]
                           /\ UNCHANGED expired

Take(r, k) == /\ lock' = [lock EXCEPT ![k] = r]
              /\ expired' = expired \ {k}

(* Mutant: the entry is deleted whoever made it. *)
GiveBackAny(r, k) == /\ lock' = [lock EXCEPT ![k] = Nobody]
                     /\ expired' = expired \ {k}

(* release: compare owner and token, then delete. *)
GiveBack(r, k) == IF lock[k] = r
                  THEN /\ lock' = [lock EXCEPT ![k] = Nobody]
                       /\ expired' = expired \ {k}
                  ELSE UNCHANGED <<lock, expired>>

Arrive(r) == /\ phase[r] = "new"
             /\ phase' = [phase EXCEPT ![r] = "scanning"]
             /\ UNCHANGED <<lock, expired, slot>>

Grant(r) == /\ phase[r] = "scanning"
            /\ Available(slot[r])
            /\ Take(r, slot[r])
            /\ phase' = [phase EXCEPT ![r] = "running"]
            /\ UNCHANGED slot

(* The scan goes on with the next slot; after the last one the request is  *)
(* rejected with POLICY_CONCURRENCY_LIMIT_EXCEEDED.                        *)
Deny(r) == /\ phase[r] = "scanning"
           /\ ~ Available(slot[r])
           /\ IF slot[r] < Limit
              THEN /\ slot' = [slot EXCEPT ![r] = @ + 1]
                   /\ UNCHANGED phase
              ELSE /\ phase' = [phase EXCEPT ![r] = "rejected"]
                   /\ UNCHANGED slot
           /\ UNCHANGED <<lock, expired>>

(* The provider throws: the request fails, and nobody will release what    *)
(* the lock server may have granted before its answer was lost.            *)
AcquireFails(r) == /\ Unreliable
                   /\ phase[r] = "scanning"
                   /\ \/ UNCHANGED <<lock, expired>>
                      \/ Available(slot[r]) /\ Take(r, slot[r])
                   /\ phase' = [phase EXCEPT ![r] = "failed"]
                   /\ UNCHANGED slot

(* The backend returns or throws: the finally block releases the slot. *)
RunEnds(r) == /\ phase[r] = "running"
              /\ phase' = [phase EXCEPT ![r] = "releasing"]
              /\ UNCHANGED <<lock, expired, slot>>

Release(r) == /\ phase[r] = "releasing"
              /\ GiveBack(r, slot[r])
              /\ phase' = [phase EXCEPT ![r] = "ended"]
              /\ UNCHANGED slot

ReleaseFails(r) == /\ Unreliable
                   /\ phase[r] = "releasing"
                   /\ \/ UNCHANGED <<lock, expired>>
                      \/ GiveBack(r, slot[r])
                   /\ phase' = [phase EXCEPT ![r] = "failed"]
                   /\ UNCHANGED slot

(* The instance that serves r dies; its run dies with it. *)
Dies(r) == /\ Unreliable
           /\ phase[r] \in {"scanning", "running", "releasing"}
           /\ phase' = [phase EXCEPT ![r] = "failed"]
           /\ UNCHANGED <<lock, expired, slot>>

(* Time: the lease of a slot runs out. *)
Expire(k) == /\ lock[k] # Nobody /\ k \notin expired
             /\ RunsFitLease => phase[lock[k]] # "running"
             /\ expired' = expired \cup {k}
             /\ UNCHANGED <<lock, phase, slot>>

RequestStep(r) == \/ Grant(r) \/ Deny(r) \/ AcquireFails(r)
                  \/ RunEnds(r) \/ Release(r) \/ ReleaseFails(r)

Next == \/ \E r \in Requests : Arrive(r) \/ RequestStep(r) \/ Dies(r)
        \/ \E k \in Slots : Expire(k)

Spec == Init /\ [][Next]_vars

(* Lock calls are answered or fail, a run ends at its timeout, time goes   *)
(* on.  Nothing obliges requests to arrive or instances to die.            *)
FairSpec == /\ Spec
            /\ \A r \in Requests : WF_vars(RequestStep(r))
            /\ \A k \in Slots : WF_vars(Expire(k))
-----------------------------------------------------------------------------
TypeOK == /\ lock \in [Slots -> Requests \cup {Nobody}]
          /\ expired \in SUBSET Slots
          /\ phase \in [Requests -> Phases]
          /\ slot \in [Requests -> Slots]

Active == {r \in Requests : phase[r] = "running"}

(* A run that goes on owns an entry that no other request can take, and    *)
(* only entries of live or abandoned requests exist; this is what makes    *)
(* the limit hold.                                                         *)
ActiveRunsHoldTheirSlot ==
    \A r \in Active : lock[slot[r]] = r /\ slot[r] \notin expired

(* policy.maxConcurrentRuns: however requests scan, fail and expire around *)
(* each other, the active runs never outnumber the slots.                  *)
WithinLimit == Cardinality(Active) <= Limit

(* An unexpired entry disappears or changes hands only by the hand of its  *)
(* own request: a late release after expiry and takeover hits nobody else. *)
OnlyOwnerFrees ==
    [][\A k \in Slots :
          lock[k] # Nobody /\ k \notin expired /\ lock'[k] # lock[k]
              => phase[lock[k]] = "releasing" /\ phase'[lock[k]] # "releasing"]_vars

(* A slot left behind by a failed request (the instance died, the answer   *)
(* was lost, the release failed) can be taken by another one again.        *)
LeakedSlotRecovers ==
    \A k \in Slots, r \in Requests :
        lock[k] = r /\ phase[r] = "failed" ~> lock[k] # r \/ Available(k)

Gate == INSTANCE SlotGate WITH active <- Active

ImplementsSlotGate == Gate!Spec
=============================================================================
