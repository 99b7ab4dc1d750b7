----------------------- MODULE DistributedLockProofs -----------------------
(***************************************************************************)
(* Proofs about the distributed locks and the concurrency limit built on   *)
(* them.  ConcurrencyGate, for every number of requests and slots: TypeOK  *)
(* and OnlyOwnerFrees hold always; the limit and the refinement of         *)
(* SlotGate hold while no run outlasts the lease of its slot.              *)
(* K8sLeaseLock, for any set of clients and leases that may run out at any *)
(* time: the one thing that ends mutual exclusion is a delete that removes *)
(* another lease than the one its client read.                             *)
(***************************************************************************)
EXTENDS ConcurrencyGate, K8sLeaseLock, FiniteSetTheorems, TLAPS

LEMMA InitTypeOK == Init => TypeOK
  BY LimitAssumption DEF Init, TypeOK, Slots, Phases

LEMMA NextTypeOK == TypeOK /\ [Next]_vars => TypeOK'
<1> SUFFICES ASSUME TypeOK, [Next]_vars PROVE TypeOK'
  OBVIOUS
<1> USE DEF TypeOK, Phases
<1>1. ASSUME NEW r \in Requests, Arrive(r) PROVE TypeOK'
  BY <1>1 DEF Arrive
<1>2. ASSUME NEW r \in Requests, Grant(r) PROVE TypeOK'
  BY <1>2 DEF Grant, Take
<1>3. ASSUME NEW r \in Requests, Deny(r) PROVE TypeOK'
  BY <1>3, LimitAssumption DEF Deny, Slots
<1>4. ASSUME NEW r \in Requests, AcquireFails(r) PROVE TypeOK'
  BY <1>4 DEF AcquireFails, Take
<1>5. ASSUME NEW r \in Requests, RunEnds(r) PROVE TypeOK'
  BY <1>5 DEF RunEnds
<1>6. ASSUME NEW r \in Requests, Release(r) PROVE TypeOK'
  BY <1>6 DEF Release, GiveBack
<1>7. ASSUME NEW r \in Requests, ReleaseFails(r) PROVE TypeOK'
  BY <1>7 DEF ReleaseFails, GiveBack
<1>8. ASSUME NEW r \in Requests, Dies(r) PROVE TypeOK'
  BY <1>8 DEF Dies
<1>9. ASSUME NEW k \in Slots, Expire(k) PROVE TypeOK'
  BY <1>9 DEF Expire
<1>10. CASE UNCHANGED vars
  BY <1>10 DEF vars
<1>11. QED
  BY <1>1, <1>2, <1>3, <1>4, <1>5, <1>6, <1>7, <1>8, <1>9, <1>10 DEF Next, RequestStep

(* Every request is in one of its phases and tries only slots that exist,  *)
(* and only requests of this gate appear in the slots.                     *)
THEOREM TypeCorrectness == Spec => []TypeOK
  BY InitTypeOK, NextTypeOK, PTL DEF Spec

LEMMA NextOnlyOwnerFrees ==
    ASSUME TypeOK, Next, NEW k \in Slots,
           lock[k] # Nobody, k \notin expired, lock'[k] # lock[k]
    PROVE  phase[lock[k]] = "releasing" /\ phase'[lock[k]] # "releasing"
<1> USE DEF TypeOK
<1>1. ASSUME NEW r \in Requests, Grant(r) \/ AcquireFails(r) PROVE FALSE
  BY <1>1 DEF Grant, AcquireFails, Take, Available
<1>2. ASSUME NEW r \in Requests, Release(r) \/ ReleaseFails(r)
      PROVE  phase[lock[k]] = "releasing" /\ phase'[lock[k]] # "releasing"
  BY <1>2 DEF Release, ReleaseFails, GiveBack
<1>3. ASSUME NEW r \in Requests, Arrive(r) \/ Deny(r) \/ RunEnds(r) \/ Dies(r) PROVE FALSE
  BY <1>3 DEF Arrive, Deny, RunEnds, Dies
<1>4. ASSUME NEW j \in Slots, Expire(j) PROVE FALSE
  BY <1>4 DEF Expire
<1>5. QED
  BY <1>1, <1>2, <1>3, <1>4 DEF Next, RequestStep

(* A live entry leaves its slot only when its own request releases it, so  *)
(* a release that comes after expiry and takeover frees nobody else.  This *)
(* needs no assumption on how long runs take.                              *)
THEOREM OnlyTheOwnerFrees == Spec => OnlyOwnerFrees
<1>1. TypeOK /\ [Next]_vars
      => [\A k \in Slots :
            lock[k] # Nobody /\ k \notin expired /\ lock'[k] # lock[k]
                => phase[lock[k]] = "releasing" /\ phase'[lock[k]] # "releasing"]_vars
  BY NextOnlyOwnerFrees
<1>2. QED
  BY TypeCorrectness, <1>1, PTL DEF Spec, OnlyOwnerFrees
-----------------------------------------------------------------------------
LEMMA NextHoldsSlot ==
    ASSUME RunsFitLease, TypeOK, ActiveRunsHoldTheirSlot, Next
    PROVE  ActiveRunsHoldTheirSlot'
<1> USE DEF TypeOK, ActiveRunsHoldTheirSlot, Active
<1>1. ASSUME NEW r \in Requests, Arrive(r) PROVE ActiveRunsHoldTheirSlot'
  BY <1>1 DEF Arrive
<1>2. ASSUME NEW r \in Requests, Grant(r) PROVE ActiveRunsHoldTheirSlot'
  BY <1>2, NobodyAssumption DEF Grant, Take, Available
<1>3. ASSUME NEW r \in Requests, Deny(r) PROVE ActiveRunsHoldTheirSlot'
  BY <1>3 DEF Deny
<1>4. ASSUME NEW r \in Requests, AcquireFails(r) PROVE ActiveRunsHoldTheirSlot'
  BY <1>4, NobodyAssumption DEF AcquireFails, Take, Available
<1>5. ASSUME NEW r \in Requests, RunEnds(r) PROVE ActiveRunsHoldTheirSlot'
  BY <1>5 DEF RunEnds
<1>6. ASSUME NEW r \in Requests, Release(r) PROVE ActiveRunsHoldTheirSlot'
  BY <1>6 DEF Release, GiveBack
<1>7. ASSUME NEW r \in Requests, ReleaseFails(r) PROVE ActiveRunsHoldTheirSlot'
  BY <1>7 DEF ReleaseFails, GiveBack
<1>8. ASSUME NEW r \in Requests, Dies(r) PROVE ActiveRunsHoldTheirSlot'
  BY <1>8 DEF Dies
<1>9. ASSUME NEW k \in Slots, Expire(k) PROVE ActiveRunsHoldTheirSlot'
  BY <1>9 DEF Expire
<1>10. QED
  BY <1>1, <1>2, <1>3, <1>4, <1>5, <1>6, <1>7, <1>8, <1>9 DEF Next, RequestStep

(* While no run outlasts its lease, a run that goes on owns the unexpired  *)
(* entry of its slot.                                                      *)
THEOREM RunsHoldTheirSlot ==
    ASSUME RunsFitLease PROVE Spec => []ActiveRunsHoldTheirSlot
<1>1. Init => ActiveRunsHoldTheirSlot
  BY DEF Init, ActiveRunsHoldTheirSlot, Active
<1>2. TypeOK /\ ActiveRunsHoldTheirSlot /\ [Next]_vars => ActiveRunsHoldTheirSlot'
  <2>1. CASE UNCHANGED vars
    BY <2>1 DEF vars, ActiveRunsHoldTheirSlot, Active
  <2>2. QED
    BY <2>1, NextHoldsSlot
<1>3. QED
  BY <1>1, <1>2, TypeCorrectness, PTL DEF Spec

(* Two active runs hold different slots, so there are at most Limit.       *)
LEMMA HoldingSlotsBounds ==
    TypeOK /\ ActiveRunsHoldTheirSlot => IsFiniteSet(Active) /\ WithinLimit
<1> SUFFICES ASSUME TypeOK, ActiveRunsHoldTheirSlot
             PROVE  IsFiniteSet(Active) /\ WithinLimit
  OBVIOUS
<1> DEFINE f == [r \in Active |-> slot[r]]
<1>1. f \in Injection(Active, Slots)
  BY DEF TypeOK, ActiveRunsHoldTheirSlot, Active, Injection, IsInjective
<1>2. IsFiniteSet(Slots) /\ Cardinality(Slots) = Limit
  BY LimitAssumption, FS_Interval DEF Slots
<1>3. QED
  BY <1>1, <1>2, FS_Injection DEF WithinLimit

(* policy.maxConcurrentRuns: the active runs never outnumber the slots.    *)
THEOREM LimitHolds ==
    ASSUME RunsFitLease PROVE Spec => []WithinLimit
  BY HoldingSlotsBounds, TypeCorrectness, RunsHoldTheirSlot, PTL
-----------------------------------------------------------------------------
LEMMA NextImplements ==
    ASSUME TypeOK, IsFiniteSet(Active), WithinLimit', Next
    PROVE  Gate!Next \/ UNCHANGED Active
<1>1. ASSUME NEW r \in Requests, Grant(r) PROVE Gate!Enter(r)
  <2>1. r \notin Active /\ Active' = Active \cup {r}
    BY <1>1 DEF Grant, Active, TypeOK
  <2>2. Cardinality(Active') = Cardinality(Active) + 1
    BY <2>1, FS_AddElement
  <2>3. Cardinality(Active) \in Nat
    BY FS_CardinalityType
  <2>4. Cardinality(Active) < Limit
    BY <2>2, <2>3, LimitAssumption DEF WithinLimit
  <2>5. QED
    BY <2>1, <2>4 DEF Gate!Enter, Gate!Cardinality, Cardinality
<1>2. ASSUME NEW r \in Requests, RunEnds(r) \/ Dies(r) PROVE \E R \in SUBSET Active : Gate!Leave(R)
  <2>1. Active' = Active \ (Active \cap {r})
    BY <1>2 DEF RunEnds, Dies, Active, TypeOK
  <2>2. QED
    BY <2>1 DEF Gate!Leave
<1>3. ASSUME NEW r \in Requests,
             Arrive(r) \/ Deny(r) \/ AcquireFails(r) \/ Release(r) \/ ReleaseFails(r)
      PROVE  UNCHANGED Active
  BY <1>3 DEF Arrive, Deny, AcquireFails, Release, ReleaseFails, Active, TypeOK
<1>4. ASSUME NEW k \in Slots, Expire(k) PROVE UNCHANGED Active
  BY <1>4 DEF Expire, Active
<1>5. QED
  BY <1>1, <1>2, <1>3, <1>4 DEF Next, RequestStep, Gate!Next

(* While no run outlasts its lease, the slot locks implement the one       *)
(* counter that SlotGate describes.                                        *)
THEOREM ImplementsGate ==
    ASSUME RunsFitLease PROVE Spec => ImplementsSlotGate
<1>1. Init => Gate!Init
  BY DEF Init, Gate!Init, Active
<1>2. TypeOK /\ IsFiniteSet(Active) /\ WithinLimit' /\ [Next]_vars => [Gate!Next]_Active
  <2>1. CASE UNCHANGED vars
    BY <2>1 DEF vars, Active
  <2>2. QED
    BY <2>1, NextImplements
<1>3. QED
  BY <1>1, <1>2, TypeCorrectness, RunsHoldTheirSlot, HoldingSlotsBounds, PTL
     DEF Spec, ImplementsSlotGate, Gate!Spec
-----------------------------------------------------------------------------
(* K8sLeaseLock *)

LEMMA InitLeaseTypeOK == LeaseInit => LeaseTypeOK
  BY DEF LeaseInit, LeaseTypeOK, Steps

LEMMA NextLeaseTypeOK == LeaseTypeOK /\ [LeaseNext]_leaseVars => LeaseTypeOK'
<1> SUFFICES ASSUME LeaseTypeOK, [LeaseNext]_leaseVars PROVE LeaseTypeOK'
  OBVIOUS
<1> USE DEF LeaseTypeOK, Steps, Goto
<1>1. ASSUME NEW c \in Clients, TryAcquire(c) PROVE LeaseTypeOK'
  BY <1>1 DEF TryAcquire
<1>2. ASSUME NEW c \in Clients, ReadLease(c) PROVE LeaseTypeOK'
  BY <1>2 DEF ReadLease, Judge
<1>3. ASSUME NEW c \in Clients, DeleteExpired(c) PROVE LeaseTypeOK'
  BY <1>3 DEF DeleteExpired, DeleteByName
<1>4. ASSUME NEW c \in Clients, CreateLease(c) PROVE LeaseTypeOK'
  BY <1>4 DEF CreateLease
<1>5. ASSUME NEW c \in Clients, ReleaseLock(c) PROVE LeaseTypeOK'
  BY <1>5 DEF ReleaseLock
<1>6. ASSUME NEW c \in Clients, ReadToRelease(c) PROVE LeaseTypeOK'
  BY <1>6 DEF ReadToRelease, Judge
<1>7. ASSUME NEW c \in Clients, DeleteToRelease(c) PROVE LeaseTypeOK'
  BY <1>7 DEF DeleteToRelease, DeleteByName
<1>8. ASSUME NEW c \in Clients, CallFails(c) PROVE LeaseTypeOK'
  BY <1>8 DEF CallFails, DeleteByName
<1>9. ASSUME NEW c \in Clients, LeaseRunsOut(c) PROVE LeaseTypeOK'
  BY <1>9 DEF LeaseRunsOut
<1>10. CASE UNCHANGED leaseVars
  BY <1>10 DEF leaseVars
<1>11. QED
  BY <1>1, <1>2, <1>3, <1>4, <1>5, <1>6, <1>7, <1>8, <1>9, <1>10 DEF LeaseNext

(* Only a client whose create went through ever has a lease period.        *)
THEOREM LeaseTypeCorrectness == LeaseSpec => []LeaseTypeOK
  BY InitLeaseTypeOK, NextLeaseTypeOK, PTL DEF LeaseSpec
-----------------------------------------------------------------------------
(* An acquisition has no lease before its create, and none to come after.  *)
Early == {"idle", "read", "delete expired", "create", "denied"}

CreatedLease == lease \in Clients => pc[lease] \notin Early

(* What a client is about to delete is the lease of an acquisition that    *)
(* was out of time and stays so, or its own.                               *)
JudgesRightly ==
    \A c \in Clients :
        /\ pc[c] = "delete expired" =>
               judged[c] \in Clients /\ judged[c] \notin inTime /\ pc[judged[c]] \notin Early
        /\ pc[c] = "delete to release" => judged[c] = c

LeaseInv == CreatedLease /\ JudgesRightly /\ HeldLeaseExists

LEMMA NextCreatedLease == LeaseTypeOK /\ CreatedLease /\ LeaseNext => CreatedLease'
<1> SUFFICES ASSUME LeaseTypeOK, CreatedLease, NEW c \in Clients,
                    \/ TryAcquire(c) \/ ReadLease(c) \/ DeleteExpired(c) \/ CreateLease(c)
                    \/ ReleaseLock(c) \/ ReadToRelease(c) \/ DeleteToRelease(c)
                    \/ CallFails(c) \/ LeaseRunsOut(c)
             PROVE  CreatedLease'
  BY DEF LeaseNext
<1> USE NoLeaseAssumption DEF LeaseTypeOK, Steps, Goto, CreatedLease, Early
<1>1. CASE TryAcquire(c) \/ ReadLease(c)
  BY <1>1 DEF TryAcquire, ReadLease
<1>2. CASE DeleteExpired(c) \/ DeleteToRelease(c)
  BY <1>2 DEF DeleteExpired, DeleteToRelease, DeleteByName
<1>3. CASE CreateLease(c)
  BY <1>3 DEF CreateLease
<1>4. CASE ReleaseLock(c) \/ ReadToRelease(c) \/ LeaseRunsOut(c)
  BY <1>4 DEF ReleaseLock, ReadToRelease, LeaseRunsOut
<1>5. CASE CallFails(c)
  BY <1>5 DEF CallFails, DeleteByName
<1>6. QED
  BY <1>1, <1>2, <1>3, <1>4, <1>5

LEMMA NextJudgesRightly ==
    LeaseTypeOK /\ CreatedLease /\ JudgesRightly /\ LeaseNext => JudgesRightly'
<1> SUFFICES ASSUME LeaseTypeOK, CreatedLease, JudgesRightly, NEW c \in Clients,
                    \/ TryAcquire(c) \/ ReadLease(c) \/ DeleteExpired(c) \/ CreateLease(c)
                    \/ ReleaseLock(c) \/ ReadToRelease(c) \/ DeleteToRelease(c)
                    \/ CallFails(c) \/ LeaseRunsOut(c)
             PROVE  JudgesRightly'
  BY DEF LeaseNext
<1> USE NoLeaseAssumption DEF LeaseTypeOK, Steps, Goto, CreatedLease, JudgesRightly, Early
<1>1. CASE TryAcquire(c)
  BY <1>1 DEF TryAcquire
<1>2. CASE ReadLease(c)
  <2>1. CASE Reclaimable /\ Goto(c, "delete expired") /\ Judge(c)
    <3>1. lease \in Clients /\ lease \notin inTime /\ lease # c /\ pc'[lease] = pc[lease]
      BY <1>2, <2>1 DEF ReadLease, Reclaimable
    <3>2. inTime' = inTime
      BY <1>2 DEF ReadLease
    <3>3. ASSUME NEW d \in Clients, d # c PROVE pc'[d] = pc[d] /\ judged'[d] = judged[d]
      BY <2>1, <3>3 DEF Judge
    <3>4. pc'[c] = "delete expired" /\ judged'[c] = lease
      BY <2>1 DEF Judge
    <3>5. ASSUME NEW d \in Clients, d # c, pc[d] = "delete expired" PROVE judged[d] # c
      BY <1>2, <3>5 DEF ReadLease
    <3>6. QED
      BY <3>1, <3>2, <3>3, <3>4, <3>5
  <2>2. CASE (Goto(c, "create") \/ Goto(c, "denied")) /\ UNCHANGED judged
    BY <1>2, <2>2 DEF ReadLease
  <2>3. QED
    BY <1>2, <2>1, <2>2 DEF ReadLease
<1>3. CASE DeleteExpired(c) \/ DeleteToRelease(c)
  BY <1>3 DEF DeleteExpired, DeleteToRelease, DeleteByName
<1>4. CASE CreateLease(c)
  BY <1>4 DEF CreateLease
<1>5. CASE ReleaseLock(c) \/ LeaseRunsOut(c)
  BY <1>5 DEF ReleaseLock, LeaseRunsOut
<1>6. CASE ReadToRelease(c)
  <2>1. CASE lease = c /\ Goto(c, "delete to release") /\ Judge(c)
    <3>1. ASSUME NEW d \in Clients, d # c PROVE pc'[d] = pc[d] /\ judged'[d] = judged[d]
      BY <2>1, <3>1 DEF Judge
    <3>2. pc'[c] = "delete to release" /\ judged'[c] = c /\ inTime' = inTime
      BY <1>6, <2>1 DEF ReadToRelease, Judge
    <3>3. QED
      BY <3>1, <3>2
  <2>2. CASE lease # c /\ Goto(c, "released") /\ UNCHANGED judged
    BY <1>6, <2>2 DEF ReadToRelease
  <2>3. QED
    BY <1>6, <2>1, <2>2 DEF ReadToRelease
<1>7. CASE CallFails(c)
  BY <1>7 DEF CallFails, DeleteByName
<1>8. QED
  BY <1>1, <1>2, <1>3, <1>4, <1>5, <1>6, <1>7

LEMMA NextHeldLeaseExists ==
    LeaseTypeOK /\ JudgesRightly /\ HeldLeaseExists /\ LeaseNext => HeldLeaseExists'
<1> SUFFICES ASSUME LeaseTypeOK, JudgesRightly, HeldLeaseExists, ~ misfired', NEW c \in Clients,
                    \/ TryAcquire(c) \/ ReadLease(c) \/ DeleteExpired(c) \/ CreateLease(c)
                    \/ ReleaseLock(c) \/ ReadToRelease(c) \/ DeleteToRelease(c)
                    \/ CallFails(c) \/ LeaseRunsOut(c)
             PROVE  (\A d \in Holders : lease = d)'
  BY DEF LeaseNext, HeldLeaseExists
<1> USE NoLeaseAssumption
    DEF LeaseTypeOK, Steps, Goto, JudgesRightly, HeldLeaseExists, Holders, Early
<1>1. CASE TryAcquire(c) \/ ReadLease(c)
  BY <1>1 DEF TryAcquire, ReadLease
<1>2. ASSUME DeleteByName(c), pc[c] \in {"delete expired", "delete to release"},
             \E step \in Steps \ {"held"} : Goto(c, step)
      PROVE  (\A d \in Holders : lease = d)'
  <2>1. lease \in {judged[c], NoLease} /\ ~ misfired /\ inTime' = inTime
    BY <1>2 DEF DeleteByName
  <2>2. ASSUME NEW d \in Clients, pc'[d] = "held", d \in inTime' PROVE FALSE
    <3>1. d # c /\ pc[d] = "held" /\ d \in inTime
      BY <1>2, <2>1, <2>2
    <3>2. lease = d
      BY <2>1, <3>1
    <3>3. judged[c] = d
      BY <2>1, <3>2
    <3>4. QED
      BY <1>2, <3>1, <3>3
  <2>3. QED
    BY <2>2
<1>3. CASE DeleteExpired(c) \/ DeleteToRelease(c)
  BY <1>2, <1>3 DEF DeleteExpired, DeleteToRelease
<1>4. CASE CreateLease(c)
  BY <1>4 DEF CreateLease
<1>5. CASE ReleaseLock(c) \/ ReadToRelease(c) \/ LeaseRunsOut(c)
  BY <1>5 DEF ReleaseLock, ReadToRelease, LeaseRunsOut
<1>6. CASE CallFails(c)
  <2>1. CASE pc[c] \in {"delete expired", "delete to release"} /\ DeleteByName(c)
    BY <1>2, <1>6, <2>1 DEF CallFails
  <2>2. CASE UNCHANGED <<lease, inTime, judged, misfired>>
    BY <1>6, <2>2 DEF CallFails
  <2>3. CASE /\ pc[c] = "create" /\ lease = NoLease
             /\ lease' = c /\ inTime' = inTime \cup {c}
             /\ UNCHANGED <<judged, misfired>>
    BY <1>6, <2>3 DEF CallFails
  <2>4. QED
    BY <1>6, <2>1, <2>2, <2>3 DEF CallFails
<1>7. QED
  BY <1>1, <1>3, <1>4, <1>5, <1>6

LEMMA LeaseInvIsInvariant == LeaseSpec => []LeaseInv
<1>1. LeaseInit => LeaseInv
  BY NoLeaseAssumption
     DEF LeaseInit, LeaseInv, CreatedLease, JudgesRightly, HeldLeaseExists, Holders
<1>2. LeaseTypeOK /\ LeaseInv /\ [LeaseNext]_leaseVars => LeaseInv'
  <2>1. CASE UNCHANGED leaseVars
    BY <2>1 DEF leaseVars, LeaseInv, CreatedLease, JudgesRightly, HeldLeaseExists, Holders
  <2>2. QED
    BY <2>1, NextCreatedLease, NextJudgesRightly, NextHeldLeaseExists DEF LeaseInv
<1>3. QED
  BY <1>1, <1>2, LeaseTypeCorrectness, PTL DEF LeaseSpec

(* Until a delete has removed another lease than the one its client read,  *)
(* a client that holds the lock in time finds its own lease there: no      *)
(* reclaim, release or create of another took it.  This assumes nothing of *)
(* how long clients hold the lock, nor of how many reclaim at a time.      *)
THEOREM HoldersKeepTheirLease == LeaseSpec => []HeldLeaseExists
<1>1. LeaseInv => HeldLeaseExists
  BY DEF LeaseInv
<1>2. QED
  BY <1>1, LeaseInvIsInvariant, PTL

(* Whenever two clients hold the lock within their lease periods, a delete *)
(* has removed another lease than the one its client read: that race of    *)
(* deletes by name is the only way to two holders.                         *)
THEOREM OnlyMisfiresBreakExclusion == LeaseSpec => [](~ SingleHolder => misfired)
<1>1. HeldLeaseExists /\ ~ misfired => SingleHolder
  <2> SUFFICES ASSUME HeldLeaseExists, ~ misfired PROVE Cardinality(Holders) <= 1
    BY DEF SingleHolder
  <2>1. Holders \in SUBSET {lease}
    BY DEF HeldLeaseExists, Holders
  <2>2. IsFiniteSet({lease}) /\ Cardinality({lease}) = 1
    BY FS_Singleton
  <2>3. QED
    BY <2>1, <2>2, FS_Subset
<1>2. QED
  BY <1>1, HoldersKeepTheirLease, PTL
=============================================================================
