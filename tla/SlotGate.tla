------------------------------ MODULE SlotGate ------------------------------
(***************************************************************************)
(* What policy.maxConcurrentRuns promises: at most Limit agent runs are    *)
(* active at the same time, over all instances of the control plane.       *)
(***************************************************************************)
EXTENDS Naturals, FiniteSets

CONSTANTS Requests,     \* requests to run an agent
          Limit         \* policy.maxConcurrentRuns

VARIABLE active         \* the requests whose run is going on

Init == active = {}

Enter(r) == /\ r \notin active
            /\ Cardinality(active) < Limit
            /\ active' = active \cup {r}

(* Several runs may end at once when the instance that hosts them dies. *)
Leave(R) == active' = active \ R

Next == \/ \E r \in Requests : Enter(r)
        \/ \E R \in SUBSET active : Leave(R)

Spec == Init /\ [][Next]_active
=============================================================================
