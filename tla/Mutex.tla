------------------------------- MODULE Mutex -------------------------------
(***************************************************************************)
(* What every lock of this repository promises: at most one client holds   *)
(* it.  A holder loses the lock by its release, by the end of its lease or *)
(* by the death of its process.                                            *)
(***************************************************************************)
CONSTANT Clients

VARIABLE holders    \* the clients that hold the lock

Init == holders = {}

Acquire(c) == holders = {} /\ holders' = {c}

Lose == holders # {} /\ holders' = {}

Next == Lose \/ \E c \in Clients : Acquire(c)

Spec == Init /\ [][Next]_holders
=============================================================================
