----------------------------- MODULE StepOrder -----------------------------
(***************************************************************************)
(* What a workflow DAG run promises about its steps, without attempts,     *)
(* readiness flags or a run status: a step begins only after every step it *)
(* depends on is done, done is for ever, and a step that stopped short     *)
(* (failed or cancelled) may be put back in the waiting room.              *)
(***************************************************************************)
EXTENDS Naturals

CONSTANT Steps          \* the steps of the run

VARIABLES dependencies, \* dependencies[s]: the steps s depends on
          stage         \* stage[s]: how far s has come

vars == <<dependencies, stage>>

Stages == {"waiting", "running", "done", "stopped"}

TypeOK == /\ dependencies \in [Steps -> SUBSET Steps]
          /\ stage \in [Steps -> Stages]

Init == /\ dependencies \in [Steps -> SUBSET Steps]
        /\ stage = [s \in Steps |-> "waiting"]

Done == {s \in Steps : stage[s] = "done"}

(* Every member of S moves to stage to, the others stay. *)
Move(S, to) == stage' = [s \in Steps |-> IF s \in S THEN to ELSE stage[s]]

Begin(s) == /\ stage[s] = "waiting"
            /\ dependencies[s] \subseteq Done
            /\ Move({s}, "running")
            /\ UNCHANGED dependencies

Finish(s) == /\ stage[s] = "running"
             /\ Move({s}, "done")
             /\ UNCHANGED dependencies

(* One step fails or is cancelled, or a restart gives up on all that ran. *)
Stop(S) == /\ \A s \in S : stage[s] = "running"
           /\ Move(S, "stopped")
           /\ UNCHANGED dependencies

Retry(S) == /\ \A s \in S : stage[s] \in {"waiting", "stopped"}
            /\ Move(S, "waiting")
            /\ UNCHANGED dependencies

Next == \/ \E s \in Steps : Begin(s) \/ Finish(s)
        \/ \E S \in SUBSET Steps : Stop(S) \/ Retry(S)

Spec == Init /\ [][Next]_vars
=============================================================================
