--------------------------- MODULE MCDagExecution ---------------------------
(* Instances of DagExecution for TLC. *)
EXTENDS DagExecution

RetryOnce == [s \in Steps |-> 2]
FirstStep == {1}
LastStep == {StepCount}
=============================================================================
