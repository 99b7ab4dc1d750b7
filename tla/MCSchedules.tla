---------------------------- MODULE MCSchedules ----------------------------
(* Instances of Schedules for TLC.  c1 ticks and c2 runs schedules by hand *)
(* in the process of the API server, c3 ticks from the command line.       *)
EXTENDS Schedules

CONSTANTS c1, c2, c3, p1, p2

TwoProcesses == [c \in Clients |-> IF c = c3 THEN p2 ELSE p1]

\* Rows and entries of the file meet nowhere but in the order of a tick: an
\* instance has one kind of them.  Of what people do and of crashes any two
\* come together in a behaviour.
OneKind == \/ \A s \in Rows : row[s] = Gone
           \/ \A s \in FileSchedules : row[s] = Gone
TwoEvents == OneKind /\ edits + crashes <= 2
=============================================================================
