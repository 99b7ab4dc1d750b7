---------------------------- MODULE MCWorkQueue ----------------------------
(* Two processes, c3 in the second; requests of both modes, the first of   *)
(* which is dropped when it meets its payload, while the second replaces   *)
(* whatever has its key.                                                   *)
EXTENDS WorkQueue

CONSTANTS c1, c2, c3, p1, p2

MCProcessOf == [c \in Clients |-> IF c = c3 THEN p2 ELSE p1]

MCRequests ==
    { [payload |-> "x", mode |-> "collect",  key |-> "k", dedupe |-> "payload",    drop |-> "keep-old"],
      [payload |-> "y", mode |-> "followup", key |-> "k", dedupe |-> "dedupe-key", drop |-> "keep-new"] }

MCOneRequest == {r \in MCRequests : r.payload = "x"}

\* Bound: the safety properties end at a misfire; from there on the calls
\* are followed to their return with one kind of request and one item.
OneItemAfterMisfire ==
    misfired => /\ accepted <= 1
                /\ \A c \in Clients : request[c] \in MCOneRequest \cup {NoRequest}
=============================================================================
