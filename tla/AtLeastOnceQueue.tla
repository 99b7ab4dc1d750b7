-------------------------- MODULE AtLeastOnceQueue --------------------------
(***************************************************************************)
(* What a session's work queue promises: work enters at the end or takes   *)
(* the place of a duplicate; it is handled from the front in order, and it *)
(* leaves only after it was handled.  Work may be handled more than once.  *)
(***************************************************************************)
EXTENDS Naturals, Sequences

CONSTANTS Items,            \* items of work, each with an id
          Duplicates(_, _)  \* whether the second item may stand in for the first

VARIABLES queue,
          handled   \* the ids of the items that were handled to the end

vars == <<queue, handled>>

FrontIds(n) == {queue[i].id : i \in 1..n}

Init == queue = <<>> /\ handled = {}

Put(item) == queue' = Append(queue, item) /\ UNCHANGED handled

Replace(i, item) == /\ Duplicates(queue[i], item)
                    /\ queue' = [queue EXCEPT ![i] = item]
                    /\ UNCHANGED handled

Handle(n) == handled' = handled \cup FrontIds(n) /\ UNCHANGED queue

Remove(n) == /\ FrontIds(n) \subseteq handled
             /\ queue' = SubSeq(queue, n + 1, Len(queue))
             /\ UNCHANGED handled

Next == \/ \E item \in Items : Put(item) \/ \E i \in DOMAIN queue : Replace(i, item)
        \/ \E n \in 1..Len(queue) : Handle(n) \/ Remove(n)

Spec == Init /\ [][Next]_vars
=============================================================================
