----------------------------- MODULE FlushQueue -----------------------------
(***************************************************************************)
(* The abstract specification of a ypipe_t: every call is one atomic step  *)
(* on one queue.                                                           *)
(***************************************************************************)
EXTENDS QueueOps

CONSTANT Items

VARIABLE queue

Init == queue = EmptyQueue

Next == \/ \E item \in Items : queue' = Write(queue, item)
        \/ CanUnwrite(queue) /\ queue' = Unwrite(queue)
        \/ queue' = Flush(queue)
        \/ queue' = CheckRead(queue)
        \/ queue' = Read(queue)

Spec == Init /\ [][Next]_queue
=============================================================================
