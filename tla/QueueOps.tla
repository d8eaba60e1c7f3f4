------------------------------ MODULE QueueOps ------------------------------
(***************************************************************************)
(* What a ypipe_t promises to its one writer and its one reader, as        *)
(* operators on a record (the interface of src/ypipe_base.hpp with the     *)
(* results of src/ypipe.hpp):                                              *)
(*                                                                         *)
(*   ready    flushed items the reader has not read yet, oldest first      *)
(*   pending  items written and not flushed                                *)
(*   asleep   the reader's last call found nothing, and no flush has told  *)
(*            it otherwise since                                           *)
(*                                                                         *)
(* An item is a record with a flag "more": the message goes on with the    *)
(* next item.  FlushQueue is the specification with these operators as its *)
(* steps, which YPipe implements; Pipe uses them for its message queues.   *)
(***************************************************************************)
EXTENDS Naturals, Sequences, FiniteSetsExt

EmptyQueue == [ready |-> <<>>, pending |-> <<>>, asleep |-> FALSE]

\* How many pending items a flush publishes: all up to the last complete one.
Complete(pending) == Max({0} \cup {i \in DOMAIN pending : ~pending[i].more})

Write(q, item) == [q EXCEPT !.pending = Append(@, item)]

\* unwrite takes back items of an unfinished message only.
CanUnwrite(q) == Complete(q.pending) < Len(q.pending)

Unwrite(q) == [q EXCEPT !.pending = SubSeq(@, 1, Len(@) - 1)]

Flush(q) ==
    LET n == Complete(q.pending) IN
    IF n = 0 THEN q
    ELSE [ready   |-> q.ready \o SubSeq(q.pending, 1, n),
          pending |-> SubSeq(q.pending, n + 1, Len(q.pending)),
          asleep  |-> FALSE]

\* flush returns false: the caller has to wake the reader up.
FlushWakes(q) == q.asleep /\ Complete(q.pending) > 0

Readable(q) == q.ready # <<>>

CheckRead(q) == [q EXCEPT !.asleep = ~Readable(q)]

Read(q) == [CheckRead(q) EXCEPT !.ready = IF Readable(q) THEN Tail(@) ELSE @]
=============================================================================
