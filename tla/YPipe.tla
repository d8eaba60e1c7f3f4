------------------------------- MODULE YPipe -------------------------------
(***************************************************************************)
(* ypipe_t (src/ypipe.hpp): the lock-free queue between one writer thread  *)
(* and one reader thread that mailboxes and message pipes are built on.    *)
(*                                                                         *)
(* A pointer into the queue is modelled by the number of items pushed      *)
(* before the element it points to; `log' holds every item pushed and not  *)
(* unpushed, so _queue.back() is position Len(log) (the terminator) and    *)
(* the item at position p is log[p + 1].  The two threads share the items  *)
(* and _c only; a step ends at each access to _c.                          *)
(***************************************************************************)
EXTENDS Integers, Sequences

CONSTANTS Items,      \* the items written, records with a flag "more"
          MaxWrites   \* bound: items pushed and not taken back

ASSUME ItemsAssumption == \A item \in Items : item.more \in BOOLEAN
ASSUME MaxWritesAssumption == MaxWrites \in Nat

NULL == -1

VARIABLES log, front,   \* _queue, position of _queue.front()
          w, f,         \* writer: first un-flushed item, flush up to here
          r,            \* reader: first un-prefetched item
          c,            \* shared: past the last flushed item, NULL = asleep
          flushing,     \* writer is between the failed cas and the set of _c
          idle          \* what the reader knows: its last call found nothing,
                        \* and no flush has returned false since

vars == <<log, front, w, f, r, c, flushing, idle>>
writerVars == <<log, w, f, flushing>>
readerVars == <<front, r>>

Init == /\ log = <<>> /\ front = 0
        /\ w = 0 /\ f = 0 /\ r = 0 /\ c = 0
        /\ flushing = FALSE /\ idle = FALSE

-----------------------------------------------------------------------------
(* The writer thread.                                                      *)

WriteIgnoringMore(item) ==
    /\ ~flushing
    /\ Len(log) < MaxWrites
    /\ log' = Append(log, item)
    /\ f' = Len(log) + 1
    /\ UNCHANGED <<w, c, flushing, idle, readerVars>>

Write(item) ==
    /\ ~flushing
    /\ Len(log) < MaxWrites
    /\ log' = Append(log, item)
    /\ f' = IF item.more THEN f ELSE Len(log) + 1
    /\ UNCHANGED <<w, c, flushing, idle, readerVars>>

UnwriteAnything ==
    /\ ~flushing
    /\ log # <<>>
    /\ log' = SubSeq(log, 1, Len(log) - 1)
    /\ UNCHANGED <<w, f, c, flushing, idle, readerVars>>

Unwrite ==
    /\ ~flushing
    /\ f # Len(log)
    /\ log' = SubSeq(log, 1, Len(log) - 1)
    /\ UNCHANGED <<w, f, c, flushing, idle, readerVars>>

FlushIgnoringCas ==
    /\ ~flushing
    /\ w # f
    /\ c' = IF c = w THEN f ELSE c
    /\ w' = f
    /\ UNCHANGED <<log, f, flushing, idle, readerVars>>

\* flush with the reader awake: the cas of _c from _w to _f succeeds.
FlushAwake ==
    /\ ~flushing
    /\ w # f
    /\ c = w
    /\ c' = f
    /\ w' = f
    /\ UNCHANGED <<log, f, flushing, idle, readerVars>>

\* flush with the reader asleep: the cas fails ...
FlushAsleep ==
    /\ ~flushing
    /\ w # f
    /\ c # w
    /\ flushing' = TRUE
    /\ UNCHANGED <<log, w, f, c, idle, readerVars>>

\* ... _c is set non-atomically and flush returns false.
FlushSet ==
    /\ flushing
    /\ c' = f
    /\ w' = f
    /\ flushing' = FALSE
    /\ idle' = FALSE
    /\ UNCHANGED <<log, f, readerVars>>

-----------------------------------------------------------------------------
(* The reader thread.                                                      *)

PrefetchedOrAsleep == front # r

Prefetched == front # r /\ r # NULL

\* Where check_read leaves _r: the cas returns what _c was.
Fetch == IF Prefetched THEN r ELSE c

\* What check_read returns.
Readable == Fetch \notin {front, NULL}

PrefetchByExchange == /\ r' = Fetch
                      /\ c' = IF ~Prefetched THEN NULL ELSE c

Prefetch == /\ r' = Fetch
            /\ c' = IF ~Prefetched /\ c = front THEN NULL ELSE c

CheckRead == /\ Prefetch
             /\ idle' = ~Readable
             /\ UNCHANGED <<front, writerVars>>

Read == /\ Prefetch
        /\ front' = IF Readable THEN front + 1 ELSE front
        /\ idle' = ~Readable
        /\ UNCHANGED writerVars

-----------------------------------------------------------------------------
Writer == (\E item \in Items : Write(item)) \/ Unwrite
          \/ FlushAwake \/ FlushAsleep \/ FlushSet

Reader == CheckRead \/ Read

Next == Writer \/ Reader

Spec == Init /\ [][Next]_vars

-----------------------------------------------------------------------------
(* Properties                                                              *)

TypeOK == /\ log \in Seq(Items)
          /\ front \in Nat /\ w \in Nat /\ f \in Nat
          /\ r \in Nat \cup {NULL} /\ c \in Nat \cup {NULL}
          /\ flushing \in BOOLEAN /\ idle \in BOOLEAN

\* A reader that was told "nothing to read" misses nothing: as long as no
\* flush has returned false, nothing it has not read is flushed (flush and
\* check_read agree through _c whatever the interleaving).
SleeperMissesNothing == idle => front = w

\* The reader never gets part of a message: what it may read, and what a
\* flush in progress would publish, ends with a complete item.
WholeMessages == \A p \in {w, f} : p > 0 => p <= Len(log) /\ ~log[p].more

\* The reader's elements and the writer's elements are disjoint: nothing
\* flushed is ever overwritten or taken back, and the reader only passes
\* flushed elements (the demand of the comment in src/yqueue.hpp:45).
FlushedIsFixed ==
    [][/\ \A p \in 1..w : p <= Len(log') /\ log'[p] = log[p]
       /\ front' <= w']_vars

\* A flush that returns false (the FlushSet step) finds the reader asleep:
\* there are no spurious wake-ups as long as the reader waits for one.
WakesSleepersOnly == [][flushing /\ ~flushing' => idle]_vars

\* The order of the positions, and what _c and _r can be: the inductive
\* invariant behind the properties above (YPipeProofs).
Positions ==
    /\ front <= w /\ w <= f /\ f <= Len(log)
    /\ c \in {w, NULL}
    /\ r # NULL => front <= r /\ r <= w
    /\ idle = (c = NULL)
    /\ c = NULL => front = w
    /\ flushing => c = NULL

\* A ypipe is a FIFO queue: the calls of the two threads take effect one
\* after the other, at the accesses to _c.
Queue == INSTANCE FlushQueue
    WITH queue <- [ready   |-> SubSeq(log, front + 1, w),
                   pending |-> SubSeq(log, w + 1, Len(log)),
                   asleep  |-> idle]

IsFlushQueue == Queue!Spec
=============================================================================
