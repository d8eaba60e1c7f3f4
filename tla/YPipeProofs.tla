---------------------------- MODULE YPipeProofs ----------------------------
(***************************************************************************)
(* Proofs about YPipe, for every set of items and every length of the      *)
(* queue.                                                                  *)
(***************************************************************************)
EXTENDS YPipe, SequenceTheorems, TLAPS

IInv == TypeOK /\ Positions /\ WholeMessages

(* A prefix of a sequence, as unwrite leaves it.                           *)
LEMMA PrefixProperties ==
  ASSUME NEW S, NEW s \in Seq(S), NEW n \in 0..Len(s)
  PROVE  /\ SubSeq(s, 1, n) \in Seq(S)
         /\ Len(SubSeq(s, 1, n)) = n
         /\ \A i \in 1..n : SubSeq(s, 1, n)[i] = s[i]
<1>1. n \in Int /\ 1 \in Int /\ n - 1 + 1 = n
  OBVIOUS
<1>2. \A i \in 1..n : s[i] \in S
  OBVIOUS
<1>3. /\ SubSeq(s, 1, n) \in Seq(S)
      /\ Len(SubSeq(s, 1, n)) = IF 1 <= n THEN n - 1 + 1 ELSE 0
      /\ \A i \in 1..(n - 1 + 1) : SubSeq(s, 1, n)[i] = s[1 + i - 1]
  BY <1>1, <1>2, SubSeqProperties
<1> QED BY <1>1, <1>3

(* The constructor leaves all pointers on the terminator.                  *)
LEMMA InitIInv == Init => IInv
<1> SUFFICES ASSUME Init PROVE IInv
  OBVIOUS
<1>1. TypeOK
  <2>1. log \in Seq(Items)
    BY DEF Init
  <2>2. flushing \in BOOLEAN /\ idle \in BOOLEAN
    BY Zenon DEF Init
  <2> QED BY <2>1, <2>2 DEF Init, TypeOK
<1>4. WholeMessages
  BY DEF Init, WholeMessages
<1>5. flushing => c = NULL
  BY Zenon DEF Init
<1>2. c # NULL
  BY DEF Init, NULL
<1>3. idle = (c = NULL)
  BY <1>2, Zenon DEF Init
<1> QED BY <1>1, <1>2, <1>3, <1>4, <1>5 DEF Init, IInv, Positions, NULL

(* Every step of either thread preserves the invariant.                    *)
LEMMA NextIInv == IInv /\ [Next]_vars => IInv'
<1> SUFFICES ASSUME IInv, [Next]_vars PROVE IInv'
  OBVIOUS
<1> USE DEF IInv, TypeOK, Positions, WholeMessages, NULL, readerVars, writerVars
<1>1. ASSUME NEW item \in Items, Write(item) PROVE IInv'
  <2>1. item.more \in BOOLEAN
    BY ItemsAssumption
  <2>2. /\ Len(log') = Len(log) + 1
        /\ log'[Len(log) + 1] = item
        /\ \A p \in 1..Len(log) : log'[p] = log[p]
    BY <1>1 DEF Write
  <2> QED BY <1>1, <2>1, <2>2 DEF Write
<1>2. CASE Unwrite
  <2>1. log' = SubSeq(log, 1, Len(log) - 1) /\ log \in Seq(Items)
    BY <1>2 DEF Unwrite
  <2>2. Len(log) - 1 \in 0..Len(log)
    BY <1>2 DEF Unwrite
  <2>3. /\ Len(log') = Len(log) - 1
        /\ log' \in Seq(Items)
        /\ \A p \in 1..Len(log) - 1 : log'[p] = log[p]
    BY <2>1, <2>2, PrefixProperties
  <2> QED BY <1>2, <2>3 DEF Unwrite
<1>3. CASE FlushAwake
  BY <1>3 DEF FlushAwake
<1>4. CASE FlushAsleep
  BY <1>4 DEF FlushAsleep
<1>5. CASE FlushSet
  <2>1. c' # NULL
    BY <1>5 DEF FlushSet
  <2>2. idle' = (c' = NULL)
    BY <1>5, <2>1, Zenon DEF FlushSet
  <2>3. flushing' => c' = NULL
    BY <1>5, Zenon DEF FlushSet
  <2>4. TypeOK'
    BY <1>5 DEF FlushSet
  <2>5. Positions'
    BY <1>5, <2>1, <2>2, <2>3 DEF FlushSet
  <2>6. WholeMessages'
    BY <1>5 DEF FlushSet
  <2> QED BY <2>4, <2>5, <2>6
<1>6. CASE CheckRead
  BY <1>6 DEF CheckRead, Prefetch, Readable, Fetch, Prefetched
<1>7. CASE Read
  BY <1>7 DEF Read, Prefetch, Readable, Fetch, Prefetched
<1>8. CASE UNCHANGED vars
  BY <1>8 DEF vars
<1> QED BY <1>1, <1>2, <1>3, <1>4, <1>5, <1>6, <1>7, <1>8 DEF Next, Writer, Reader

(* The invariant holds in every state of every run.                        *)
LEMMA AlwaysIInv == Spec => []IInv
  BY InitIInv, NextIInv, PTL DEF Spec

(* The variables of the pipe keep their types.                             *)
THEOREM TypeCorrect == Spec => []TypeOK
<1>1. IInv => TypeOK
  BY DEF IInv
<1> QED BY <1>1, AlwaysIInv, PTL

(* check_read and flush never lose a wake-up: a reader that was told there *)
(* is nothing to read has read all that is flushed.                        *)
THEOREM NoLostWakeup == Spec => []SleeperMissesNothing
<1>1. IInv => SleeperMissesNothing
  BY DEF IInv, Positions, SleeperMissesNothing
<1> QED BY <1>1, AlwaysIInv, PTL

(* write moves _f past complete items only, so flush publishes no part of  *)
(* a message.                                                              *)
THEOREM NoPartialMessage == Spec => []WholeMessages
<1>1. IInv => WholeMessages
  BY DEF IInv
<1> QED BY <1>1, AlwaysIInv, PTL

(* Writer and reader never touch the same element: unwrite stops at _f and *)
(* the reader stops at _w.                                                 *)
THEOREM DisjointElements == Spec => FlushedIsFixed
<1> DEFINE A == /\ \A p \in 1..w : p <= Len(log') /\ log'[p] = log[p]
                /\ front' <= w'
<1>1. IInv /\ IInv' /\ [Next]_vars => [A]_vars
  <2> SUFFICES ASSUME IInv, IInv', Next PROVE A
    BY DEF vars
  <2>1. front' <= w'
    BY DEF IInv, Positions
  <2>2. \A p \in 1..w : p <= Len(log') /\ log'[p] = log[p]
    <3> USE DEF IInv, TypeOK, Positions, readerVars, writerVars
    <3>1. CASE \E item \in Items : Write(item)
      BY <3>1 DEF Write
    <3>2. CASE Unwrite
      BY <3>2 DEF Unwrite
    <3>3. CASE UNCHANGED log
      BY <3>3
    <3> QED BY <3>1, <3>2, <3>3 DEF Next, Writer, Reader, FlushAwake,
              FlushAsleep, FlushSet, CheckRead, Read
  <2> QED BY <2>1, <2>2
<1> QED BY <1>1, AlwaysIInv, PTL DEF Spec, FlushedIsFixed

(* flush returns false only when the reader went to sleep.                 *)
THEOREM NoSpuriousWakeup == Spec => WakesSleepersOnly
<1>1. IInv /\ [Next]_vars => [flushing /\ ~flushing' => idle]_vars
  BY DEF IInv, Positions, vars
<1> QED BY <1>1, AlwaysIInv, PTL DEF Spec, WakesSleepersOnly
=============================================================================
