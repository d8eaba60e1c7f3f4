-------------------------- MODULE YPipeRefinement --------------------------
(***************************************************************************)
(* YPipe implements FlushQueue: for every set of items and every length,   *)
(* the calls of the two threads look as if each were one atomic step.      *)
(***************************************************************************)
EXTENDS YPipeProofs

\* The items past _f are parts of a message that goes on.
Unfinished == \A p \in (f + 1)..Len(log) : log[p].more

\* A flush that waits for its second step has items to publish.
Publishing == flushing => w # f

RInv == IInv /\ Unfinished /\ Publishing

Ready == SubSeq(log, front + 1, w)
Pending == SubSeq(log, w + 1, Len(log))
Mapped == [ready |-> Ready, pending |-> Pending, asleep |-> idle]

(* The invariant of the refinement holds initially ...                     *)
LEMMA InitRInv == Init => RInv
<1>1. Init => Unfinished
  BY DEF Init, Unfinished
<1>2. Init => Publishing
  BY Zenon DEF Init, Publishing
<1> QED BY <1>1, <1>2, InitIInv DEF RInv

(* ... and is kept by every step: write, unwrite and flush leave only parts *)
(* of an unfinished message behind _f.                                     *)
LEMMA NextRInv == RInv /\ [Next]_vars => RInv'
<1> SUFFICES ASSUME RInv, [Next]_vars PROVE Unfinished' /\ Publishing'
  BY NextIInv DEF RInv
<1>0. Publishing'
  BY DEF RInv, Publishing, Next, Writer, Reader, Write, Unwrite, FlushAwake, FlushAsleep,
         FlushSet, CheckRead, Read, vars, writerVars
<1>a. IInv /\ Unfinished
  BY DEF RInv
<1> USE DEF IInv, TypeOK, Positions, readerVars, writerVars
<1>1. ASSUME NEW item \in Items, Write(item) PROVE Unfinished'
  <2>1. item.more \in BOOLEAN
    BY ItemsAssumption
  <2>2. /\ Len(log') = Len(log) + 1
        /\ log'[Len(log) + 1] = item
        /\ \A p \in 1..Len(log) : log'[p] = log[p]
    BY <1>a, <1>1 DEF Write
  <2> QED BY <1>a, <1>1, <2>1, <2>2 DEF Write, Unfinished
<1>2. CASE Unwrite
  <2>1. log' = SubSeq(log, 1, Len(log) - 1) /\ f' = f
    BY <1>2 DEF Unwrite
  <2>2. Len(log) - 1 \in 0..Len(log)
    BY <1>a, <1>2 DEF Unwrite
  <2>3. Len(log') = Len(log) - 1 /\ \A p \in 1..Len(log) - 1 : log'[p] = log[p]
    BY <1>a, <2>1, <2>2, PrefixProperties
  <2> QED BY <1>0, <1>a, <2>1, <2>3 DEF Unfinished
<1>3. CASE UNCHANGED <<log, f>>
  BY <1>0, <1>a, <1>3 DEF Unfinished
<1> QED BY <1>0, <1>1, <1>2, <1>3 DEF Next, Writer, Reader, FlushAwake, FlushAsleep,
           FlushSet, CheckRead, Read, vars

(* A slice of a sequence.                                                  *)
LEMMA Slice ==
  ASSUME NEW S, NEW s \in Seq(S), NEW m \in Nat, NEW n \in Nat, m <= n, n <= Len(s)
  PROVE  /\ SubSeq(s, m + 1, n) \in Seq(S)
         /\ Len(SubSeq(s, m + 1, n)) = n - m
         /\ \A i \in 1..(n - m) : SubSeq(s, m + 1, n)[i] = s[m + i]
<1>1. \A i \in (m + 1)..n : s[i] \in S
  OBVIOUS
<1>2. /\ SubSeq(s, m + 1, n) \in Seq(S)
      /\ Len(SubSeq(s, m + 1, n)) = IF m + 1 <= n THEN n - (m + 1) + 1 ELSE 0
      /\ \A i \in 1..(n - (m + 1) + 1) : SubSeq(s, m + 1, n)[i] = s[(m + 1) + i - 1]
  BY <1>1, SubSeqProperties
<1> QED BY <1>2

(* The two parts of the mapped queue.                                      *)
LEMMA Parts ==
  ASSUME IInv
  PROVE  /\ Ready \in Seq(Items) /\ Len(Ready) = w - front
         /\ \A i \in 1..(w - front) : Ready[i] = log[front + i]
         /\ Pending \in Seq(Items) /\ Len(Pending) = Len(log) - w
         /\ \A i \in 1..(Len(log) - w) : Pending[i] = log[w + i]
<1>1. /\ log \in Seq(Items) /\ front \in Nat /\ w \in Nat /\ Len(log) \in Nat
      /\ front <= w /\ w <= Len(log)
  BY DEF IInv, TypeOK, Positions
<1> QED BY <1>1, Slice DEF Ready, Pending

(* What a flush publishes: the items up to _f.                             *)
LEMMA CompleteIsF ==
  ASSUME RInv
  PROVE  Queue!Complete(Pending) = f - w
<1> DEFINE Last == {0} \cup {i \in DOMAIN Pending : ~Pending[i].more}
<1>1. /\ log \in Seq(Items) /\ w \in Nat /\ f \in Nat /\ Len(log) \in Nat
      /\ w <= f /\ f <= Len(log)
  BY DEF RInv, IInv, TypeOK, Positions
<1>2. Pending \in Seq(Items) /\ Len(Pending) = Len(log) - w
  BY Parts DEF RInv
<1>3. \A i \in 1..(Len(log) - w) : Pending[i] = log[w + i]
  BY Parts DEF RInv
<1>4. DOMAIN Pending = 1..(Len(log) - w)
  BY <1>1, <1>2
<1>5. f - w \in Last
  <2>1. CASE f = w
    BY <2>1, <1>1
  <2>2. CASE f # w
    <3>1. f > 0 /\ ~log[f].more
      BY <2>2, <1>1 DEF RInv, IInv, WholeMessages
    <3>2. f - w \in 1..(Len(log) - w) /\ w + (f - w) = f
      BY <2>2, <1>1
    <3> QED BY <3>1, <3>2, <1>3, <1>4
  <2> QED BY <2>1, <2>2
<1>6. \A y \in Last : y \in Nat /\ f - w >= y
  <2> SUFFICES ASSUME NEW y \in 1..(Len(log) - w), ~Pending[y].more PROVE f - w >= y
    BY <1>1, <1>4
  <2>1. ~log[w + y].more
    BY <1>3
  <2>2. w + y \notin (f + 1)..Len(log)
    BY <2>1 DEF RInv, Unfinished
  <2> QED BY <2>2, <1>1
<1>7. \A x \in Last : (\A y \in Last : x >= y) => x = f - w
  BY <1>1, <1>5, <1>6
<1>8. (CHOOSE x \in Last : \A y \in Last : x >= y) = f - w
  BY <1>5, <1>6, <1>7
<1> QED BY <1>8 DEF Queue!Complete, Queue!Max

-----------------------------------------------------------------------------
(* Slices of the sequences that write, unwrite, flush and read produce.    *)

(* A slice of a sequence, after an item is appended to the sequence.       *)
LEMMA SliceOfAppend ==
  ASSUME NEW S, NEW s \in Seq(S), NEW e \in S,
         NEW m \in Nat, NEW n \in Nat, m <= n, n <= Len(s)
  PROVE  SubSeq(Append(s, e), m + 1, n) = SubSeq(s, m + 1, n)
<1> DEFINE t == Append(s, e)
<1>1. t \in Seq(S) /\ Len(t) = Len(s) + 1 /\ \A i \in 1..Len(s) : t[i] = s[i]
  BY AppendProperties
<1> HIDE DEF t
<1>2. /\ SubSeq(t, m + 1, n) \in Seq(S) /\ Len(SubSeq(t, m + 1, n)) = n - m
      /\ \A i \in 1..(n - m) : SubSeq(t, m + 1, n)[i] = t[m + i]
  <2>1. n <= Len(t)
    BY <1>1
  <2> QED BY <1>1, <2>1, Slice
<1>3. /\ SubSeq(s, m + 1, n) \in Seq(S) /\ Len(SubSeq(s, m + 1, n)) = n - m
      /\ \A i \in 1..(n - m) : SubSeq(s, m + 1, n)[i] = s[m + i]
  BY Slice
<1>4. \A i \in 1..(n - m) : m + i \in 1..Len(s)
  OBVIOUS
<1>5. \A i \in 1..(n - m) : SubSeq(t, m + 1, n)[i] = SubSeq(s, m + 1, n)[i]
  BY <1>1, <1>2, <1>3, <1>4
<1>6. SubSeq(t, m + 1, n) = SubSeq(s, m + 1, n)
  BY <1>2, <1>3, <1>5, SeqEqual
<1> QED BY <1>6 DEF t

(* The same with the new item in the slice.                                *)
LEMMA AppendToSlice ==
  ASSUME NEW S, NEW s \in Seq(S), NEW e \in S, NEW m \in Nat, m <= Len(s)
  PROVE  SubSeq(Append(s, e), m + 1, Len(s) + 1) = Append(SubSeq(s, m + 1, Len(s)), e)
<1> DEFINE t == Append(s, e)
           L == Len(s)
           a == SubSeq(s, m + 1, L)
           b == Append(a, e)
           d == SubSeq(t, m + 1, L + 1)
<1>1. /\ t \in Seq(S) /\ Len(t) = L + 1 /\ t[L + 1] = e
      /\ \A i \in 1..L : t[i] = s[i]
      /\ L \in Nat /\ m <= L
  BY AppendProperties
<1> HIDE DEF t, L
<1>2. /\ d \in Seq(S) /\ Len(d) = L + 1 - m
      /\ \A i \in 1..(L + 1 - m) : d[i] = t[m + i]
  BY <1>1, Slice
<1>3. a \in Seq(S) /\ Len(a) = L - m /\ \A i \in 1..(L - m) : a[i] = s[m + i]
  BY <1>1, Slice DEF L
<1> HIDE DEF a, d
<1>4. /\ b \in Seq(S) /\ Len(b) = Len(a) + 1 /\ b[Len(a) + 1] = e
      /\ \A i \in 1..Len(a) : b[i] = a[i]
  BY <1>3, AppendProperties
<1> HIDE DEF b
<1>5. ASSUME NEW i \in 1..(L + 1 - m) PROVE d[i] = b[i]
  <2>1. CASE i = L + 1 - m
    <3>1. m + i = L + 1 /\ i = Len(a) + 1
      BY <2>1, <1>1, <1>3
    <3> QED BY <3>1, <1>1, <1>2, <1>4
  <2>2. CASE i # L + 1 - m
    <3>1. i \in 1..(L - m) /\ m + i \in 1..L
      BY <2>2, <1>1
    <3> QED BY <3>1, <1>1, <1>2, <1>3, <1>4
  <2> QED BY <2>1, <2>2
<1>6. Len(d) = Len(b) /\ \A i \in 1..Len(d) : d[i] = b[i]
  BY <1>1, <1>2, <1>3, <1>4, <1>5
<1>7. d = b
  BY <1>2, <1>4, <1>6, SeqEqual
<1> QED BY <1>7 DEF a, b, d, t, L

(* A slice of a slice.                                                     *)
LEMMA SliceOfSlice ==
  ASSUME NEW S, NEW s \in Seq(S), NEW l \in Nat, NEW m \in Nat, NEW j \in Nat, NEW k \in Nat,
         l <= m, m <= Len(s), j <= k, k <= m - l
  PROVE  SubSeq(SubSeq(s, l + 1, m), j + 1, k) = SubSeq(s, (l + j) + 1, l + k)
<1> DEFINE a == SubSeq(s, l + 1, m)
           b == SubSeq(a, j + 1, k)
           d == SubSeq(s, (l + j) + 1, l + k)
<1>1. a \in Seq(S) /\ Len(a) = m - l /\ \A i \in 1..(m - l) : a[i] = s[l + i]
  BY Slice
<1> HIDE DEF a
<1>2. b \in Seq(S) /\ Len(b) = k - j /\ \A i \in 1..(k - j) : b[i] = a[j + i]
  BY <1>1, Slice
<1>3. /\ d \in Seq(S) /\ Len(d) = k - j
      /\ \A i \in 1..(k - j) : d[i] = s[(l + j) + i]
  <2>1. l + j \in Nat /\ l + k \in Nat /\ l + j <= l + k /\ l + k <= Len(s)
    OBVIOUS
  <2>2. /\ d \in Seq(S) /\ Len(d) = (l + k) - (l + j)
        /\ \A i \in 1..((l + k) - (l + j)) : d[i] = s[(l + j) + i]
    BY <2>1, Slice
  <2>3. (l + k) - (l + j) = k - j
    OBVIOUS
  <2> HIDE DEF d
  <2> QED BY <2>2, <2>3
<1> HIDE DEF b, d
<1>4. ASSUME NEW i \in 1..(k - j) PROVE b[i] = d[i]
  <2>1. j + i \in 1..(m - l) /\ l + (j + i) = (l + j) + i
    OBVIOUS
  <2> QED BY <1>1, <1>2, <1>3, <2>1
<1>5. b = d
  BY <1>2, <1>3, <1>4, SeqEqual
<1> QED BY <1>5 DEF a, b, d

(* Two slices that meet.                                                   *)
LEMMA SlicesJoin ==
  ASSUME NEW S, NEW s \in Seq(S), NEW l \in Nat, NEW m \in Nat, NEW n \in Nat,
         l <= m, m <= n, n <= Len(s)
  PROVE  SubSeq(s, l + 1, m) \o SubSeq(s, m + 1, n) = SubSeq(s, l + 1, n)
<1> DEFINE a == SubSeq(s, l + 1, m)
           b == SubSeq(s, m + 1, n)
           d == SubSeq(s, l + 1, n)
           j == a \o b
<1>1. a \in Seq(S) /\ Len(a) = m - l /\ \A i \in 1..(m - l) : a[i] = s[l + i]
  <2>1. m <= Len(s)
    OBVIOUS
  <2> QED BY <2>1, Slice
<1>2. b \in Seq(S) /\ Len(b) = n - m /\ \A i \in 1..(n - m) : b[i] = s[m + i]
  BY Slice
<1>3. d \in Seq(S) /\ Len(d) = n - l /\ \A i \in 1..(n - l) : d[i] = s[l + i]
  <2>1. l <= n
    OBVIOUS
  <2> QED BY <2>1, Slice
<1> HIDE DEF a, b, d
<1>4. /\ j \in Seq(S) /\ Len(j) = Len(a) + Len(b)
      /\ \A i \in 1..(Len(a) + Len(b)) : j[i] = IF i <= Len(a) THEN a[i] ELSE b[i - Len(a)]
  BY <1>1, <1>2, ConcatProperties
<1> HIDE DEF j
<1>5. ASSUME NEW i \in 1..(n - l) PROVE j[i] = d[i]
  <2>1. CASE i <= m - l
    BY <2>1, <1>1, <1>2, <1>3, <1>4
  <2>2. CASE ~(i <= m - l)
    <3>1. i - (m - l) \in 1..(n - m) /\ m + (i - (m - l)) = l + i
      BY <2>2
    <3> QED BY <2>2, <3>1, <1>1, <1>2, <1>3, <1>4
  <2> QED BY <2>1, <2>2
<1>6. Len(j) = Len(d) /\ \A i \in 1..Len(j) : j[i] = d[i]
  BY <1>1, <1>2, <1>3, <1>4, <1>5
<1>7. j = d
  BY <1>3, <1>4, <1>6, SeqEqual
<1> QED BY <1>7 DEF a, b, d, j

-----------------------------------------------------------------------------
(* One lemma for each call.                                                *)

(* write appends to the pending items.                                     *)
LEMMA WriteRefines ==
  ASSUME RInv, NEW item \in Items, Write(item)
  PROVE  Mapped' = Queue!Write(Mapped, item)
<1>1. /\ log \in Seq(Items) /\ Len(log) \in Nat /\ w \in Nat /\ front \in Nat
      /\ front <= w /\ w <= Len(log)
      /\ w' = w /\ front' = front /\ idle' = idle /\ log' = Append(log, item)
  BY DEF RInv, IInv, TypeOK, Positions, Write, readerVars
<1>2. Len(log') = Len(log) + 1
  BY <1>1
<1>3. Ready' = Ready
  BY <1>1, SliceOfAppend DEF Ready
<1>4. Pending' = Append(Pending, item)
  <2>1. SubSeq(Append(log, item), w + 1, Len(log) + 1)
          = Append(SubSeq(log, w + 1, Len(log)), item)
    BY <1>1, AppendToSlice
  <2>2. Pending' = SubSeq(Append(log, item), w + 1, Len(log) + 1)
    BY <1>1, <1>2 DEF Pending
  <2> QED BY <2>1, <2>2 DEF Pending
<1>5. Mapped' = [ready |-> Ready, pending |-> Append(Pending, item), asleep |-> idle]
  BY <1>1, <1>3, <1>4 DEF Mapped
<1> QED BY <1>5 DEF Mapped, Queue!Write

(* unwrite takes the last pending item back, which no flush would publish. *)
LEMMA UnwriteRefines ==
  ASSUME RInv, Unwrite
  PROVE  Queue!CanUnwrite(Mapped) /\ Mapped' = Queue!Unwrite(Mapped)
<1>1. /\ log \in Seq(Items) /\ Len(log) \in Nat /\ w \in Nat /\ f \in Nat /\ front \in Nat
      /\ front <= w /\ w <= f /\ f < Len(log)
      /\ w' = w /\ front' = front /\ idle' = idle
      /\ log' = SubSeq(log, 1, Len(log) - 1)
  BY DEF RInv, IInv, TypeOK, Positions, Unwrite, readerVars
<1>2. Pending \in Seq(Items) /\ Len(Pending) = Len(log) - w
  BY Parts DEF RInv
<1>3. Len(log') = Len(log) - 1
  <2>1. Len(log) - 1 \in 0..Len(log)
    BY <1>1
  <2> QED BY <1>1, <2>1, PrefixProperties
<1>4. ASSUME NEW m \in Nat, NEW n \in Nat, m <= n, n <= Len(log) - 1
      PROVE  SubSeq(log', m + 1, n) = SubSeq(log, m + 1, n)
  <2>1. SubSeq(SubSeq(log, 0 + 1, Len(log) - 1), m + 1, n) = SubSeq(log, (0 + m) + 1, 0 + n)
    <3>1. /\ 0 \in Nat /\ Len(log) - 1 \in Nat /\ 0 <= Len(log) - 1
          /\ Len(log) - 1 <= Len(log) /\ n <= Len(log) - 1 - 0
      BY <1>1, <1>4
    <3> QED BY <1>1, <1>4, <3>1, SliceOfSlice
  <2>2. 0 + 1 = 1 /\ 0 + m = m /\ 0 + n = n
    OBVIOUS
  <2> QED BY <1>1, <2>1, <2>2
<1>5. Ready' = Ready
  BY <1>1, <1>4 DEF Ready
<1>6. Pending' = SubSeq(Pending, 1, Len(Pending) - 1)
  <2> DEFINE n == Len(log) - 1
  <2>1. Pending' = SubSeq(log, w + 1, n)
    <3>1. n \in Nat /\ w <= n /\ n <= Len(log) - 1
      BY <1>1
    <3>2. Pending' = SubSeq(log', w + 1, n)
      BY <1>1, <1>3 DEF Pending
    <3> QED BY <1>1, <1>4, <3>1, <3>2
  <2>2. SubSeq(Pending, 0 + 1, n - w) = SubSeq(log, (w + 0) + 1, w + (n - w))
    <3>1. 0 \in Nat /\ n - w \in Nat /\ 0 <= n - w /\ n - w <= Len(log) - w
      BY <1>1
    <3> QED BY <1>1, <3>1, SliceOfSlice DEF Pending
  <2>3. /\ 0 + 1 = 1 /\ w + 0 = w /\ w + (n - w) = n
        /\ n - w = Len(Pending) - 1
    BY <1>1, <1>2
  <2> QED BY <2>1, <2>2, <2>3
<1>7. Queue!CanUnwrite(Mapped)
  <2>1. Mapped.pending = Pending
    BY DEF Mapped
  <2>2. f - w < Len(Pending)
    BY <1>1, <1>2
  <2> QED BY <2>1, <2>2, CompleteIsF DEF Queue!CanUnwrite
<1>8. Mapped' = [ready |-> Ready, pending |-> SubSeq(Pending, 1, Len(Pending) - 1),
                 asleep |-> idle]
  BY <1>1, <1>5, <1>6 DEF Mapped
<1> QED BY <1>7, <1>8 DEF Mapped, Queue!Unwrite

(* flush, where it takes effect, publishes the items up to _f and leaves   *)
(* the reader awake.                                                       *)
LEMMA FlushRefines ==
  ASSUME RInv, w # f, w' = f, log' = log, front' = front, idle' = FALSE
  PROVE  Mapped' = Queue!Flush(Mapped)
<1> DEFINE n == f - w
<1>1. /\ log \in Seq(Items) /\ Len(log) \in Nat /\ w \in Nat /\ f \in Nat /\ front \in Nat
      /\ front <= w /\ w < f /\ f <= Len(log)
  BY DEF RInv, IInv, TypeOK, Positions
<1>2. Pending \in Seq(Items) /\ Len(Pending) = Len(log) - w
  BY Parts DEF RInv
<1>3. n \in Nat /\ n # 0 /\ n <= Len(log) - w /\ w + n = f
  BY <1>1
<1>4. Queue!Complete(Pending) = n
  BY CompleteIsF
<1> HIDE DEF n
<1>5. SubSeq(Pending, 1, n) = SubSeq(log, w + 1, f)
  <2>1. SubSeq(Pending, 0 + 1, n) = SubSeq(log, (w + 0) + 1, w + n)
    <3>1. 0 \in Nat /\ 0 <= n /\ w <= Len(log) /\ Len(log) <= Len(log)
      BY <1>1, <1>3
    <3> QED BY <1>1, <1>3, <3>1, SliceOfSlice DEF Pending
  <2>2. 0 + 1 = 1 /\ w + 0 = w
    BY <1>1
  <2> QED BY <1>3, <2>1, <2>2
<1>6. SubSeq(Pending, n + 1, Len(Pending)) = SubSeq(log, f + 1, Len(log))
  <2>1. SubSeq(Pending, n + 1, Len(log) - w) = SubSeq(log, (w + n) + 1, w + (Len(log) - w))
    <3>1. Len(log) - w \in Nat /\ Len(log) - w <= Len(log) - w /\ w <= Len(log)
          /\ Len(log) <= Len(log)
      BY <1>1
    <3> QED BY <1>1, <1>3, <3>1, SliceOfSlice DEF Pending
  <2>2. w + (Len(log) - w) = Len(log)
    BY <1>1
  <2> QED BY <1>2, <1>3, <2>1, <2>2
<1>7. Ready' = Ready \o SubSeq(Pending, 1, n)
  <2>1. w <= f
    BY <1>1
  <2>2. SubSeq(log, front + 1, w) \o SubSeq(log, w + 1, f) = SubSeq(log, front + 1, f)
    BY <1>1, <2>1, SlicesJoin
  <2>3. Ready' = SubSeq(log, front + 1, f)
    BY DEF Ready
  <2> QED BY <1>5, <2>2, <2>3 DEF Ready
<1>8. Pending' = SubSeq(Pending, n + 1, Len(Pending))
  BY <1>6 DEF Pending
<1>9. Mapped' = [ready |-> Ready \o SubSeq(Pending, 1, n),
                 pending |-> SubSeq(Pending, n + 1, Len(Pending)), asleep |-> FALSE]
  BY <1>7, <1>8 DEF Mapped
<1>10. Mapped.ready = Ready /\ Mapped.pending = Pending
  BY DEF Mapped
<1> QED BY <1>3, <1>4, <1>9, <1>10 DEF Queue!Flush

(* What check_read returns: whether there are flushed items to read.       *)
LEMMA ReadableIsReady ==
  ASSUME RInv
  PROVE  Readable = Queue!Readable(Mapped)
<1>1. /\ front \in Nat /\ w \in Nat /\ front <= w
      /\ c \in {w, NULL} /\ (c = NULL => front = w)
      /\ r \in Nat \cup {NULL} /\ (r # NULL => front <= r /\ r <= w)
  BY DEF RInv, IInv, TypeOK, Positions
<1>2. Ready \in Seq(Items) /\ Len(Ready) = w - front
  BY Parts DEF RInv
<1>3. Readable = (front < w)
  BY <1>1 DEF Readable, Fetch, Prefetched, NULL
<1>4. (Ready # <<>>) = (front < w)
  BY <1>1, <1>2
<1>5. Mapped.ready = Ready
  BY DEF Mapped
<1> QED BY <1>3, <1>4, <1>5 DEF Queue!Readable

(* check_read tells the reader whether it may go on.                       *)
LEMMA CheckReadRefines ==
  ASSUME RInv, CheckRead
  PROVE  Mapped' = Queue!CheckRead(Mapped)
<1>1. log' = log /\ w' = w /\ front' = front /\ idle' = ~Readable
  BY DEF CheckRead, writerVars
<1>2. Ready' = Ready /\ Pending' = Pending
  BY <1>1 DEF Ready, Pending
<1>3. idle' = ~Queue!Readable(Mapped)
  BY <1>1, ReadableIsReady
<1>4. Mapped' = [ready |-> Ready, pending |-> Pending, asleep |-> ~Queue!Readable(Mapped)]
  BY <1>2, <1>3 DEF Mapped
<1>5. [Mapped EXCEPT !.asleep = ~Queue!Readable(Mapped)]
        = [ready |-> Ready, pending |-> Pending, asleep |-> ~Queue!Readable(Mapped)]
  <2> DEFINE b == ~Queue!Readable(Mapped)
  <2> HIDE DEF b
  <2>1. [Mapped EXCEPT !.asleep = b] = [ready |-> Ready, pending |-> Pending, asleep |-> b]
    BY DEF Mapped
  <2> QED BY <2>1 DEF b
<1> QED BY <1>4, <1>5 DEF Queue!CheckRead

(* read takes the oldest flushed item, or tells the reader to wait.        *)
LEMMA ReadRefines ==
  ASSUME RInv, Read
  PROVE  Mapped' = Queue!Read(Mapped)
<1> DEFINE b == Queue!Readable(Mapped)
<1>1. /\ log \in Seq(Items) /\ Len(log) \in Nat /\ w \in Nat /\ front \in Nat
      /\ front <= w /\ w <= Len(log)
  BY DEF RInv, IInv, TypeOK, Positions
<1>2. /\ log' = log /\ w' = w /\ idle' = ~b
      /\ front' = IF b THEN front + 1 ELSE front
  BY ReadableIsReady DEF Read, writerVars
<1>3. b = (Ready # <<>>)
  BY DEF Queue!Readable, Mapped
<1>4. Ready \in Seq(Items) /\ Len(Ready) = w - front
  BY Parts DEF RInv
<1> HIDE DEF b
<1>5. Ready' = IF b THEN Tail(Ready) ELSE Ready
  <2>1. CASE b
    <3>0. Ready # <<>>
      BY <2>1, <1>3, Zenon
    <3>1. 1 <= w - front /\ w - front \in Nat
      BY <3>0, <1>1, <1>4
    <3>2. Tail(Ready) = SubSeq(Ready, 1 + 1, w - front)
      BY <3>0, <1>4, TailIsSubSeq
    <3>3. SubSeq(Ready, 1 + 1, w - front) = SubSeq(log, (front + 1) + 1, front + (w - front))
      <4>1. w - front <= w - front /\ 1 \in Nat
        BY <1>1
      <4> QED BY <1>1, <3>1, <4>1, SliceOfSlice DEF Ready
    <3>4. front + (w - front) = w
      BY <1>1
    <3>5. Ready' = SubSeq(log, (front + 1) + 1, w)
      BY <2>1, <1>2 DEF Ready
    <3> QED BY <2>1, <3>2, <3>3, <3>4, <3>5
  <2>2. CASE ~b
    BY <2>2, <1>2 DEF Ready
  <2> QED BY <2>1, <2>2
<1>6. Pending' = Pending
  BY <1>2 DEF Pending
<1>7. Mapped' = [ready |-> IF b THEN Tail(Ready) ELSE Ready, pending |-> Pending, asleep |-> ~b]
  BY <1>2, <1>5, <1>6 DEF Mapped
<1>8. [[Mapped EXCEPT !.asleep = ~b] EXCEPT !.ready = IF b THEN Tail(@) ELSE @]
        = [ready |-> IF b THEN Tail(Ready) ELSE Ready, pending |-> Pending, asleep |-> ~b]
  <2> DEFINE nb == ~b
  <2>1. nb \in BOOLEAN
    OBVIOUS
  <2> HIDE DEF nb
  <2>2. [Mapped EXCEPT !.asleep = nb] = [ready |-> Ready, pending |-> Pending, asleep |-> nb]
    BY DEF Mapped
  <2>3. [[Mapped EXCEPT !.asleep = nb] EXCEPT !.ready = IF b THEN Tail(@) ELSE @]
          = [ready |-> IF b THEN Tail(Ready) ELSE Ready, pending |-> Pending, asleep |-> nb]
    <3> DEFINE q == [Mapped EXCEPT !.asleep = nb]
               x == IF b THEN Tail(q.ready) ELSE q.ready
    <3>1. q = [ready |-> Ready, pending |-> Pending, asleep |-> nb]
      BY <2>2
    <3>2. x = IF b THEN Tail(Ready) ELSE Ready
      BY <3>1
    <3> HIDE DEF q, x
    <3>3. [q EXCEPT !.ready = x] = [ready |-> x, pending |-> Pending, asleep |-> nb]
      BY <3>1
    <3> QED BY <3>2, <3>3 DEF q, x
  <2> QED BY <2>3 DEF nb
<1> QED BY <1>7, <1>8 DEF Queue!Read, Queue!CheckRead, b

-----------------------------------------------------------------------------
(* Every step of the two threads is a step of the abstract queue, or none. *)
LEMMA StepRefines == RInv /\ [Next]_vars => [Queue!Next]_Mapped
<1> SUFFICES ASSUME RInv, [Next]_vars PROVE [Queue!Next]_Mapped
  OBVIOUS
<1>0. Mapped = [ready |-> SubSeq(log, front + 1, w), pending |-> SubSeq(log, w + 1, Len(log)),
                asleep |-> idle]
  BY DEF Mapped, Ready, Pending
<1>00. Mapped' = [ready |-> SubSeq(log', front' + 1, w'),
                  pending |-> SubSeq(log', w' + 1, Len(log')), asleep |-> idle']
  BY DEF Mapped, Ready, Pending
<1>1. ASSUME NEW item \in Items, Write(item) PROVE Queue!Next
  <2>1. Mapped' = Queue!Write(Mapped, item)
    BY <1>1, WriteRefines
  <2> QED BY <2>1, <1>0, <1>00 DEF Queue!Next
<1>2. CASE Unwrite
  <2>1. Queue!CanUnwrite(Mapped) /\ Mapped' = Queue!Unwrite(Mapped)
    BY <1>2, UnwriteRefines
  <2> QED BY <2>1, <1>0, <1>00 DEF Queue!Next
<1>3. CASE FlushAwake \/ FlushSet
  <2>1. w # f
    BY <1>3 DEF FlushAwake, FlushSet, RInv, Publishing
  <2>2. w' = f /\ log' = log /\ front' = front
    BY <1>3 DEF FlushAwake, FlushSet, readerVars
  <2>3. idle' = FALSE
    <3>1. CASE FlushSet
      BY <3>1 DEF FlushSet
    <3>2. CASE FlushAwake
      <4>1. c = w /\ w \in Nat /\ idle' = idle
        BY <3>2 DEF FlushAwake, RInv, IInv, TypeOK
      <4>2. c # NULL
        BY <4>1 DEF NULL
      <4> QED BY <4>1, <4>2 DEF RInv, IInv, Positions
    <3> QED BY <1>3, <3>1, <3>2
  <2>4. Mapped' = Queue!Flush(Mapped)
    BY <2>1, <2>2, <2>3, FlushRefines
  <2> QED BY <2>4, <1>0, <1>00 DEF Queue!Next
<1>4. CASE CheckRead
  <2>1. Mapped' = Queue!CheckRead(Mapped)
    BY <1>4, CheckReadRefines
  <2> QED BY <2>1, <1>0, <1>00 DEF Queue!Next
<1>5. CASE Read
  <2>1. Mapped' = Queue!Read(Mapped)
    BY <1>5, ReadRefines
  <2> QED BY <2>1, <1>0, <1>00 DEF Queue!Next
<1>6. CASE FlushAsleep \/ UNCHANGED vars
  BY <1>6 DEF FlushAsleep, vars, readerVars, Mapped, Ready, Pending
<1> QED BY <1>1, <1>2, <1>3, <1>4, <1>5, <1>6 DEF Next, Writer, Reader

(* A ypipe is a FIFO queue: write, unwrite, flush, check_read and read of  *)
(* the two threads take effect one after the other, as in FlushQueue, for  *)
(* every set of items and any number of them.                              *)
THEOREM IsAtomicQueue == Spec => IsFlushQueue
<1>1. Init => Queue!Init
  <2> SUFFICES ASSUME Init PROVE Queue!Init
    OBVIOUS
  <2>1. idle = FALSE
    BY DEF Init
  <2>2. SubSeq(log, front + 1, w) = <<>> /\ SubSeq(log, w + 1, Len(log)) = <<>>
    <3>1. log \in Seq(Items) /\ front + 1 = 1 /\ w + 1 = 1 /\ w = 0 /\ Len(log) = 0
      BY DEF Init
    <3>2. SubSeq(log, 1, 0) = <<>>
      BY <3>1, SubSeqEmpty
    <3> QED BY <3>1, <3>2
  <2> QED BY <2>1, <2>2 DEF Queue!Init, Queue!EmptyQueue
<1>2. Init => RInv
  BY InitRInv
<1>3. RInv /\ [Next]_vars => RInv'
  BY NextRInv
<1>4. RInv /\ [Next]_vars => [Queue!Next]_Mapped
  BY StepRefines
<1> QED BY <1>1, <1>2, <1>3, <1>4, PTL DEF Spec, IsFlushQueue, Queue!Spec, Mapped, Ready, Pending
=============================================================================
