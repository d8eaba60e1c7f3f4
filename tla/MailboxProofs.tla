--------------------------- MODULE MailboxProofs ---------------------------
(***************************************************************************)
(* Proofs about Mailbox, for any number of senders and of commands.  The   *)
(* pipe of commands keeps its own invariant by YPipeProofs; what is added  *)
(* says who holds the mutex and where the one signal is.                   *)
(***************************************************************************)
EXTENDS Mailbox, FiniteSetTheorems, TLAPS

YP == INSTANCE YPipeProofs WITH Items <- Commands, MaxWrites <- MaxCommands

\* The senders between taking the mutex and giving it back.
Locking == {"flush", "set", "unlock", "wake"}

\* One sender at a time is inside the mutex, and one that has yet to flush
\* has something to flush.
Mutex == /\ \A s \in Senders : s \in sync <=> sender[s] \in Locking
         /\ \A s, t \in sync : s = t
         /\ \A s \in Senders : sender[s] \in {"flush", "set"} => w < f

\* A signal sent and not received, or about to be sent.
Announced == signals > 0 \/ Waking # {}

\* There is one such signal at most; with it the pipe is awake, the owner is
\* passive, and there is a command to read.
Signal == /\ signals \in {0, 1}
          /\ \A s, t \in Waking : s = t
          /\ signals = 1 => Waking = {}
          /\ Announced => c # cpipe!NULL /\ ~active /\ front < w /\ receiver # "read"

\* Without it a passive owner has put the pipe to sleep.
Owner == /\ active => c # cpipe!NULL
         /\ ~active /\ ~Announced => c = cpipe!NULL
         /\ receiver = "read" => active /\ front < w
         /\ receiver = "wait" => ~active

Gone == destroyed => /\ receiver = "out" /\ front = MaxCommands
                     /\ \A s \in Senders : sender[s] = "out"

MInv == /\ TypeOK /\ YP!IInv /\ Len(log) <= MaxCommands
        /\ Mutex /\ Signal /\ Owner /\ Gone

(* Every command satisfies what YPipe assumes of its items.                *)
LEMMA PipeAssumptions == /\ \A item \in Commands : item.more \in BOOLEAN
                         /\ MaxCommands \in Nat
  BY MaxCommandsAssumption DEF Commands

(* A step of the pipe keeps the pipe's invariant.                          *)
LEMMA PipeStep == YP!IInv /\ [YP!Next]_(YP!vars) => YP!IInv'
  BY PipeAssumptions, YP!NextIInv

(* What the pipe's invariant says about its positions.                     *)
LEMMA PipeFacts ==
  ASSUME YP!IInv
  PROVE  /\ log \in Seq(Commands) /\ front \in Nat /\ w \in Nat /\ f \in Nat
         /\ r \in Nat \cup {-1} /\ c \in Nat \cup {-1}
         /\ front <= w /\ w <= f /\ f <= Len(log)
         /\ c \in {w, -1} /\ (c = -1 => front = w)
         /\ (r # -1 => front <= r /\ r <= w)
  BY DEF YP!IInv, YP!TypeOK, YP!Positions, YP!NULL

(* A pipe that is awake and not read to the end has something to read.     *)
LEMMA AwakeIsReadable ==
  ASSUME YP!IInv, c # cpipe!NULL, front < w
  PROVE  cpipe!Readable
  BY PipeFacts DEF cpipe!Readable, cpipe!Fetch, cpipe!Prefetched, cpipe!NULL

(* The constructor.                                                        *)
LEMMA InitMInv == Init => MInv
<1> SUFFICES ASSUME Init PROVE MInv
  OBVIOUS
<1>1. TypeOK /\ YP!IInv
  <2>1. log \in Seq(Commands) /\ Len(log) = 0
    BY DEF Init
  <2>2. flushing \in BOOLEAN /\ idle \in BOOLEAN /\ active \in BOOLEAN /\ destroyed \in BOOLEAN
    BY Zenon DEF Init
  <2>3. c = -1 /\ r = 0 /\ front = 0 /\ w = 0 /\ f = 0
    BY DEF Init, cpipe!NULL
  <2>4. idle = (c = -1)
    BY <2>3, Zenon DEF Init
  <2>5. sender \in [Senders -> {"out", "flush", "set", "unlock", "wake", "signal"}]
    BY DEF Init
  <2>6. sync \in SUBSET Senders /\ signals \in Nat /\ receiver \in {"out", "wait", "read"}
    BY DEF Init
  <2>7. YP!TypeOK /\ cpipe!TypeOK
    BY <2>1, <2>2, <2>3 DEF YP!TypeOK, YP!NULL, cpipe!TypeOK, cpipe!NULL
  <2>8. YP!Positions
    BY <2>1, <2>3, <2>4 DEF YP!Positions, YP!NULL
  <2>9. YP!WholeMessages
    BY <2>3 DEF YP!WholeMessages
  <2> QED BY <2>2, <2>5, <2>6, <2>7, <2>8, <2>9 DEF TypeOK, YP!IInv
<1>2. Len(log) <= MaxCommands
  BY MaxCommandsAssumption DEF Init
<1>3. Mutex
  BY DEF Init, Mutex, Locking
<1>4. Waking = {} /\ signals = 0
  BY DEF Init, Waking
<1>5. Signal
  BY <1>4 DEF Signal, Announced
<1>6. ~active /\ ~destroyed
  BY Zenon DEF Init
<1>7. Owner
  BY <1>6 DEF Owner, Init
<1>8. Gone
  BY <1>6 DEF Gone
<1> QED BY <1>1, <1>2, <1>3, <1>5, <1>7, <1>8 DEF MInv
(* The type invariant speaks of the pipe through the instance of YPipe.    *)
LEMMA PipeTypes == YP!IInv => cpipe!TypeOK
  BY DEF YP!IInv, YP!TypeOK, YP!NULL, cpipe!TypeOK, cpipe!NULL

(* send, with the mutex taken: the command is written.                     *)
LEMMA SendWriteMInv ==
  ASSUME MInv, NEW s \in Senders, SendWrite(s)
  PROVE  MInv'
<1> DEFINE cmd == [from |-> s, more |-> FALSE]
<1>1. cmd \in Commands /\ cmd.more = FALSE
  BY DEF Commands
<1>2. YP!Write(cmd)
  BY DEF SendWrite, cpipe!Write, YP!Write, cpipe!readerVars, YP!readerVars
<1>3. YP!IInv'
  BY <1>1, <1>2, PipeStep DEF MInv, YP!Next, YP!Writer
<1>4. /\ w' = w /\ c' = c /\ front' = front
      /\ f' = Len(log) + 1 /\ Len(log') = Len(log) + 1 /\ Len(log) < MaxCommands
  <2>1. log \in Seq(Commands)
    BY PipeFacts DEF MInv
  <2> QED BY <1>1, <1>2, <2>1 DEF YP!Write, YP!readerVars
<1>5. /\ sender \in [Senders -> {"out", "flush", "set", "unlock", "wake", "signal"}]
      /\ sender[s] = "out" /\ sender' = [sender EXCEPT ![s] = "flush"]
      /\ sync = {} /\ sync' = {s}
  BY DEF SendWrite, Goto, MInv, TypeOK
<1>6. signals' = signals /\ active' = active /\ receiver' = receiver /\ destroyed' = destroyed
  BY DEF SendWrite
<1>7. Waking' = Waking
  BY <1>5 DEF Waking
<1>8. TypeOK'
  <2>1. cpipe!TypeOK'
    BY <1>3, PipeTypes, PTL
  <2> QED BY <2>1, <1>5, <1>6 DEF MInv, TypeOK
<1>9. Len(log') <= MaxCommands
  <2>1. Len(log) \in Nat
    BY PipeFacts DEF MInv
  <2> QED BY <2>1, <1>4, MaxCommandsAssumption
<1>10. Mutex'
  <2>1. w' < f'
    BY <1>4, PipeFacts DEF MInv
  <2> QED BY <2>1, <1>5 DEF MInv, Mutex, Locking
<1>11. Signal' /\ Owner'
  BY <1>4, <1>6, <1>7 DEF MInv, Signal, Owner, Announced, cpipe!NULL
<1>12. ~destroyed
  <2>1. Len(log) \in Nat /\ front <= Len(log) /\ front \in Nat
    BY PipeFacts DEF MInv
  <2> QED BY <2>1, <1>4, MaxCommandsAssumption DEF MInv, Gone
<1>13. Gone'
  BY <1>6, <1>12 DEF Gone
<1> QED BY <1>3, <1>8, <1>9, <1>10, <1>11, <1>13 DEF MInv
(* flush, whichever way it goes.  One that finds the pipe asleep knows that *)
(* no signal is under way, and so becomes the one that has to send it.      *)
LEMMA SendFlushMInv ==
  ASSUME MInv, NEW s \in Senders, SendFlush(s)
  PROVE  MInv'
<1>1. /\ log' = log /\ front' = front /\ f' = f
      /\ sync' = sync /\ signals' = signals /\ active' = active
      /\ receiver' = receiver /\ destroyed' = destroyed
  BY DEF SendFlush, cpipe!FlushAwake, cpipe!FlushAsleep, cpipe!FlushSet, cpipe!readerVars
<1>2. YP!IInv'
  <2>1. YP!FlushAwake \/ YP!FlushAsleep \/ YP!FlushSet
    BY DEF SendFlush, cpipe!FlushAwake, cpipe!FlushAsleep, cpipe!FlushSet,
           cpipe!readerVars, YP!FlushAwake, YP!FlushAsleep, YP!FlushSet, YP!readerVars
  <2> QED BY <2>1, PipeStep DEF MInv, YP!Next, YP!Writer
<1>3. Len(log') <= MaxCommands
  BY <1>1 DEF MInv
<1>4. TypeOK'
  <2>1. cpipe!TypeOK'
    BY <1>2, PipeTypes, PTL
  <2>2. sender' \in [Senders -> {"out", "flush", "set", "unlock", "wake", "signal"}]
    BY DEF MInv, TypeOK, SendFlush, Goto
  <2> QED BY <1>1, <2>1, <2>2 DEF MInv, TypeOK
<1>5. /\ sender \in [Senders -> {"out", "flush", "set", "unlock", "wake", "signal"}]
      /\ front \in Nat /\ w \in Nat /\ f \in Nat /\ c \in {w, -1} /\ front <= w /\ w < f
      /\ (c = -1 => front = w)
  <2>1. sender[s] \in {"flush", "set"}
    BY DEF SendFlush
  <2> QED BY <2>1, PipeFacts DEF MInv, TypeOK, Mutex
<1>6. Gone'
  <2>1. sender[s] # "out"
    BY DEF SendFlush
  <2> QED BY <1>1, <2>1 DEF MInv, Gone
<1>7. CASE sender[s] = "flush" /\ cpipe!FlushAwake /\ Goto(s, "unlock")
  <2>1. /\ c = w /\ c' = f /\ w' = f
        /\ sender' = [sender EXCEPT ![s] = "unlock"]
    BY <1>7 DEF cpipe!FlushAwake, Goto
  <2>2. Waking' = Waking
    BY <1>5, <1>7, <2>1 DEF Waking
  <2>3. Mutex'
    BY <1>1, <1>5, <1>7, <2>1 DEF MInv, Mutex, Locking
  <2>4. Signal' /\ Owner'
    BY <1>1, <1>5, <2>1, <2>2 DEF MInv, Signal, Owner, Announced, cpipe!NULL
  <2> QED BY <1>2, <1>3, <1>4, <1>6, <2>3, <2>4 DEF MInv
<1>8. CASE sender[s] = "flush" /\ cpipe!FlushAsleep /\ Goto(s, "set")
  <2>1. /\ c' = c /\ w' = w
        /\ sender' = [sender EXCEPT ![s] = "set"]
    BY <1>8 DEF cpipe!FlushAsleep, Goto
  <2>2. Waking' = Waking
    BY <1>5, <1>8, <2>1 DEF Waking
  <2>3. Mutex'
    BY <1>1, <1>5, <1>8, <2>1 DEF MInv, Mutex, Locking
  <2>4. Signal' /\ Owner'
    BY <1>1, <2>1, <2>2 DEF MInv, Signal, Owner, Announced, cpipe!NULL
  <2> QED BY <1>2, <1>3, <1>4, <1>6, <2>3, <2>4 DEF MInv
<1>9. CASE sender[s] = "set" /\ cpipe!FlushSet /\ Goto(s, "wake")
  <2>1. /\ flushing /\ c' = f /\ w' = f
        /\ sender' = [sender EXCEPT ![s] = "wake"]
    BY <1>9 DEF cpipe!FlushSet, Goto
  <2>2. c = -1 /\ front = w
    BY <2>1, <1>5 DEF MInv, YP!IInv, YP!Positions, YP!NULL
  <2>3. signals = 0 /\ Waking = {} /\ ~active /\ receiver # "read"
    BY <2>2 DEF MInv, Signal, Owner, Announced, cpipe!NULL
  <2>4. Waking' = {s}
    BY <1>5, <2>1, <2>3 DEF Waking
  <2>5. Mutex'
    BY <1>1, <1>5, <1>9, <2>1 DEF MInv, Mutex, Locking
  <2>6. Signal'
    BY <1>1, <1>5, <2>1, <2>2, <2>3, <2>4 DEF Signal, Announced, cpipe!NULL
  <2>7. Owner'
    BY <1>1, <1>5, <2>1, <2>3, <2>4 DEF MInv, Owner, Announced, cpipe!NULL
  <2> QED BY <1>2, <1>3, <1>4, <1>6, <2>5, <2>6, <2>7 DEF MInv
<1> QED BY <1>7, <1>8, <1>9 DEF SendFlush

(* A step that leaves the pipe alone keeps what the invariant says of it.  *)
LEMMA PipeUnchanged ==
  ASSUME MInv, UNCHANGED cpipeVars
  PROVE  YP!IInv' /\ cpipe!TypeOK' /\ Len(log') <= MaxCommands
<1>1. YP!IInv'
  BY PipeStep DEF MInv, cpipeVars, YP!vars
<1>2. cpipe!TypeOK'
  BY <1>1, PipeTypes, PTL
<1> QED BY <1>1, <1>2 DEF MInv, cpipeVars

(* The mutex is given back; who was to send the signal still is.           *)
LEMMA SendUnlockMInv ==
  ASSUME MInv, NEW s \in Senders, SendUnlock(s)
  PROVE  MInv'
<1>1. /\ UNCHANGED cpipeVars /\ sync' = {} /\ signals' = signals /\ active' = active
      /\ receiver' = receiver /\ destroyed' = destroyed
      /\ sender[s] \in {"unlock", "wake"}
      /\ sender' = [sender EXCEPT ![s] = IF sender[s] = "wake" THEN "signal" ELSE "out"]
  BY DEF SendUnlock, Goto
<1>2. log' = log /\ front' = front /\ w' = w /\ f' = f /\ c' = c
  BY <1>1 DEF cpipeVars
<1>3. YP!IInv' /\ cpipe!TypeOK' /\ Len(log') <= MaxCommands
  BY <1>1, PipeUnchanged
<1>4. sender \in [Senders -> {"out", "flush", "set", "unlock", "wake", "signal"}]
  BY DEF MInv, TypeOK
<1>5. TypeOK'
  BY <1>1, <1>3, <1>4 DEF MInv, TypeOK
<1>6. Waking' = Waking
  BY <1>1, <1>4 DEF Waking
<1>7. Mutex'
  BY <1>1, <1>2, <1>4 DEF MInv, Mutex, Locking
<1>8. Signal' /\ Owner'
  BY <1>1, <1>2, <1>6 DEF MInv, Signal, Owner, Announced, cpipe!NULL
<1>9. Gone'
  BY <1>1 DEF MInv, Gone
<1> QED BY <1>3, <1>5, <1>7, <1>8, <1>9 DEF MInv

(* The signal is sent.                                                     *)
LEMMA SendSignalMInv ==
  ASSUME MInv, NEW s \in Senders, SendSignal(s)
  PROVE  MInv'
<1>1. /\ UNCHANGED cpipeVars /\ sync' = sync /\ signals' = signals + 1 /\ active' = active
      /\ receiver' = receiver /\ destroyed' = destroyed
      /\ sender[s] = "signal"
      /\ sender' = [sender EXCEPT ![s] = "out"]
  BY DEF SendSignal, Goto
<1>2. log' = log /\ front' = front /\ w' = w /\ f' = f /\ c' = c
  BY <1>1 DEF cpipeVars
<1>3. YP!IInv' /\ cpipe!TypeOK' /\ Len(log') <= MaxCommands
  BY <1>1, PipeUnchanged
<1>4. sender \in [Senders -> {"out", "flush", "set", "unlock", "wake", "signal"}]
  BY DEF MInv, TypeOK
<1>5. TypeOK'
  BY <1>1, <1>3, <1>4 DEF MInv, TypeOK
<1>6. s \in Waking /\ signals = 0
  BY <1>1 DEF Waking, MInv, Signal
<1>7. Waking' = {}
  BY <1>1, <1>4, <1>6 DEF Waking, MInv, Signal
<1>8. Mutex'
  BY <1>1, <1>2, <1>4 DEF MInv, Mutex, Locking
<1>9. Signal' /\ Owner'
  BY <1>1, <1>2, <1>6, <1>7 DEF MInv, Signal, Owner, Announced, cpipe!NULL
<1>10. Gone'
  BY <1>1 DEF MInv, Gone
<1> QED BY <1>3, <1>5, <1>8, <1>9, <1>10 DEF MInv
(* What a read does: it takes a flushed command and leaves _c alone, or it *)
(* finds none and puts the pipe to sleep.                                  *)
LEMMA ReadEffect ==
  ASSUME MInv, cpipe!Read, c # cpipe!NULL
  PROVE  /\ log' = log /\ w' = w /\ f' = f
         /\ YP!IInv' /\ cpipe!TypeOK' /\ Len(log') <= MaxCommands
         /\ cpipe!Readable => front' = front + 1 /\ c' = c /\ front < w
         /\ ~cpipe!Readable => front' = front /\ c' = cpipe!NULL
<1>1. log' = log /\ w' = w /\ f' = f
  BY DEF cpipe!Read, cpipe!writerVars
<1>2. YP!IInv'
  <2>1. YP!Read
    BY DEF cpipe!Read, cpipe!Prefetch, cpipe!Fetch, cpipe!Prefetched, cpipe!Readable,
           cpipe!NULL, cpipe!writerVars, YP!Read, YP!Prefetch, YP!Fetch, YP!Prefetched,
           YP!Readable, YP!NULL, YP!writerVars
  <2> QED BY <2>1, PipeStep DEF MInv, YP!Next, YP!Reader
<1>3. cpipe!TypeOK'
  BY <1>2, PipeTypes, PTL
<1>4. cpipe!Readable => front' = front + 1 /\ c' = c /\ front < w
  BY PipeFacts DEF MInv, cpipe!Read, cpipe!Prefetch, cpipe!Fetch, cpipe!Prefetched,
                   cpipe!Readable, cpipe!NULL
<1>5. ~cpipe!Readable => front' = front /\ c' = cpipe!NULL
  BY PipeFacts DEF MInv, cpipe!Read, cpipe!Prefetch, cpipe!Fetch, cpipe!Prefetched,
                   cpipe!Readable, cpipe!NULL
<1> QED BY <1>1, <1>2, <1>3, <1>4, <1>5 DEF MInv

(* recv in the active state.                                               *)
LEMMA RecvActiveMInv ==
  ASSUME MInv, RecvActive
  PROVE  MInv'
<1>1. /\ sync' = sync /\ sender' = sender /\ signals' = signals /\ destroyed' = destroyed
      /\ ~destroyed /\ active /\ receiver = "out" /\ cpipe!Read
      /\ receiver' = IF cpipe!Readable THEN "out" ELSE "wait"
  BY DEF RecvActive
<1>2. ~Announced /\ c # cpipe!NULL
  BY <1>1 DEF MInv, Signal, Owner
<1>3. /\ log' = log /\ w' = w /\ f' = f
      /\ YP!IInv' /\ cpipe!TypeOK' /\ Len(log') <= MaxCommands
      /\ cpipe!Readable => front' = front + 1 /\ c' = c /\ front < w
      /\ ~cpipe!Readable => front' = front /\ c' = cpipe!NULL
  BY <1>1, <1>2, ReadEffect
<1>4. active' = cpipe!Readable
  BY DEF RecvActive
<1>5. active' \in BOOLEAN
  BY <1>4, Zenon DEF cpipe!Readable
<1>6. TypeOK'
  BY <1>1, <1>3, <1>5 DEF MInv, TypeOK
<1>7. Waking' = Waking
  BY <1>1 DEF Waking
<1>8. ~Announced'
  BY <1>1, <1>2, <1>7 DEF Announced
<1>9. Mutex'
  BY <1>1, <1>3 DEF MInv, Mutex
<1>10. Signal'
  BY <1>1, <1>7, <1>8 DEF MInv, Signal
<1>11. Owner'
  <2>1. CASE cpipe!Readable
    <3>1. active'
      BY <2>1, <1>4
    <3> QED BY <2>1, <3>1, <1>1, <1>2, <1>3 DEF Owner, cpipe!NULL
  <2>2. CASE ~cpipe!Readable
    <3>1. ~active'
      BY <2>2, <1>4
    <3> QED BY <2>2, <3>1, <1>1, <1>3 DEF Owner, cpipe!NULL
  <2> QED BY <2>1, <2>2
<1>12. Gone'
  BY <1>1 DEF Gone
<1> QED BY <1>3, <1>6, <1>9, <1>10, <1>11, <1>12 DEF MInv

(* recv in the passive state, up to the wait and back with EAGAIN.         *)
LEMMA RecvWaitMInv ==
  ASSUME MInv, RecvPassive \/ RecvTimeout
  PROVE  MInv'
<1>1. /\ UNCHANGED cpipeVars /\ sync' = sync /\ sender' = sender /\ signals' = signals
      /\ active' = active /\ destroyed' = destroyed
      /\ receiver' \in {"out", "wait"} /\ receiver # "read"
      /\ receiver' = "wait" => ~active /\ ~destroyed
  BY DEF RecvPassive, RecvTimeout
<1>2. log' = log /\ front' = front /\ w' = w /\ f' = f /\ c' = c
  BY <1>1 DEF cpipeVars
<1>3. YP!IInv' /\ cpipe!TypeOK' /\ Len(log') <= MaxCommands
  BY <1>1, PipeUnchanged
<1>4. TypeOK'
  BY <1>1, <1>3 DEF MInv, TypeOK
<1>5. Waking' = Waking
  BY <1>1 DEF Waking
<1>6. Mutex' /\ Signal' /\ Owner'
  BY <1>1, <1>2, <1>5 DEF MInv, Mutex, Signal, Owner, Announced, cpipe!NULL
<1>7. Gone'
  BY <1>1, <1>2 DEF MInv, Gone
<1> QED BY <1>3, <1>4, <1>6, <1>7 DEF MInv

(* recv takes the signal: there was one, so there is a command.            *)
LEMMA RecvSignalMInv ==
  ASSUME MInv, RecvSignal
  PROVE  MInv'
<1>1. /\ UNCHANGED cpipeVars /\ sync' = sync /\ sender' = sender /\ signals' = signals - 1
      /\ destroyed' = destroyed /\ receiver' = "read" /\ receiver = "wait" /\ signals > 0
  BY DEF RecvSignal
<1>2. active' = TRUE
  BY DEF RecvSignal
<1>3. log' = log /\ front' = front /\ w' = w /\ f' = f /\ c' = c
  BY <1>1 DEF cpipeVars
<1>4. YP!IInv' /\ cpipe!TypeOK' /\ Len(log') <= MaxCommands
  BY <1>1, PipeUnchanged
<1>5. signals = 1 /\ signals' = 0 /\ Waking = {} /\ Announced
  BY <1>1 DEF MInv, Signal, Announced
<1>6. active' \in BOOLEAN /\ active'
  BY <1>2, Zenon
<1>7. TypeOK'
  BY <1>1, <1>4, <1>5, <1>6 DEF MInv, TypeOK
<1>8. Waking' = {}
  BY <1>1, <1>5 DEF Waking
<1>9. Mutex'
  BY <1>1, <1>3 DEF MInv, Mutex
<1>10. Signal'
  BY <1>5, <1>8 DEF Signal, Announced
<1>11. Owner'
  BY <1>1, <1>3, <1>5, <1>6 DEF MInv, Signal, Owner, cpipe!NULL
<1>12. Gone'
  BY <1>1 DEF MInv, Gone
<1> QED BY <1>4, <1>7, <1>9, <1>10, <1>11, <1>12 DEF MInv

(* The read after the signal.                                              *)
LEMMA RecvReadMInv ==
  ASSUME MInv, RecvRead
  PROVE  MInv'
<1>1. /\ sync' = sync /\ sender' = sender /\ signals' = signals /\ active' = active
      /\ destroyed' = destroyed /\ receiver = "read" /\ receiver' = "out" /\ cpipe!Read
  BY DEF RecvRead
<1>2. active /\ front < w /\ c # cpipe!NULL /\ ~Announced /\ ~destroyed
  BY <1>1 DEF MInv, Owner, Signal, Gone
<1>3. cpipe!Readable
  BY <1>2, AwakeIsReadable DEF MInv
<1>4. /\ log' = log /\ w' = w /\ f' = f /\ c' = c
      /\ YP!IInv' /\ cpipe!TypeOK' /\ Len(log') <= MaxCommands
  BY <1>1, <1>2, <1>3, ReadEffect
<1>5. TypeOK'
  BY <1>1, <1>4 DEF MInv, TypeOK
<1>6. Waking' = Waking
  BY <1>1 DEF Waking
<1>7. Mutex'
  BY <1>1, <1>4 DEF MInv, Mutex
<1>8. Signal' /\ Owner'
  BY <1>1, <1>2, <1>4, <1>6 DEF MInv, Signal, Owner, Announced, cpipe!NULL
<1>9. Gone'
  BY <1>1, <1>2 DEF Gone
<1> QED BY <1>4, <1>5, <1>7, <1>8, <1>9 DEF MInv

(* The destructor.  A sender past the mutex that has yet to signal would   *)
(* have announced a command nobody has read, but all have been read.       *)
LEMMA DestroyMInv ==
  ASSUME MInv, Destroy
  PROVE  MInv'
<1>1. /\ UNCHANGED cpipeVars /\ sync' = sync /\ sender' = sender /\ signals' = signals
      /\ active' = active /\ receiver' = receiver
      /\ receiver = "out" /\ front = MaxCommands /\ sync = {}
  BY DEF Destroy
<1>2. destroyed' = TRUE
  BY DEF Destroy
<1>3. destroyed' \in BOOLEAN
  BY <1>2, Zenon
<1>4. log' = log /\ front' = front /\ w' = w /\ f' = f /\ c' = c
  BY <1>1 DEF cpipeVars
<1>5. YP!IInv' /\ cpipe!TypeOK' /\ Len(log') <= MaxCommands
  BY <1>1, PipeUnchanged
<1>6. TypeOK'
  BY <1>1, <1>3, <1>5 DEF MInv, TypeOK
<1>7. Waking' = Waking
  BY <1>1 DEF Waking
<1>8. Mutex' /\ Signal' /\ Owner'
  BY <1>1, <1>4, <1>7 DEF MInv, Mutex, Signal, Owner, Announced, cpipe!NULL
<1>9. Waking = {}
  <2>1. ~(front < w)
    <3>1. Len(log) \in Nat /\ w <= Len(log) /\ w \in Nat /\ front \in Nat
      BY PipeFacts DEF MInv
    <3> QED BY <3>1, <1>1, MaxCommandsAssumption DEF MInv
  <2> QED BY <2>1 DEF MInv, Signal, Announced
<1>10. \A s \in Senders : sender[s] = "out"
  BY <1>1, <1>9 DEF MInv, TypeOK, Mutex, Locking, Waking
<1>11. Gone'
  BY <1>1, <1>4, <1>10 DEF Gone
<1> QED BY <1>5, <1>6, <1>8, <1>11 DEF MInv

(* Every step keeps the invariant.                                         *)
LEMMA NextMInv == MInv /\ [Next]_vars => MInv'
<1> SUFFICES ASSUME MInv, [Next]_vars PROVE MInv'
  OBVIOUS
<1>1. CASE \E s \in Senders : Send(s)
  BY <1>1, SendWriteMInv, SendFlushMInv, SendUnlockMInv, SendSignalMInv DEF Send
<1>2. CASE Recv
  BY <1>2, RecvActiveMInv, RecvWaitMInv, RecvSignalMInv, RecvReadMInv DEF Recv
<1>3. CASE Destroy
  BY <1>3, DestroyMInv
<1>4. CASE UNCHANGED vars
  <2>1. UNCHANGED cpipeVars /\ UNCHANGED <<sync, sender, signals, active, receiver, destroyed>>
    BY <1>4 DEF vars
  <2>2. YP!IInv' /\ cpipe!TypeOK' /\ Len(log') <= MaxCommands
    BY <2>1, PipeUnchanged
  <2>3. front' = front /\ w' = w /\ f' = f /\ c' = c /\ Waking' = Waking
    BY <2>1 DEF cpipeVars, Waking
  <2> QED BY <2>1, <2>2, <2>3
          DEF MInv, TypeOK, Mutex, Signal, Owner, Gone, Announced, cpipe!NULL
<1> QED BY <1>1, <1>2, <1>3, <1>4 DEF Next

LEMMA AlwaysMInv == Spec => []MInv
  BY InitMInv, NextMInv, PTL DEF Spec

-----------------------------------------------------------------------------
(* The variables of a mailbox have their types.                            *)
THEOREM TypeCorrect == Spec => []TypeOK
<1>1. MInv => TypeOK
  BY DEF MInv
<1> QED BY <1>1, AlwaysMInv, PTL

(* The assertion at the end of mailbox_t::recv holds: the read after a     *)
(* signal finds a command.                                                 *)
THEOREM ReadAfterSignal == Spec => []SignalMeansCommand
<1>1. MInv => SignalMeansCommand
  BY AwakeIsReadable DEF MInv, SignalMeansCommand, Owner
<1> QED BY <1>1, AlwaysMInv, PTL

(* At most one signal is under way, for any number of senders.             *)
THEOREM SignalsNeverPile == Spec => []OneSignal
<1>1. MInv => OneSignal
  <2> SUFFICES ASSUME MInv PROVE OneSignal
    OBVIOUS
  <2>1. CASE Waking = {}
    BY <2>1, FS_EmptySet DEF MInv, Signal, OneSignal
  <2>2. CASE Waking # {}
    <3>1. PICK s : s \in Waking
      BY <2>2
    <3>2. Waking = {s} /\ signals = 0
      BY <3>1 DEF MInv, Signal
    <3>3. Cardinality({s}) = 1
      BY FS_Singleton
    <3> QED BY <3>2, <3>3 DEF OneSignal
  <2> QED BY <2>1, <2>2
<1> QED BY <1>1, AlwaysMInv, PTL

(* A passive owner with commands to receive has a signal coming.           *)
THEOREM NoLostCommand == Spec => []PassiveOwnerIsWoken
<1>1. MInv => PassiveOwnerIsWoken
  BY PipeFacts DEF MInv, Owner, Announced, PassiveOwnerIsWoken, cpipe!NULL
<1> QED BY <1>1, AlwaysMInv, PTL

(* The mutex taken in the destructor keeps it from running under a sender. *)
THEOREM DestructorIsLast == Spec => []NobodyInSendAfterDestroy
<1>1. MInv => NobodyInSendAfterDestroy
  BY DEF MInv, Gone, NobodyInSendAfterDestroy
<1> QED BY <1>1, AlwaysMInv, PTL
=============================================================================
