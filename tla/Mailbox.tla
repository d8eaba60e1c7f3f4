------------------------------ MODULE Mailbox ------------------------------
(***************************************************************************)
(* mailbox_t (src/mailbox.cpp): the queue of commands of one thread.  Any  *)
(* number of threads send; the owner alone receives, waiting for a signal  *)
(* (src/signaler.cpp) when it has found the queue empty.                   *)
(*                                                                         *)
(* The commands travel through a ypipe_t (module YPipe, instantiated here  *)
(* at the granularity of its accesses to _c).  A sender gives up the mutex *)
(* before it sends the signal, so other senders run in between.            *)
(***************************************************************************)
EXTENDS Integers, Sequences, FiniteSets

CONSTANTS Senders,      \* the threads that send commands here
          MaxCommands   \* bound: commands sent in the mailbox's life

ASSUME MaxCommandsAssumption == MaxCommands \in Nat \ {0}

VARIABLES log, front, w, f, r, c, flushing, idle,    \* _cpipe
          sync,        \* _sync: the set of threads that hold the mutex
          sender,      \* where each sender is in send
          signals,     \* signals in the signaler (the counter of the eventfd)
          active,      \* _active
          receiver,    \* where the owner is in recv
          destroyed    \* the destructor has returned

cpipeVars == <<log, front, w, f, r, c, flushing, idle>>
vars == <<cpipeVars, sync, sender, signals, active, receiver, destroyed>>

\* A command is identified by its sender: all that matters here is its turn.
Commands == [from : Senders, more : {FALSE}]

cpipe == INSTANCE YPipe WITH Items <- Commands, MaxWrites <- MaxCommands

InitWithoutCheckRead ==
    /\ log = <<>> /\ front = 0 /\ w = 0 /\ f = 0 /\ flushing = FALSE
    /\ r = 0 /\ c = 0 /\ idle = FALSE
    /\ sync = {}
    /\ sender = [s \in Senders |-> "out"]
    /\ signals = 0 /\ active = FALSE /\ receiver = "out" /\ destroyed = FALSE

\* The constructor calls check_read on the empty pipe, which puts it to sleep.
Init ==
    /\ log = <<>> /\ front = 0 /\ w = 0 /\ f = 0 /\ flushing = FALSE
    /\ r = 0 /\ c = cpipe!NULL /\ idle = TRUE
    /\ sync = {}
    /\ sender = [s \in Senders |-> "out"]
    /\ signals = 0
    /\ active = FALSE
    /\ receiver = "out"
    /\ destroyed = FALSE

-----------------------------------------------------------------------------
(* send                                                                    *)

Goto(s, pc) == sender' = [sender EXCEPT ![s] = pc]

\* Take the mutex and write the command.
SendWrite(s) ==
    /\ sender[s] = "out"
    /\ sync = {}
    /\ sync' = {s}
    /\ cpipe!Write([from |-> s, more |-> FALSE])
    /\ Goto(s, "flush")
    /\ UNCHANGED <<signals, active, receiver, destroyed>>

\* flush: returns true (unlock next), or false in two steps (set, wake).
SendFlush(s) ==
    /\ \/ sender[s] = "flush" /\ cpipe!FlushAwake /\ Goto(s, "unlock")
       \/ sender[s] = "flush" /\ cpipe!FlushAsleep /\ Goto(s, "set")
       \/ sender[s] = "set" /\ cpipe!FlushSet /\ Goto(s, "wake")
    /\ UNCHANGED <<sync, signals, active, receiver, destroyed>>

SendUnlockAndSignal(s) ==
    /\ sender[s] \in {"unlock", "wake"}
    /\ sync' = {}
    /\ Goto(s, "signal")
    /\ UNCHANGED <<cpipeVars, signals, active, receiver, destroyed>>

SendUnlockSilently(s) ==
    /\ sender[s] \in {"unlock", "wake"}
    /\ sync' = {}
    /\ Goto(s, "out")
    /\ UNCHANGED <<cpipeVars, signals, active, receiver, destroyed>>

SendUnlock(s) ==
    /\ sender[s] \in {"unlock", "wake"}
    /\ sync' = {}
    /\ Goto(s, IF sender[s] = "wake" THEN "signal" ELSE "out")
    /\ UNCHANGED <<cpipeVars, signals, active, receiver, destroyed>>

SendSignal(s) ==
    /\ sender[s] = "signal"
    /\ signals' = signals + 1
    /\ Goto(s, "out")
    /\ UNCHANGED <<cpipeVars, sync, active, receiver, destroyed>>

-----------------------------------------------------------------------------
(* recv                                                                    *)

\* Called in the active state: take a command straight away, or go passive.
RecvActive ==
    /\ receiver = "out" /\ ~destroyed
    /\ active
    /\ cpipe!Read
    /\ active' = cpipe!Readable
    /\ receiver' = IF cpipe!Readable THEN "out" ELSE "wait"
    /\ UNCHANGED <<sync, sender, signals, destroyed>>

RecvPassive ==
    /\ receiver = "out" /\ ~destroyed
    /\ ~active
    /\ receiver' = "wait"
    /\ UNCHANGED <<cpipeVars, sync, sender, signals, active, destroyed>>

\* The wait times out or is interrupted: recv returns EAGAIN or EINTR.
RecvTimeout ==
    /\ receiver = "wait"
    /\ receiver' = "out"
    /\ UNCHANGED <<cpipeVars, sync, sender, signals, active, destroyed>>

RecvWithoutWaiting ==
    /\ receiver = "wait"
    /\ signals' = signals - 1
    /\ active' = TRUE
    /\ receiver' = "read"
    /\ UNCHANGED <<cpipeVars, sync, sender, destroyed>>

RecvLeavingSignal ==
    /\ receiver = "wait"
    /\ signals > 0
    /\ active' = TRUE
    /\ receiver' = "read"
    /\ UNCHANGED <<cpipeVars, sync, sender, signals, destroyed>>

RecvSignal ==
    /\ receiver = "wait"
    /\ signals > 0
    /\ signals' = signals - 1
    /\ active' = TRUE
    /\ receiver' = "read"
    /\ UNCHANGED <<cpipeVars, sync, sender, destroyed>>

\* The read that has to succeed: zmq_assert (ok).
RecvRead ==
    /\ receiver = "read"
    /\ cpipe!Read
    /\ receiver' = "out"
    /\ UNCHANGED <<sync, sender, signals, active, destroyed>>

DestroyWithoutLock ==
    /\ receiver = "out" /\ ~destroyed
    /\ front = MaxCommands
    /\ destroyed' = TRUE
    /\ UNCHANGED <<cpipeVars, sync, sender, signals, active, receiver>>

\* The owner has received the last command anybody sends it (the protocols
\* of own_t and reaper_t see to that) and destroys the mailbox; the
\* destructor takes the mutex and gives it back.
Destroy ==
    /\ receiver = "out" /\ ~destroyed
    /\ front = MaxCommands
    /\ sync = {}
    /\ destroyed' = TRUE
    /\ UNCHANGED <<cpipeVars, sync, sender, signals, active, receiver>>

-----------------------------------------------------------------------------
Send(s) == SendWrite(s) \/ SendFlush(s) \/ SendUnlock(s) \/ SendSignal(s)

Recv == RecvActive \/ RecvPassive \/ RecvTimeout \/ RecvSignal \/ RecvRead

Next == (\E s \in Senders : Send(s)) \/ Recv \/ Destroy

Spec == Init /\ [][Next]_vars

\* Threads do not stop inside send; the owner goes on calling recv, and poll
\* does not time out or get interrupted for ever while a signal is there.
Fairness ==
    /\ \A s \in Senders : WF_vars(SendFlush(s) \/ SendUnlock(s) \/ SendSignal(s))
    /\ WF_vars(RecvActive \/ RecvPassive \/ RecvRead)
    /\ SF_vars(RecvSignal)

FairSpec == Spec /\ Fairness

-----------------------------------------------------------------------------
(* Properties                                                              *)

TypeOK ==
    /\ cpipe!TypeOK
    /\ sync \in SUBSET Senders
    /\ sender \in [Senders -> {"out", "flush", "set", "unlock", "wake", "signal"}]
    /\ signals \in Nat
    /\ active \in BOOLEAN
    /\ receiver \in {"out", "wait", "read"}
    /\ destroyed \in BOOLEAN

\* zmq_assert (ok) at the end of recv: a signal is only ever received when
\* there is a command to read, however the senders overtake each other
\* between giving up the mutex and sending the signal.
SignalMeansCommand == receiver = "read" => cpipe!Readable

\* There is never more than one signal under way, sent or about to be: the
\* branch of signaler_t::recv_failable that puts signals back is not taken.
Waking == {s \in Senders : sender[s] \in {"wake", "signal"}}

OneSignal == signals + Cardinality(Waking) <= 1

\* A passive owner misses nothing: commands it has not received are announced
\* by a signal, or by a sender that is about to signal.
PassiveOwnerIsWoken ==
    ~active /\ receiver # "read" /\ front < w => signals > 0 \/ Waking # {}

\* "Other threads might still be in our send() method": taking the mutex in
\* the destructor is enough, although the signal is sent without the mutex.
NobodyInSendAfterDestroy ==
    destroyed => \A s \in Senders : sender[s] = "out"

\* Every command that is sent is received.
EveryCommandReceived ==
    \A n \in 1..MaxCommands : Len(log) >= n ~> front >= n
=============================================================================
