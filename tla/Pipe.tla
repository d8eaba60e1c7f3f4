-------------------------------- MODULE Pipe --------------------------------
(***************************************************************************)
(* pipe_t (src/pipe.cpp): the two ends of a bidirectional message pipe     *)
(* between two threads.  Messages travel through two ypipes, of which each *)
(* end reads one and writes the other; commands travel through the         *)
(* mailboxes of the two threads.  YPipe implements the queue operators     *)
(* used here; Mailbox delivers the commands of one end in the order sent.  *)
(*                                                                         *)
(* The owner of an end (a socket or a session) may call its operations in  *)
(* any order; a call is one step, since an end is used by one thread and   *)
(* the ends share nothing but the queues and the mailboxes.                *)
(***************************************************************************)
EXTENDS Integers, Sequences, FiniteSets, QueueOps

CONSTANTS Scenarios,    \* the pipes considered: records, see Scenario below
          MaxQueues,    \* bound: ypipes allocated at a time
          MaxLength     \* bound: queue length beyond which no owner repeats
                        \* terminate in waiting_for_delimiter

Ends == {1, 2}
Peer(e) == 3 - e
NULL == 0
QueueIds == 1..MaxQueues

Item == [kind : {"data", "routing_id", "credential"}, more : BOOLEAN]

\* What may happen to a pipe, and bounds on it.
Scenario ==
    [items        : SUBSET Item,         \* what the owners write
     writes       : [Ends -> Nat],       \* bound: how many items each end writes
     hwm          : [Ends -> Nat],       \* out hwm of each end (pipepair)
     inBoost      : [Ends -> Int],       \* set_hwms_boost
     outBoost     : [Ends -> Int],
     delays       : SUBSET BOOLEAN,      \* arguments of terminate
     terminators  : SUBSET Ends,         \* the ends whose owner calls terminate
     newHwms      : SUBSET (Int \X Int), \* <<rcvhwm, sndhwm>> set meanwhile
     optioners    : SUBSET Ends,         \* the ends whose owner changes the hwms
     options      : Nat,                 \* bound: how often, or asks statistics
     reconnecters : SUBSET Ends,         \* the ends whose owner calls hiccup
     disconnecters : SUBSET Ends]        \* the ends with a disconnect message

ASSUME ScenariosAssumption == \A s \in Scenarios : s \in Scenario
ASSUME BoundsAssumption ==
    MaxQueues \in Nat /\ MaxQueues >= 2 /\ MaxLength \in Nat

Delimiter == [kind |-> "delimiter", more |-> FALSE]

VARIABLES
    scenario,                \* one of Scenarios, fixed
    state, delay,            \* _state ("deleted" after delete this), _delay
    inPipe, outPipe,         \* _in_pipe, _out_pipe: ids of queues, or NULL
    queues, allocated,       \* the ypipes; the ids not deallocated
    inActive, outActive,     \* _in_active, _out_active
    hwm, lwm,                \* _hwm, _lwm
    msgsRead, msgsWritten,   \* _msgs_read, _msgs_written
    peersMsgsRead,           \* _peers_msgs_read
    disconnectMsg,           \* _disconnect_msg is not empty
    commands,                \* commands on their way to each end, in order
    writesLeft, optionsLeft  \* the bounds on the owners

termVars == <<state, delay, inPipe, outPipe>>
flowVars == <<inActive, outActive, hwm, lwm, msgsRead, msgsWritten,
              peersMsgsRead>>
boundVars == <<scenario, writesLeft, optionsLeft>>
vars == <<termVars, queues, allocated, flowVars, commands, disconnectMsg, boundVars>>

-----------------------------------------------------------------------------
(* Watermarks                                                              *)

LwmAboveHwm(h) == h + 1

ComputeLwm(h) == (h + 1) \div 2

BoostedAnyway(h, boost) == h + boost

Boosted(h, boost) ==
    IF h <= 0 \/ boost = 0 THEN 0 ELSE h + (IF boost > 0 THEN boost ELSE 0)

CheckHwmOffByOne(e) ==
    hwm[e] > 0 => msgsWritten[e] - peersMsgsRead[e] <= hwm[e]

\* _msgs_written - _peers_msgs_read is unsigned: below zero it is huge.
CheckHwm(e) ==
    LET outstanding == msgsWritten[e] - peersMsgsRead[e]
    IN  hwm[e] > 0 => outstanding >= 0 /\ outstanding < hwm[e]

SetHwmOnly(e, in, out) ==
    /\ hwm' = [hwm EXCEPT ![e] = Boosted(out, scenario.outBoost[e])]
    /\ UNCHANGED lwm

SetHwms(e, in, out) ==
    /\ lwm' = [lwm EXCEPT ![e] = ComputeLwm(Boosted(in, scenario.inBoost[e]))]
    /\ hwm' = [hwm EXCEPT ![e] = Boosted(out, scenario.outBoost[e])]

-----------------------------------------------------------------------------
(* pipepair and the constructor                                            *)

Init ==
    /\ scenario \in Scenarios
    /\ state = [e \in Ends |-> "active"]
    /\ delay \in [Ends -> BOOLEAN]   \* set_nodelay, when the owner attaches it
    /\ inPipe = [e \in Ends |-> e]
    /\ outPipe = [e \in Ends |-> Peer(e)]
    /\ queues = [i \in QueueIds |-> EmptyQueue]
    /\ allocated = Ends
    /\ inActive = [e \in Ends |-> TRUE]
    /\ outActive = [e \in Ends |-> TRUE]
    /\ hwm = scenario.hwm
    /\ lwm = [e \in Ends |-> ComputeLwm(scenario.hwm[Peer(e)])]
    /\ msgsRead = [e \in Ends |-> 0]
    /\ msgsWritten = [e \in Ends |-> 0]
    /\ peersMsgsRead = [e \in Ends |-> 0]
    /\ commands = [e \in Ends |-> <<>>]
    /\ disconnectMsg = [e \in Ends |-> e \in scenario.disconnecters]
    /\ writesLeft = scenario.writes
    /\ optionsLeft = scenario.options

-----------------------------------------------------------------------------
(* Helpers                                                                 *)

Send(e, cmds) == commands' = [commands EXCEPT ![Peer(e)] = @ \o cmds]

Cmd(type) == [type |-> type]

In(e) == queues[inPipe[e]]
Out(e) == queues[outPipe[e]]

\* What flush sends to the peer.
WakeNever(q) == <<>>

Wake(q) == IF FlushWakes(q) THEN <<Cmd("activate_read")>> ELSE <<>>

\* What a message adds to the counters of messages read and written.
Counts(item) == IF item.more \/ item.kind = "routing_id" THEN 0 ELSE 1

\* rollback: take back the items of an unfinished message.
Rollback(q) == [q EXCEPT !.pending = SubSeq(@, 1, Complete(@))]

\* The queues after rollback, if there still is an out pipe.
RolledBack(e, qs) ==
    IF outPipe[e] = NULL THEN qs ELSE [qs EXCEPT ![outPipe[e]] = Rollback(@)]

\* _out_pipe = NULL, whenever an ack goes out.
KeepOutPipe(e) == UNCHANGED outPipe

DropOutPipe(e) == outPipe' = [outPipe EXCEPT ![e] = NULL]

\* Deallocate a queue, with what is left in it.
Leak(i) == queues' = [queues EXCEPT ![i] = EmptyQueue] /\ UNCHANGED allocated

Deallocate(i) == /\ queues' = [queues EXCEPT ![i] = EmptyQueue]
                 /\ allocated' = allocated \ {i}

CanReadAnyState(e) == inActive[e] /\ state[e] # "deleted"

CanRead(e) == inActive[e] /\ state[e] \in {"active", "waiting_for_delimiter"}

\* process_delimiter, with the queues qs that the read of the delimiter leaves.
ProcessDelimiter(e, qs) ==
    IF state[e] = "active"
    THEN /\ state' = [state EXCEPT ![e] = "delimiter_received"]
         /\ queues' = qs
         /\ UNCHANGED <<outPipe, commands>>
    ELSE /\ state' = [state EXCEPT ![e] = "term_ack_sent"]
         /\ queues' = RolledBack(e, qs)
         /\ DropOutPipe(e)
         /\ Send(e, <<Cmd("pipe_term_ack")>>)

-----------------------------------------------------------------------------
(* Reading                                                                 *)

\* The number of credentials at the front of the queue, which read drops.
Credentials(s) ==
    Min({i \in 0..Len(s) : i = Len(s) \/ s[i + 1].kind # "credential"})

\* check_read, when it changes anything: nothing to read, or a delimiter.
CheckReadPipe(e) ==
    /\ CanRead(e)
    /\ \/ /\ ~Readable(In(e))
          /\ queues' = [queues EXCEPT ![inPipe[e]] = CheckRead(@)]
          /\ inActive' = [inActive EXCEPT ![e] = FALSE]
          /\ UNCHANGED <<state, outPipe, commands>>
       \/ /\ Readable(In(e)) /\ Head(In(e).ready) = Delimiter
          /\ ProcessDelimiter(e, [queues EXCEPT ![inPipe[e]] = Read(@)])
          /\ UNCHANGED inActive
    /\ UNCHANGED <<delay, inPipe, allocated, outActive, hwm, lwm, msgsRead,
                   msgsWritten, peersMsgsRead, disconnectMsg, boundVars>>

ReadPipe(e) ==
    LET n    == Credentials(In(e).ready)
        rest == [In(e) EXCEPT !.ready = SubSeq(@, n + 1, Len(@))]
        read == [queues EXCEPT ![inPipe[e]] = Read(rest)]
        item == Head(rest.ready)
        count == msgsRead[e] + Counts(item)
    IN
    /\ CanRead(e)
    /\ \/ /\ ~Readable(rest)
          /\ queues' = read
          /\ inActive' = [inActive EXCEPT ![e] = FALSE]
          /\ UNCHANGED <<state, outPipe, commands, msgsRead>>
       \/ /\ Readable(rest) /\ item = Delimiter
          /\ ProcessDelimiter(e, read)
          /\ UNCHANGED <<inActive, msgsRead>>
       \/ /\ Readable(rest) /\ item # Delimiter
          /\ queues' = read
          /\ msgsRead' = [msgsRead EXCEPT ![e] = count]
          /\ IF lwm[e] > 0 /\ count % lwm[e] = 0
             THEN Send(e, <<[type |-> "activate_write", msgsRead |-> count]>>)
             ELSE UNCHANGED commands
          /\ UNCHANGED <<state, outPipe, inActive>>
    /\ UNCHANGED <<delay, inPipe, allocated, outActive, hwm, lwm, msgsWritten,
                   peersMsgsRead, disconnectMsg, boundVars>>

-----------------------------------------------------------------------------
(* Writing                                                                 *)

\* write, its check_write included: a full pipe only stops being out-active.
WritePipe(e, item) ==
    /\ outActive[e] /\ state[e] = "active"
    /\ writesLeft[e] > 0
    /\ \/ /\ ~CheckHwm(e)
          /\ outActive' = [outActive EXCEPT ![e] = FALSE]
          /\ UNCHANGED <<queues, msgsWritten, writesLeft>>
       \/ /\ CheckHwm(e)
          /\ queues' = [queues EXCEPT ![outPipe[e]] = Write(@, item)]
          /\ msgsWritten' = [msgsWritten EXCEPT ![e] = @ + Counts(item)]
          /\ writesLeft' = [writesLeft EXCEPT ![e] = @ - 1]
          /\ UNCHANGED outActive
    /\ UNCHANGED <<termVars, allocated, inActive, hwm, lwm, msgsRead,
                   peersMsgsRead, commands, disconnectMsg, scenario, optionsLeft>>

RollbackPipe(e) ==
    /\ outPipe[e] # NULL /\ CanUnwrite(Out(e))
    /\ queues' = RolledBack(e, queues)
    /\ UNCHANGED <<termVars, allocated, flowVars, commands, disconnectMsg, boundVars>>

FlushPipe(e) ==
    /\ state[e] \notin {"term_ack_sent", "deleted"}
    /\ outPipe[e] # NULL /\ Complete(Out(e).pending) > 0
    /\ queues' = [queues EXCEPT ![outPipe[e]] = Flush(@)]
    /\ Send(e, Wake(Out(e)))
    /\ UNCHANGED <<termVars, allocated, flowVars, disconnectMsg, boundVars>>

-----------------------------------------------------------------------------
(* Termination and reconnection, as the owner asks for them                *)

\* The last part of terminate: write the delimiter; a flush follows.
NoDelimiter(e) == Rollback(Out(e))

DelimiterFirst(e) == [Rollback(Out(e)) EXCEPT !.pending = <<Delimiter>> \o @]

DelimitedOut(e) == Write(Rollback(Out(e)), Delimiter)

\* The states in which terminate only remembers its argument.
TerminateTwice == {"term_req_sent2", "term_ack_sent"}

TerminateIgnored == {"term_req_sent1", "term_req_sent2", "term_ack_sent"}

Terminate(e, d) ==
    /\ e \in scenario.terminators
    /\ state[e] # "deleted"
    /\ delay' = [delay EXCEPT ![e] = d]
    /\ \/ /\ state[e] \in TerminateIgnored
          /\ UNCHANGED <<state, outPipe, queues, outActive, commands>>
       \/ /\ state[e] = "waiting_for_delimiter" /\ ~d
          /\ state' = [state EXCEPT ![e] = "term_ack_sent"]
          /\ queues' = RolledBack(e, queues)
          /\ DropOutPipe(e)
          /\ outActive' = [outActive EXCEPT ![e] = FALSE]
          /\ Send(e, <<Cmd("pipe_term_ack")>>)
       \/ /\ state[e] \notin TerminateIgnored
          /\ state[e] = "waiting_for_delimiter" => d /\ Len(Out(e).ready) < MaxLength
          /\ state' = [state EXCEPT ![e] =
                IF @ = "waiting_for_delimiter" THEN @ ELSE "term_req_sent1"]
          /\ queues' = [queues EXCEPT ![outPipe[e]] = Flush(DelimitedOut(e))]
          /\ outActive' = [outActive EXCEPT ![e] = FALSE]
          /\ Send(e, (IF state[e] = "waiting_for_delimiter" THEN <<>>
                      ELSE <<Cmd("pipe_term")>>) \o Wake(DelimitedOut(e)))
          /\ UNCHANGED outPipe
    /\ UNCHANGED <<inPipe, allocated, inActive, hwm, lwm, msgsRead, msgsWritten,
                   peersMsgsRead, disconnectMsg, boundVars>>

\* send_disconnect_msg.  Without an out pipe it would dereference NULL.
SendDisconnectMsg(e) ==
    /\ disconnectMsg[e]
    /\ outPipe[e] # NULL
    /\ LET q == Write(Rollback(Out(e)), [kind |-> "data", more |-> FALSE]) IN
       /\ queues' = [queues EXCEPT ![outPipe[e]] = Flush(q)]
       /\ Send(e, Wake(q))
    /\ disconnectMsg' = [disconnectMsg EXCEPT ![e] = FALSE]
    /\ UNCHANGED <<termVars, allocated, flowVars, boundVars>>

CanHiccupAlways(e) == state[e] # "deleted"

CanHiccup(e) == state[e] = "active"

Hiccup(e) ==
    /\ e \in scenario.reconnecters
    /\ CanHiccup(e)
    /\ \E i \in QueueIds \ allocated :
          /\ allocated' = allocated \cup {i}
          /\ queues' = [queues EXCEPT ![i] = EmptyQueue]
          /\ inPipe' = [inPipe EXCEPT ![e] = i]
          /\ Send(e, <<[type |-> "hiccup", pipe |-> i]>>)
    /\ inActive' = [inActive EXCEPT ![e] = TRUE]
    /\ UNCHANGED <<state, delay, outPipe, outActive, hwm, lwm, msgsRead,
                   msgsWritten, peersMsgsRead, disconnectMsg, boundVars>>

\* update_pipe_options (src/socket_base.cpp) on one pipe of the socket.
UpdateHwms(e) ==
    /\ e \in scenario.optioners
    /\ optionsLeft > 0
    /\ state[e] # "deleted"
    /\ \E <<rcv, snd>> \in scenario.newHwms :
          /\ SetHwms(e, rcv, snd)
          /\ Send(e, <<[type |-> "pipe_hwm", in |-> snd, out |-> rcv]>>)
    /\ optionsLeft' = optionsLeft - 1
    /\ UNCHANGED <<termVars, queues, allocated, inActive, outActive, msgsRead,
                   msgsWritten, peersMsgsRead, disconnectMsg, scenario, writesLeft>>

\* query_pipes_stats (src/socket_base.cpp) on one pipe of the socket.
SendStats(e) ==
    /\ e \in scenario.optioners
    /\ optionsLeft > 0
    /\ state[e] # "deleted"
    /\ Send(e, <<Cmd("pipe_peer_stats")>>)
    /\ optionsLeft' = optionsLeft - 1
    /\ UNCHANGED <<termVars, queues, allocated, flowVars, disconnectMsg, scenario, writesLeft>>

-----------------------------------------------------------------------------
(* Command handlers.  Receive(e, type) takes the next command off.         *)

Next1(e) == Head(commands[e])

Receive(e, type) == /\ commands[e] # <<>>
                    /\ Next1(e).type = type

\* The commands left, and those the handler sends to the peer.
Handled(e, sent) ==
    commands' = [commands EXCEPT ![e] = Tail(@), ![Peer(e)] = @ \o sent]

ProcessActivateRead(e) ==
    /\ Receive(e, "activate_read")
    /\ inActive' = [inActive EXCEPT ![e] =
          @ \/ state[e] \in {"active", "waiting_for_delimiter"}]
    /\ Handled(e, <<>>)
    /\ UNCHANGED <<termVars, queues, allocated, outActive, hwm, lwm, msgsRead,
                   msgsWritten, peersMsgsRead, disconnectMsg, boundVars>>

ProcessActivateWrite(e) ==
    /\ Receive(e, "activate_write")
    /\ peersMsgsRead' = [peersMsgsRead EXCEPT ![e] = Next1(e).msgsRead]
    /\ outActive' = [outActive EXCEPT ![e] = @ \/ state[e] = "active"]
    /\ Handled(e, <<>>)
    /\ UNCHANGED <<termVars, queues, allocated, inActive, hwm, lwm, msgsRead,
                   msgsWritten, disconnectMsg, boundVars>>

\* How many messages process_hiccup finds in the old out pipe.
DropNone(q) == 0

Dropped(q) == Cardinality({i \in DOMAIN Flush(q).ready : ~Flush(q).ready[i].more})

\* The old out pipe is flushed, drained and deallocated; what was in it no
\* longer counts as written.
ProcessHiccup(e) ==
    /\ Receive(e, "hiccup")
    /\ msgsWritten' = [msgsWritten EXCEPT ![e] = @ - Dropped(Out(e))]
    /\ Deallocate(outPipe[e])
    /\ outPipe' = [outPipe EXCEPT ![e] = Next1(e).pipe]
    /\ outActive' = [outActive EXCEPT ![e] = TRUE]
    /\ Handled(e, <<>>)
    /\ UNCHANGED <<state, delay, inPipe, inActive, hwm, lwm, msgsRead,
                   peersMsgsRead, disconnectMsg, boundVars>>

ProcessPipeTerm(e) ==
    /\ Receive(e, "pipe_term")
    /\ \/ /\ state[e] = "active" /\ delay[e]
          /\ state' = [state EXCEPT ![e] = "waiting_for_delimiter"]
          /\ Handled(e, <<>>)
          /\ UNCHANGED outPipe
       \/ /\ ~(state[e] = "active" /\ delay[e])
          /\ state' = [state EXCEPT ![e] =
                IF @ = "term_req_sent1" THEN "term_req_sent2" ELSE "term_ack_sent"]
          /\ DropOutPipe(e)
          /\ Handled(e, <<Cmd("pipe_term_ack")>>)
    /\ UNCHANGED <<delay, inPipe, queues, allocated, flowVars, disconnectMsg, boundVars>>

\* The end drains and deallocates its in pipe and deletes itself.
ProcessPipeTermAck(e) ==
    /\ Receive(e, "pipe_term_ack")
    /\ state' = [state EXCEPT ![e] = "deleted"]
    /\ outPipe' = [outPipe EXCEPT ![e] = NULL]
    /\ inPipe' = [inPipe EXCEPT ![e] = NULL]
    /\ Deallocate(inPipe[e])
    /\ Handled(e, IF state[e] = "term_req_sent1" THEN <<Cmd("pipe_term_ack")>>
                  ELSE <<>>)
    /\ UNCHANGED <<delay, flowVars, disconnectMsg, boundVars>>

ProcessPipeHwm(e) ==
    /\ Receive(e, "pipe_hwm")
    /\ SetHwms(e, Next1(e).in, Next1(e).out)
    /\ Handled(e, <<>>)
    /\ UNCHANGED <<termVars, queues, allocated, inActive, outActive, msgsRead,
                   msgsWritten, peersMsgsRead, disconnectMsg, boundVars>>

\* The peer's numbers go on to the socket that asked for them.
ProcessPipePeerStats(e) ==
    /\ Receive(e, "pipe_peer_stats")
    /\ Handled(e, <<>>)
    /\ UNCHANGED <<termVars, queues, allocated, flowVars, disconnectMsg, boundVars>>

-----------------------------------------------------------------------------
Process(e) ==
    /\ state[e] # "deleted"
    /\ \/ ProcessActivateRead(e) \/ ProcessActivateWrite(e)
       \/ ProcessHiccup(e) \/ ProcessPipeTerm(e)
       \/ ProcessPipeTermAck(e) \/ ProcessPipeHwm(e)
       \/ ProcessPipePeerStats(e)

Use(e) == \/ CheckReadPipe(e) \/ ReadPipe(e)
          \/ \E item \in scenario.items : WritePipe(e, item)
          \/ RollbackPipe(e) \/ FlushPipe(e)
          \/ \E d \in scenario.delays : Terminate(e, d)
          \/ Hiccup(e) \/ SendDisconnectMsg(e)
          \/ UpdateHwms(e) \/ SendStats(e)

Next == \E e \in Ends : Process(e) \/ Use(e)

Spec == Init /\ [][Next]_vars

\* Both threads process their commands, and the owners go on reading.
FairSpec == /\ Spec
            /\ \A e \in Ends : WF_vars(Process(e)) /\ WF_vars(ReadPipe(e))
                               /\ WF_vars(FlushPipe(e))

-----------------------------------------------------------------------------
(* Properties                                                              *)

States == {"active", "delimiter_received", "waiting_for_delimiter",
           "term_ack_sent", "term_req_sent1", "term_req_sent2", "deleted"}

Command == [type : {"activate_read", "pipe_term", "pipe_term_ack",
                    "pipe_peer_stats"}]
           \cup [type : {"activate_write"}, msgsRead : Nat]
           \cup [type : {"hiccup"}, pipe : QueueIds]
           \cup [type : {"pipe_hwm"}, in : Int, out : Int]

Queue == [ready : Seq(Item \cup {Delimiter}),
          pending : Seq(Item \cup {Delimiter}),
          asleep : BOOLEAN]

TypeOK ==
    /\ scenario \in Scenarios
    /\ state \in [Ends -> States] /\ delay \in [Ends -> BOOLEAN]
    /\ inPipe \in [Ends -> QueueIds \cup {NULL}]
    /\ outPipe \in [Ends -> QueueIds \cup {NULL}]
    /\ queues \in [QueueIds -> Queue] /\ allocated \subseteq QueueIds
    /\ inActive \in [Ends -> BOOLEAN] /\ outActive \in [Ends -> BOOLEAN]
    /\ hwm \in [Ends -> Nat] /\ lwm \in [Ends -> Nat]
    /\ msgsRead \in [Ends -> Nat] /\ msgsWritten \in [Ends -> Int]
    /\ peersMsgsRead \in [Ends -> Nat]
    /\ commands \in [Ends -> Seq(Command)]
    /\ disconnectMsg \in [Ends -> BOOLEAN]
    /\ writesLeft \in [Ends -> Nat] /\ optionsLeft \in Nat

\* The asserts of process_pipe_term, process_pipe_term_ack and process_hiccup:
\* these commands only ever arrive in the states the handlers expect, in
\* whatever order the two owners terminate, read and reconnect.
HandlersExpectState ==
    \A e \in Ends : commands[e] # <<>> =>
        /\ Next1(e).type = "pipe_term" =>
              state[e] \in {"active", "delimiter_received", "term_req_sent1"}
        /\ Next1(e).type = "pipe_term_ack" =>
              state[e] \in {"term_ack_sent", "term_req_sent1", "term_req_sent2"}
        /\ Next1(e).type = "hiccup" => outPipe[e] # NULL

\* An end deletes itself in process_pipe_term_ack: the peer sends nothing
\* after its ack, so no command is left for, or ever sent to, a deleted end.
NoCommandToDeleted == \A e \in Ends : state[e] = "deleted" => commands[e] = <<>>

\* The reader deallocates a queue, the writer only drops its pointer: an end
\* never holds, and no hiccup in flight carries, a deallocated queue.
NoDanglingQueue ==
    \A e \in Ends :
        /\ outPipe[e] # NULL => outPipe[e] \in allocated
        /\ state[e] # "deleted" => inPipe[e] \in allocated
        /\ \A i \in DOMAIN commands[e] :
              commands[e][i].type = "hiccup" => commands[e][i].pipe \in allocated

\* Nothing is leaked: once both ends are gone, so are all the queues.
NoLeak == (\A e \in Ends : state[e] = "deleted") => allocated = {}

\* An end that stopped reading because its queue was empty is told when there
\* is something to read: an activate_read is on its way.
ReaderIsWoken ==
    \A e \in Ends :
        /\ state[e] \in {"active", "waiting_for_delimiter"}
        /\ ~inActive[e]
        /\ In(e).ready # <<>>
        => \E i \in DOMAIN commands[e] : commands[e][i].type = "activate_read"

\* The end takes the pipe for full although the reader has read everything
\* and no command is on its way.
Stalled(e) ==
    /\ state[e] = "active" /\ state[Peer(e)] = "active"
    /\ ~outActive[e]
    /\ commands[e] = <<>> /\ commands[Peer(e)] = <<>>
    /\ Out(e).ready = <<>> /\ Out(e).pending = <<>>

\* A writer that stopped at the high watermark (check_write) does not stay
\* stopped, hiccups included, as long as nobody changes the watermarks and no
\* credentials, which are counted when written and not when read, are sent.
WriterIsWoken ==
    /\ scenario.optioners = {}
    /\ \A item \in scenario.items : item.kind # "credential"
    => \A e \in Ends : ~Stalled(e)

\* The same with watermarks that change and with credentials.
WriterIsAlwaysWoken == \A e \in Ends : ~Stalled(e)

\* The high watermark is a hard limit on the messages in the queue.
Counted(s) == Cardinality({i \in DOMAIN s : ~s[i].more /\ s[i].kind = "data"})

QueueWithinHwm ==
    \A e \in Ends :
        /\ state[e] = "active" /\ hwm[e] > 0
        /\ scenario.newHwms = {} /\ scenario.reconnecters = {}
        =>
        Counted(Out(e).ready) + Counted(Out(e).pending) <= hwm[e]

\* With no change of the watermarks on its way (send_hwms_to_peer), the
\* reader's low watermark is the one of the writer's high watermark; on pipes
\* without boosts.
WatermarksAgree ==
    (\A e \in Ends : \A i \in DOMAIN commands[e] : commands[e][i].type # "pipe_hwm")
    => \A e \in Ends : lwm[e] = ComputeLwm(hwm[Peer(e)])

\* "LWM has to be less than HWM" (compute_lwm): if it were more, a full pipe
\* could be read empty without the writer being told.
LwmWithinHwm ==
    (\A e \in Ends : \A i \in DOMAIN commands[e] : commands[e][i].type # "pipe_hwm")
    => \A e \in Ends : hwm[Peer(e)] > 0 => lwm[e] <= hwm[Peer(e)]

\* A pipe that waits for the delimiter and is not told to give up reads all
\* there was to read: process_delimiter leaves no message behind.
DelayedEndReadsAll ==
    [][\A e \in Ends :
          /\ state[e] = "waiting_for_delimiter" /\ state'[e] = "term_ack_sent"
          /\ delay'[e]
          => \A i \in DOMAIN queues'[inPipe[e]].ready :
                queues'[inPipe[e]].ready[i] = Delimiter]_vars

\* The owner's disconnect message always finds an out pipe to go to.
DisconnectHasPipe ==
    \A e \in Ends : disconnectMsg[e] /\ state[e] # "deleted" => outPipe[e] # NULL

\* Once an owner has called terminate, both ends are deleted in the end, if
\* no session reconnects the pipe at the same time.
TerminationCompletes ==
    (scenario.reconnecters = {} /\ \E e \in Ends : state[e] = "term_req_sent1")
    ~> (\A e \in Ends : state[e] = "deleted")

\* The same with reconnecting sessions.
TerminationAlwaysCompletes ==
    (\E e \in Ends : state[e] = "term_req_sent1")
    ~> (\A e \in Ends : state[e] = "deleted")
=============================================================================
