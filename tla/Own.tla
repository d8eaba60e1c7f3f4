-------------------------------- MODULE Own --------------------------------
(***************************************************************************)
(* own_t (src/own.cpp): the tree of objects that own each other, and how   *)
(* it is shut down.  A socket owns listeners and sessions, a listener its  *)
(* sessions, a session its connecter; each object lives in one thread, and *)
(* the threads exchange commands through their mailboxes (module Mailbox:  *)
(* a queue per thread, in the order of the sends).                         *)
(*                                                                         *)
(* An object is deallocated when all the children it asked to terminate    *)
(* have acknowledged, when, if it is a socket, its pipes are gone, and     *)
(* when it has processed as many counted commands (plug, own, attach,      *)
(* bind) as have been sent to it.  Of a pipe this module knows only that   *)
(* it has been attached to a socket and that it ends (module Pipe).        *)
(***************************************************************************)
EXTENDS Naturals, Sequences, FiniteSets, SequencesExt

CONSTANTS Objects, Threads, NULL,
          Parent,      \* the owner an object will have; NULL: a socket
          Thread,      \* the thread an object lives in
          Lingering,   \* sessions: they may put off their termination
          Bound,       \* sockets with an inproc endpoint
          MaxAsks,     \* bound: terminate() calls of an object
          MaxBinds,    \* bound: inproc connections made
          MaxAttaches  \* bound: engines a connecter hands to its session

Roots == {o \in Objects : Parent[o] = NULL}

ASSUME TreeAssumption ==
    /\ NULL \notin Objects \cup Threads
    /\ Parent \in [Objects -> Objects \cup {NULL}]
    /\ Thread \in [Objects -> Threads]
    /\ Lingering \subseteq Objects \ Roots /\ Bound \subseteq Roots
ASSUME OwnBoundsAssumption ==
    MaxAsks \in Nat /\ MaxBinds \in Nat /\ MaxAttaches \in Nat

VARIABLES obj,         \* the members of each object, and whether it exists
          mail,        \* the mailboxes of the threads
          busy,        \* what a thread still has to do before anything else
          registered,  \* ctx_t::_endpoints: the sockets that can be found
          asks, binds, attaches   \* the bounds

vars == <<obj, mail, busy, registered, asks, binds, attaches>>

Command == [type : {"plug", "attach", "bind", "term", "term_ack"}, dest : Objects]
           \cup [type : {"own", "term_req"}, dest : Objects, object : Objects]

Cmd(type, dest) == [type |-> type, dest |-> dest]

NewObject == [life |-> "unborn", owned |-> {}, sent |-> 0, processed |-> 0,
              acks |-> 0, pipes |-> 0, terminating |-> FALSE, pending |-> FALSE]

Init == /\ obj = [o \in Objects |->
                     [NewObject EXCEPT !.life = IF o \in Roots THEN "alive" ELSE @]]
        /\ mail = [t \in Threads |-> <<>>]
        /\ busy = [t \in Threads |-> NULL]
        /\ registered = Bound
        /\ asks = [o \in Objects |-> 0] /\ binds = 0 /\ attaches = 0

-----------------------------------------------------------------------------
\* send_command, for each of cmds in turn, after t has taken n off its queue.
Deliver(cmds, t, n) ==
    mail' = [u \in Threads |->
               (IF u = t THEN SubSeq(mail[u], n + 1, Len(mail[u])) ELSE mail[u])
               \o SelectSeq(cmds, LAMBDA cmd : Thread[cmd.dest] = u)]

\* o may act: it exists, has been plugged in, and its thread is free.
Free(o) == /\ obj[o].life = "alive"
           /\ o \in Roots \/ obj[o].processed > 0
           /\ busy[Thread[o]] = NULL

\* The condition of check_term_acks.
DoneIgnoringSeqnum(m) == m.terminating /\ m.acks = 0

DoneIgnoringAcks(m) == m.terminating /\ m.processed = m.sent

Done(m) == m.terminating /\ m.processed = m.sent /\ m.acks = 0

\* check_term_acks, which ends every handler: object o, its members being m
\* now, is deallocated or goes on; cmds is what the handler has sent.
CheckTermAcks(o, m, cmds, n) ==
    LET last == IF Done(m) /\ Parent[o] # NULL
                THEN <<Cmd("term_ack", Parent[o])>> ELSE <<>>
    IN  /\ obj' = [obj EXCEPT ![o] = [m EXCEPT !.life = IF Done(m) THEN "dead" ELSE @]]
        /\ Deliver(cmds \o last, Thread[o], n)

\* process_term of own_t, for object o with members m.
ProcessTerm(o, m, n) ==
    LET children == SetToSeq(m.owned) IN
    CheckTermAcks(o,
        [m EXCEPT !.acks = @ + Len(children), !.owned = {},
                  !.terminating = TRUE, !.pending = FALSE],
        [i \in DOMAIN children |-> Cmd("term", children[i])], n)

-----------------------------------------------------------------------------
(* What objects do of their own accord                                     *)

\* launch_child, first half: the child is plugged into its thread.  A
\* listener, which no socket is, counts in advance the attach it sends after.
LaunchPlug(c) ==
    /\ obj[c].life = "unborn" /\ Parent[c] # NULL
    /\ Free(Parent[c])
    /\ \E engine \in (IF Parent[c] \in Roots THEN {FALSE} ELSE BOOLEAN) :
          /\ obj' = [obj EXCEPT ![c].life = "alive",
                                ![c].sent = IF engine THEN 2 ELSE 1]
          /\ busy' = [busy EXCEPT ![Thread[Parent[c]]] =
                        [op |-> "own", object |-> c, engine |-> engine]]
    /\ Deliver(<<Cmd("plug", c)>>, NULL, 0)
    /\ UNCHANGED <<registered, asks, binds, attaches>>

\* ... second half: the owner tells itself to take the child over.
LaunchOwn(t) ==
    /\ busy[t] # NULL /\ busy[t].op = "own"
    /\ LET c == busy[t].object IN
       /\ obj' = [obj EXCEPT ![Parent[c]].sent = @ + 1]
       /\ Deliver(<<[type |-> "own", dest |-> Parent[c], object |-> c]>>
                  \o (IF busy[t].engine THEN <<Cmd("attach", c)>> ELSE <<>>), NULL, 0)
    /\ busy' = [busy EXCEPT ![t] = NULL]
    /\ UNCHANGED <<registered, asks, binds, attaches>>

\* A connecter hands its engine to the session that owns it, a session of a
\* socket the one it made itself (UDP, PGM, NORM) to itself.
SendAttach(o) ==
    LET session == IF Parent[o] \in Roots THEN o ELSE Parent[o] IN
    /\ Free(o) /\ Parent[o] # NULL
    /\ attaches < MaxAttaches
    /\ attaches' = attaches + 1
    /\ obj' = [obj EXCEPT ![session].sent = @ + 1]
    /\ Deliver(<<Cmd("attach", session)>>, NULL, 0)
    /\ UNCHANGED <<busy, registered, asks, binds>>

\* terminate() of an object that has an owner.
AskOwner(o) ==
    /\ Free(o) /\ Parent[o] # NULL
    /\ asks[o] < MaxAsks
    /\ asks' = [asks EXCEPT ![o] = @ + 1]
    /\ Deliver(IF obj[o].terminating THEN <<>>
               ELSE <<[type |-> "term_req", dest |-> Parent[o], object |-> o]>>, NULL, 0)
    /\ UNCHANGED <<obj, busy, registered, binds, attaches>>

\* terminate() of a socket, in the reaper; process_term of socket_base_t
\* unregisters its endpoints first, and waits for its pipes like for children.
TerminateRoot(o) ==
    /\ Free(o) /\ o \in Roots
    /\ ~obj[o].terminating
    /\ registered' = registered \ {o}
    /\ ProcessTerm(o, [obj[o] EXCEPT !.acks = @ + obj[o].pipes], 0)
    /\ UNCHANGED <<busy, asks, binds, attaches>>

\* zmq_connect over inproc: find_endpoint counts the command ...
FindEndpoint(o, b) ==
    /\ Free(o) /\ o \in Roots /\ ~obj[o].terminating
    /\ b \in registered /\ binds < MaxBinds
    /\ binds' = binds + 1
    /\ obj' = [obj EXCEPT ![b].sent = @ + 1]
    /\ busy' = [busy EXCEPT ![Thread[o]] = [op |-> "bind", object |-> b, by |-> o]]
    /\ UNCHANGED <<mail, registered, asks, attaches>>

\* attach_pipe: a socket that is being closed has the pipe terminated at once.
AttachUnregistered(m) == [m EXCEPT !.pipes = @ + 1]

Attach(m) == [m EXCEPT !.pipes = @ + 1, !.acks = IF m.terminating THEN @ + 1 ELSE @]

\* ... that send_bind sends later; the near end of the pipe is attached.
SendBind(t) ==
    /\ busy[t] # NULL /\ busy[t].op = "bind"
    /\ Deliver(<<Cmd("bind", busy[t].object)>>, NULL, 0)
    /\ obj' = [obj EXCEPT ![busy[t].by] = Attach(@)]
    /\ busy' = [busy EXCEPT ![t] = NULL]
    /\ UNCHANGED <<registered, asks, binds, attaches>>

\* pipe_terminated: a pipe of socket o is gone.
PipeTerminated(o) ==
    LET m == [obj[o] EXCEPT !.pipes = @ - 1] IN
    /\ Free(o) /\ obj[o].pipes > 0
    /\ CheckTermAcks(o, IF m.terminating THEN [m EXCEPT !.acks = @ - 1] ELSE m, <<>>, 0)
    /\ UNCHANGED <<busy, registered, asks, binds, attaches>>

\* proceed_with_term: a session has put off its termination long enough.
ProceedWithTerm(o) ==
    /\ Free(o) /\ obj[o].pending
    /\ ProcessTerm(o, obj[o], 0)
    /\ UNCHANGED <<busy, registered, asks, binds, attaches>>

-----------------------------------------------------------------------------
(* Command handlers                                                        *)

Receive(t, types) == /\ busy[t] = NULL
                     /\ mail[t] # <<>>
                     /\ Head(mail[t]).type \in types

\* process_seqnum follows the handler of every counted command.
SeqnumUnchecked(o, m, cmds) ==
    /\ obj' = [obj EXCEPT ![o] = [m EXCEPT !.processed = @ + 1]]
    /\ Deliver(cmds, Thread[o], 1)

ProcessSeqnum(o, m, cmds) ==
    CheckTermAcks(o, [m EXCEPT !.processed = @ + 1], cmds, 1)

ProcessCounted(t) ==
    LET o == Head(mail[t]).dest IN
    /\ Receive(t, {"plug", "attach"})
    /\ ProcessSeqnum(o, obj[o], <<>>)
    /\ UNCHANGED <<busy, registered, asks, binds, attaches>>

\* process_bind of socket_base_t
ProcessBind(t) ==
    LET o == Head(mail[t]).dest IN
    /\ Receive(t, {"bind"})
    /\ ProcessSeqnum(o, Attach(obj[o]), <<>>)
    /\ UNCHANGED <<busy, registered, asks, binds, attaches>>

\* How process_own takes over child c: the members, and the commands it sends.
AdoptUnregistered(m, c) ==
    IF m.terminating THEN [m |-> m, cmds |-> <<Cmd("term", c)>>]
    ELSE [m |-> [m EXCEPT !.owned = @ \cup {c}], cmds |-> <<>>]

Adopt(m, c) ==
    IF m.terminating
    THEN [m |-> [m EXCEPT !.acks = @ + 1], cmds |-> <<Cmd("term", c)>>]
    ELSE [m |-> [m EXCEPT !.owned = @ \cup {c}], cmds |-> <<>>]

ProcessOwn(t) ==
    LET o == Head(mail[t]).dest
        adopted == Adopt(obj[o], Head(mail[t]).object) IN
    /\ Receive(t, {"own"})
    /\ ProcessSeqnum(o, adopted.m, adopted.cmds)
    /\ UNCHANGED <<busy, registered, asks, binds, attaches>>

\* How process_term_req gives child c up.
DisownUnregistered(m, c) == [m EXCEPT !.owned = @ \ {c}]

AskAgain(m, c) == [m EXCEPT !.acks = @ + 1]

Disown(m, c) == [m EXCEPT !.acks = @ + 1, !.owned = @ \ {c}]

ProcessTermReq(t) ==
    LET o == Head(mail[t]).dest
        c == Head(mail[t]).object
        ignored == obj[o].terminating \/ c \notin obj[o].owned IN
    /\ Receive(t, {"term_req"})
    /\ obj' = [obj EXCEPT ![o] = IF ignored THEN @ ELSE Disown(@, c)]
    /\ Deliver(IF ignored THEN <<>> ELSE <<Cmd("term", c)>>, t, 1)
    /\ UNCHANGED <<busy, registered, asks, binds, attaches>>

\* A session with messages left waits (session_base_t::process_term).
HandleTerm(t) ==
    LET o == Head(mail[t]).dest IN
    /\ Receive(t, {"term"})
    /\ \/ ProcessTerm(o, obj[o], 1)
       \/ /\ o \in Lingering
          /\ obj' = [obj EXCEPT ![o].pending = TRUE]
          /\ Deliver(<<>>, t, 1)
    /\ UNCHANGED <<busy, registered, asks, binds, attaches>>

ProcessTermAck(t) ==
    LET o == Head(mail[t]).dest IN
    /\ Receive(t, {"term_ack"})
    /\ CheckTermAcks(o, [obj[o] EXCEPT !.acks = @ - 1], <<>>, 1)
    /\ UNCHANGED <<busy, registered, asks, binds, attaches>>

-----------------------------------------------------------------------------
Process(t) == \/ ProcessCounted(t) \/ ProcessBind(t) \/ ProcessOwn(t) \/ ProcessTermReq(t)
              \/ HandleTerm(t) \/ ProcessTermAck(t)

Finish(t) == LaunchOwn(t) \/ SendBind(t)

Next == \/ \E t \in Threads : Process(t) \/ Finish(t)
        \/ \E o \in Objects : \/ LaunchPlug(o) \/ SendAttach(o) \/ AskOwner(o)
                              \/ TerminateRoot(o) \/ ProceedWithTerm(o) \/ PipeTerminated(o)
                              \/ \E b \in registered : FindEndpoint(o, b)

Spec == Init /\ [][Next]_vars

\* The threads process what is in their mailboxes, a session's linger ends
\* (the peer takes the messages or ZMQ_LINGER is finite), and so do the pipes
\* of a socket that is closed.
Progress == \/ \E t \in Threads : Process(t) \/ Finish(t)
            \/ \E o \in Lingering : ProceedWithTerm(o)
            \/ \E o \in Roots : obj[o].terminating /\ PipeTerminated(o)

FairSpec == Spec /\ WF_vars(Progress)

-----------------------------------------------------------------------------
(* Properties                                                              *)

Members == [life : {"unborn", "alive", "dead"}, owned : SUBSET Objects,
            sent : Nat, processed : Nat, acks : Nat, pipes : Nat,
            terminating : BOOLEAN, pending : BOOLEAN]

TypeOK ==
    /\ obj \in [Objects -> Members]
    /\ mail \in [Threads -> Seq(Command)]
    /\ registered \subseteq Bound
    /\ asks \in [Objects -> 0..MaxAsks]
    /\ binds \in 0..MaxBinds /\ attaches \in 0..MaxAttaches

InFlight == UNION {{mail[t][i] : i \in DOMAIN mail[t]} : t \in Threads}

\* Nothing is delivered to a deallocated object: no command in any mailbox,
\* and none that a connecting socket is about to send, has a dead target.
\* This is what the two sequence numbers and the term acks are for.
NoCommandToDead ==
    /\ \A cmd \in InFlight : obj[cmd.dest].life = "alive"
    /\ \A t \in Threads : busy[t] # NULL => obj[busy[t].object].life = "alive"

\* An owner outlives what it owns, so that a child can always reach it.
OwnerOutlivesChildren ==
    \A o \in Objects \ Roots : obj[o].life = "alive" => obj[Parent[o]].life = "alive"

\* The asserts of own_t: no object is told to terminate twice, no ack comes
\* that was not registered, and nothing is owned at the end.
AssertsHold ==
    /\ \A t \in Threads : mail[t] # <<>> =>
          LET m == obj[Head(mail[t]).dest] IN
          /\ Head(mail[t]).type = "term" => ~m.terminating /\ ~m.pending
          /\ Head(mail[t]).type = "term_ack" => m.acks > 0
    /\ \A o \in Roots : obj[o].terminating /\ obj[o].pipes > 0 => obj[o].acks > 0
    /\ \A o \in Objects : obj[o].life = "dead" => obj[o].owned = {}

\* An object waits for exactly the acks it will get: one from each child that
\* was told to terminate and is not gone, those on their way, and one for each
\* pipe of a socket that is closed (unregister_term_ack).
Told(c) == \/ Cmd("term", c) \in InFlight
           \/ obj[c].life = "alive" /\ (obj[c].pending \/ obj[c].terminating)

AcksOnTheWay(o) ==
    Cardinality({i \in DOMAIN mail[Thread[o]] : mail[Thread[o]][i] = Cmd("term_ack", o)})

AcksAddUp ==
    \A o \in Objects : obj[o].life = "alive" =>
        obj[o].acks = Cardinality({c \in Objects : Parent[c] = o /\ Told(c)})
                      + AcksOnTheWay(o)
                      + (IF obj[o].terminating THEN obj[o].pipes ELSE 0)

\* A socket that the reaper terminates is deallocated in the end, whatever
\* its children and the sockets connected to it are doing at the time.
ShutdownCompletes ==
    \A o \in Roots : obj[o].terminating ~> obj[o].life = "dead"

\* "If not found, we assume that termination request was already sent to the
\* object" (process_term_req): an object that asks its owner to terminate it
\* is told to.
RequestIsServed ==
    \A o \in Objects \ Roots :
        [type |-> "term_req", dest |-> Parent[o], object |-> o] \in InFlight
        ~> Told(o) \/ obj[o].life = "dead"
=============================================================================
