-------------------------------- MODULE Ctx --------------------------------
(***************************************************************************)
(* The context: ctx_t (src/ctx.cpp), reaper_t (src/reaper.cpp) and the     *)
(* life of sockets from zmq_socket to their deallocation                   *)
(* (src/socket_base.cpp): slots, the reaper thread, inproc endpoints and   *)
(* the connections that wait for one, zmq_ctx_shutdown and zmq_ctx_term.   *)
(*                                                                         *)
(* Every socket is used by a thread of its own, zmq_ctx_shutdown and       *)
(* zmq_ctx_term by one more.  A call on a socket is the step that enters   *)
(* it, with all commands processed and ETERM not due, and one step for     *)
(* each section under _endpoints_sync or _slot_sync; terminate keeps       *)
(* _slot_sync over several.  g_mutex is left out (module Dispatch).        *)
(* What a socket owns is abstracted: it goes away in its own time (module  *)
(* Own), and so do its pipes (module Pipe).                                *)
(***************************************************************************)
EXTENDS Naturals, Sequences, FiniteSets, SequencesExt

CONSTANTS Sockets,       \* the sockets of the application
          Helpers,       \* the PAIR sockets terminate may create
          Addrs,         \* inproc addresses
          MaxSockets,    \* ZMQ_MAX_SOCKETS
          IoThreads,     \* ZMQ_IO_THREADS
          StartFailures, \* how starting the threads may fail: 0 for the
                         \* reaper, k for the k-th I/O thread
          Quiets,        \* whether zmq_ctx_term is called only between calls of
                         \* other threads: one or both of TRUE and FALSE
          MaxCalls,      \* bound: connects and binds of each socket
          MaxEINTR,      \* bound: interruptions of zmq_ctx_term
          NULL

All == Sockets \cup Helpers

ASSUME CtxAssumption ==
    /\ Sockets \cap Helpers = {} /\ NULL \notin All \cup Addrs
    /\ MaxSockets \in Nat \ {0} /\ IoThreads \in Nat
    /\ StartFailures \subseteq 0..IoThreads /\ Quiets \subseteq BOOLEAN
    /\ MaxCalls \in Nat /\ MaxEINTR \in Nat

VARIABLES sock,     \* the sockets: life, slot, commands in the mailbox,
                    \* _ctx_terminated, seqnums and the call in progress
          ctx,      \* _starting, _terminating, _empty_slots, and the I/O
                    \* threads that an attempt to start left behind
          reaper,   \* its mailbox, _sockets, _terminating, and whether it runs
          inproc,   \* _endpoints and _pending_connections
          term,     \* zmq_ctx_term: pc, the copy it works on, the socket it
                    \* creates for one of them, done commands in
                    \* _term_mailbox, an assertion that failed
          bounds

vars == <<sock, ctx, reaper, inproc, term, bounds>>

NoCall == [what |-> "none", addr |-> NULL, peer |-> NULL]

Entered(a) == [NoCall EXCEPT !.what = "entered", !.addr = a]

Unborn == [life |-> "none", slot |-> 0, box |-> <<>>, etermed |-> FALSE,
           sent |-> 0, processed |-> 0, call |-> NoCall]

Init == /\ sock = [s \in All |-> Unborn]
        /\ ctx = [starting |-> TRUE, terminating |-> FALSE, empty |-> <<>>, orphans |-> 0]
        /\ reaper = [box |-> <<>>, sockets |-> 0, terminating |-> FALSE, runs |-> FALSE]
        /\ inproc = [endpoints |-> [a \in Addrs |-> NULL],
                     pending |-> [a \in Addrs |-> <<>>]]
        /\ term = [pc |-> "no", copy |-> {}, helper |-> NULL, done |-> 0, failed |-> "none"]
        /\ bounds \in [calls : {[s \in All |-> 0]}, eintr : {0}, quiet : Quiets]

-----------------------------------------------------------------------------
Runs == term.pc # "returned" /\ term.failed = "none"

\* Nobody is inside terminate with _slot_sync.
SlotSync == Runs /\ term.pc # "binding"

InCtx(s) == sock[s].life \in {"open", "closed", "reaping"}

Cmd(type, s) == [type |-> type, socket |-> s]

\* The mailbox that _slots has for the thread id of s: that of the socket in
\* the slot by now.
BoxOf(f, s) == CHOOSE x \in All : InCtx(x) /\ f[x].slot = f[s].slot

\* ctx_t::send_command
Post(f, s, type) == [f EXCEPT ![BoxOf(f, s)].box = Append(@, Cmd(type, s))]

\* socket_base_t::create, with the slot that create_socket took.
Create(f, s, slot) == [f EXCEPT ![s] = [Unborn EXCEPT !.life = "open", !.slot = slot]]

-----------------------------------------------------------------------------
(* Creating sockets                                                        *)

\* create_socket calls start the first time: the slots left after the reaper,
\* the terminating thread and the I/O threads, the lowest one on top.
Start == IF ctx.starting
         THEN [ctx EXCEPT !.starting = FALSE, !.empty = [i \in 1..MaxSockets |-> i]]
         ELSE ctx

MayCreate == SlotSync /\ ~ctx.terminating

\* start fails.  The reaper, if it runs, is told to stop and answers with
\* done; the I/O threads before the k-th stay in _io_threads.
StartFails(k) ==
    /\ MayCreate /\ ctx.starting /\ term.done = 0
    /\ ctx' = [ctx EXCEPT !.orphans = IF k = 0 THEN 0 ELSE k - 1]
    /\ term' = [term EXCEPT !.done = IF k = 0 THEN 0 ELSE 1]
    /\ UNCHANGED <<sock, reaper, inproc, bounds>>

\* zmq_socket that starts the context, and then has no mailbox for the socket.
CreateFails ==
    /\ MayCreate /\ ctx.starting
    /\ ctx' = Start
    /\ reaper' = [reaper EXCEPT !.runs = TRUE]
    /\ UNCHANGED <<sock, inproc, term, bounds>>

TakeNoSlot(c) == c

TakeSlot(c) == [c EXCEPT !.empty = Tail(@)]

\* zmq_socket, when it succeeds.
CreateSocket(s) ==
    /\ MayCreate /\ Start.empty # <<>> /\ sock[s].life = "none"
    /\ sock' = Create(sock, s, Head(Start.empty))
    /\ ctx' = TakeSlot(Start)
    /\ reaper' = [reaper EXCEPT !.runs = @ \/ ctx.starting]
    /\ UNCHANGED <<inproc, term, bounds>>

-----------------------------------------------------------------------------
(* A socket in its application thread                                      *)

\* process_command of a socket.
After(sk, c) ==
    CASE c.type = "stop" -> [sk EXCEPT !.etermed = TRUE]
      [] c.type \in {"bind", "inproc_connected"} -> [sk EXCEPT !.processed = @ + 1]

\* The socket's thread processes a command: in any call, or in in_event.
\* terminate calls only bind and close of its sockets.
ProcessCommand(s) ==
    /\ Runs /\ sock[s].box # <<>>
    /\ \/ sock[s].life = "reaping"
       \/ sock[s].life = "open" /\ s \in Sockets
    /\ sock[s].call = NoCall
    /\ LET sk == [sock[s] EXCEPT !.box = Tail(@)] IN
       sock' = [sock EXCEPT ![s] = After(sk, Head(sock[s].box))]
    /\ UNCHANGED <<ctx, reaper, inproc, term, bounds>>

\* connect, bind and unbind begin alike: every command is processed, and
\* there was no stop among them.  If quiet, the application does not call
\* while it calls zmq_ctx_term.
Enter(s, a) ==
    /\ bounds.quiet => term.pc # "binding"
    /\ Runs /\ sock[s].life = "open" /\ sock[s].call = NoCall
    /\ sock[s].box = <<>> /\ ~sock[s].etermed
    /\ sock' = [sock EXCEPT ![s].call = Entered(a)]
    /\ UNCHANGED <<ctx, reaper, inproc, term, bounds>>

Count(s) == /\ bounds.calls[s] < MaxCalls
            /\ bounds' = [bounds EXCEPT !.calls[s] = @ + 1]

MayGoOn(s, a) == Runs /\ sock[s].call = Entered(a)

\* find_endpoint with an endpoint registered takes a seqnum of its socket.
FindEndpointUncounted(a, s, sk) == sk

FindEndpoint(a, s, sk) ==
    IF inproc.endpoints[a] = NULL THEN sk
    ELSE [sk EXCEPT ![inproc.endpoints[a]].sent = @ + 1]

\* connect of an inproc address: find_endpoint.
Connect(s, a) ==
    /\ MayGoOn(s, a) /\ Count(s)
    /\ LET call == [what |-> IF inproc.endpoints[a] = NULL THEN "pend" ELSE "bind",
                    addr |-> a, peer |-> inproc.endpoints[a]] IN
       sock' = FindEndpoint(a, s, [sock EXCEPT ![s].call = call])
    /\ UNCHANGED <<ctx, reaper, inproc, term>>

\* connect, the rest: the peer was there.
SendBind(s) ==
    /\ Runs /\ sock[s].call.what = "bind"
    /\ sock' = [Post(sock, sock[s].call.peer, "bind") EXCEPT ![s].call = NoCall]
    /\ UNCHANGED <<ctx, reaper, inproc, term, bounds>>

\* The connection is stored and its socket has to wait for an answer.
Pend(s, a) ==
    /\ inproc' = [inproc EXCEPT !.pending[a] = Append(@, s)]
    /\ sock' = [sock EXCEPT ![s].call = NoCall, ![s].sent = @ + 1]

\* The address was bound in the meantime.
BindDirectly(s, peer) ==
    /\ sock' = Post([sock EXCEPT ![s].call = NoCall, ![peer].sent = @ + 1],
                    peer, "bind")
    /\ UNCHANGED inproc

PendAnyway(s) ==
    /\ Runs /\ sock[s].call.what = "pend"
    /\ Pend(s, sock[s].call.addr)
    /\ UNCHANGED <<ctx, reaper, term, bounds>>

\* pend_connection: nobody has bound the address, or somebody has by now.
PendConnection(s) ==
    /\ Runs /\ sock[s].call.what = "pend"
    /\ LET a == sock[s].call.addr IN
       IF inproc.endpoints[a] = NULL THEN Pend(s, a) ELSE BindDirectly(s, inproc.endpoints[a])
    /\ UNCHANGED <<ctx, reaper, term, bounds>>

\* bind of an inproc address: register_endpoint, which fails with EADDRINUSE
\* if the address is taken.
Register(s, a) ==
    /\ MayGoOn(s, a) /\ Count(s)
    /\ IF inproc.endpoints[a] = NULL
       THEN /\ inproc' = [inproc EXCEPT !.endpoints[a] = s]
            /\ sock' = [sock EXCEPT ![s].call.what = "connect_pending"]
       ELSE /\ sock' = [sock EXCEPT ![s].call = NoCall]
            /\ UNCHANGED inproc
    /\ UNCHANGED <<ctx, reaper, term>>

\* connect_inproc_sockets for every connection that waits for the address:
\* the bound socket processes its bind command at once, the other end is sent
\* inproc_connected.
Connected(f, waiting) ==
    FoldLeft(LAMBDA g, x : Post(g, x, "inproc_connected"), f, waiting)

\* bind, the rest: connect_pending.
ConnectPending(s) ==
    /\ Runs /\ sock[s].call.what = "connect_pending"
    /\ LET a == sock[s].call.addr IN
       /\ sock' = Connected([sock EXCEPT ![s].call = NoCall], inproc.pending[a])
       /\ inproc' = [inproc EXCEPT !.pending[a] = <<>>]
    /\ UNCHANGED <<ctx, reaper, term, bounds>>

\* zmq_unbind, which fails with ENOENT unless s has bound the address.
Unregister(s, a) ==
    /\ MayGoOn(s, a)
    /\ inproc' = IF inproc.endpoints[a] = s
                 THEN [inproc EXCEPT !.endpoints[a] = NULL] ELSE inproc
    /\ sock' = [sock EXCEPT ![s].call = NoCall]
    /\ UNCHANGED <<ctx, reaper, term, bounds>>

\* zmq_close
Close(s) ==
    /\ Runs /\ sock[s].life = "open" /\ sock[s].call = NoCall
    /\ sock' = [sock EXCEPT ![s].life = "closed"]
    /\ reaper' = [reaper EXCEPT !.box = Append(@, Cmd("reap", s))]
    /\ UNCHANGED <<ctx, inproc, term, bounds>>

-----------------------------------------------------------------------------
(* The reaper thread                                                       *)

Reads(type) == /\ Runs /\ reaper.runs /\ reaper.box # <<>>
               /\ Head(reaper.box).type = type

\* unregister_endpoints of process_term.
Unregistered(s) ==
    [a \in Addrs |-> IF inproc.endpoints[a] = s THEN NULL ELSE inproc.endpoints[a]]

\* process_reap: start_reaping, terminate and process_term of the socket.
ProcessReap ==
    /\ Reads("reap")
    /\ LET s == Head(reaper.box).socket IN
       /\ sock' = [sock EXCEPT ![s].life = "reaping"]
       /\ inproc' = [inproc EXCEPT !.endpoints = Unregistered(s)]
    /\ reaper' = [reaper EXCEPT !.box = Tail(@), !.sockets = @ + 1]
    /\ UNCHANGED <<ctx, term, bounds>>

\* check_term_acks of the socket, its pipes and children being gone.
CanDestroyEarly(s) == sock[s].life = "reaping"

CanDestroy(s) == sock[s].life = "reaping" /\ sock[s].processed = sock[s].sent

\* destroy_socket tells the reaper to stop when the last socket goes.
LastGone(s) == ctx.terminating /\ \A x \in All \ {s} : ~InCtx(x)

\* check_destroy and destroy_socket; the commands to the reaper in order.
CheckDestroy(s) ==
    /\ SlotSync /\ CanDestroy(s)
    /\ sock' = [sock EXCEPT ![s].life = "dead"]
    /\ ctx' = [ctx EXCEPT !.empty = <<sock[s].slot>> \o @]
    /\ reaper' = [reaper EXCEPT !.box = @ \o (IF LastGone(s) THEN <<Cmd("stop", NULL)>>
                                              ELSE <<>>) \o <<Cmd("reaped", s)>>]
    /\ UNCHANGED <<inproc, term, bounds>>

\* The end of process_reaped and of process_stop.
SendDone(r) == /\ reaper' = [r EXCEPT !.runs = FALSE]
               /\ term' = [term EXCEPT !.done = @ + 1]

ProcessReaped ==
    /\ Reads("reaped")
    /\ LET r == [reaper EXCEPT !.box = Tail(@), !.sockets = @ - 1] IN
       IF r.sockets = 0 /\ r.terminating THEN SendDone(r)
       ELSE reaper' = r /\ UNCHANGED term
    /\ UNCHANGED <<sock, ctx, inproc, bounds>>

StopAtOnce ==
    /\ Reads("stop")
    /\ SendDone([reaper EXCEPT !.box = Tail(@), !.terminating = TRUE])
    /\ UNCHANGED <<sock, ctx, inproc, bounds>>

\* reaper_t::process_stop
ProcessStop ==
    /\ Reads("stop")
    /\ LET r == [reaper EXCEPT !.box = Tail(@), !.terminating = TRUE] IN
       IF r.sockets = 0 THEN SendDone(r) ELSE reaper' = r /\ UNCHANGED term
    /\ UNCHANGED <<sock, ctx, inproc, bounds>>

-----------------------------------------------------------------------------
(* zmq_ctx_shutdown and zmq_ctx_term                                       *)

StopOnlyReaper ==
    /\ reaper' = IF \E s \in All : InCtx(s) THEN reaper
                 ELSE [reaper EXCEPT !.box = Append(@, Cmd("stop", NULL))]
    /\ UNCHANGED sock

\* stop of every socket, and of the reaper if there is none.
StopSockets ==
    /\ sock' = [s \in All |-> IF InCtx(s) THEN [sock[s] EXCEPT !.box = Append(@, Cmd("stop", s))]
                              ELSE sock[s]]
    /\ reaper' = IF \E s \in All : InCtx(s) THEN reaper
                 ELSE [reaper EXCEPT !.box = Append(@, Cmd("stop", NULL))]

Shutdown ==
    /\ SlotSync /\ term.pc = "no" /\ ~ctx.terminating
    /\ ctx' = [ctx EXCEPT !.terminating = TRUE]
    /\ IF ctx.starting THEN UNCHANGED <<sock, reaper>> ELSE StopSockets
    /\ UNCHANGED <<inproc, term, bounds>>

\* terminate up to the copy of _pending_connections.
TermStart ==
    /\ Runs /\ term.pc = "no"
    /\ bounds.quiet => \A s \in All : sock[s].call = NoCall
    /\ term' = [term EXCEPT !.pc = "binding",
                            !.copy = UNION {{<<a, i>> : i \in DOMAIN inproc.pending[a]} : a \in Addrs}]
    /\ UNCHANGED <<sock, ctx, reaper, inproc, bounds>>

\* A PAIR socket for one connection of the copy: create_socket.
TermCreate ==
    /\ Runs /\ term.pc = "binding" /\ term.helper = NULL
    /\ \E <<a, i>> \in term.copy :
        LET h == CHOOSE x \in Helpers : sock[x].life = "none" IN
        IF ctx.empty = <<>>
        THEN /\ term' = [term EXCEPT !.failed = "create_socket"]
             /\ UNCHANGED <<sock, ctx>>
        ELSE /\ term' = [term EXCEPT !.copy = @ \ {<<a, i>>}, !.helper = h]
             /\ sock' = [Create(sock, h, Head(ctx.empty)) EXCEPT ![h].call = Entered(a)]
             /\ ctx' = TakeSlot(ctx)
    /\ UNCHANGED <<reaper, inproc, bounds>>

\* Its bind: Register, which may find the address taken, and ConnectPending.
TermRegister == \E h \in Helpers, a \in Addrs : Register(h, a)

\* Its close.
TermClose ==
    LET h == term.helper IN
    /\ Runs /\ h # NULL /\ sock[h].call = NoCall
    /\ sock' = [sock EXCEPT ![h].life = "closed"]
    /\ reaper' = [reaper EXCEPT !.box = Append(@, Cmd("reap", h))]
    /\ term' = [term EXCEPT !.helper = NULL]
    /\ UNCHANGED <<ctx, inproc, bounds>>

\* Delete the context: the threads an earlier start left cannot be stopped.
Delete(t) == [t EXCEPT !.pc = "returned",
                       !.failed = IF \E s \in All : InCtx(s) THEN "sockets"
                                  ELSE IF ctx.orphans > 0 THEN "io_threads" ELSE "none"]

\* Unless terminate was restarted, stop everything.
StopAgain == StopSockets

FirstStop == IF ctx.terminating THEN UNCHANGED <<sock, reaper>> ELSE StopSockets

\* All pending connections of the copy are bound.
SkipPending == term.helper = NULL

AllBound == term.copy = {} /\ term.helper = NULL

\* terminate up to the wait.
TermStop ==
    /\ Runs /\ term.pc = "binding" /\ AllBound
    /\ IF ctx.starting
       THEN term' = Delete(term) /\ UNCHANGED <<sock, ctx, reaper>>
       ELSE /\ term' = [term EXCEPT !.pc = "waiting"]
            /\ ctx' = [ctx EXCEPT !.terminating = TRUE]
            /\ FirstStop
    /\ UNCHANGED <<inproc, bounds>>

\* A signal interrupts the wait: terminate returns -1 and may be called again.
TermInterrupted ==
    /\ Runs /\ term.pc = "waiting" /\ bounds.eintr < MaxEINTR
    /\ bounds' = [bounds EXCEPT !.eintr = @ + 1]
    /\ term' = [term EXCEPT !.pc = "no"]
    /\ UNCHANGED <<sock, ctx, reaper, inproc>>

\* done arrives.
TermReturn ==
    /\ Runs /\ term.pc = "waiting" /\ term.done > 0
    /\ term' = [Delete(term) EXCEPT !.done = @ - 1]
    /\ UNCHANGED <<sock, ctx, reaper, inproc, bounds>>

-----------------------------------------------------------------------------
\* An application thread goes on with the call it has entered.
GoOn(s) == \E a \in Addrs : Connect(s, a) \/ Register(s, a) \/ Unregister(s, a)

SocketStep(s) == \/ ProcessCommand(s) \/ SendBind(s) \/ PendConnection(s)
                 \/ ConnectPending(s) \/ CheckDestroy(s)

ReaperStep == ProcessReap \/ ProcessReaped \/ ProcessStop

TermStep == TermCreate \/ TermRegister \/ TermClose \/ TermStop \/ TermReturn

Next == \/ CreateFails \/ \E k \in StartFailures : StartFails(k)
        \/ \E s \in Sockets : \/ CreateSocket(s) \/ Close(s) \/ GoOn(s)
                              \/ \E a \in Addrs : Enter(s, a)
        \/ \E s \in All : SocketStep(s)
        \/ ReaperStep
        \/ Shutdown \/ TermStart \/ TermStep \/ TermInterrupted

Spec == Init /\ [][Next]_vars

\* Threads run; zmq_ctx_term, once interrupted, is called again.
FairSpec == /\ Spec
            /\ \A s \in Sockets : WF_vars(GoOn(s))
            /\ \A s \in All : WF_vars(SocketStep(s))
            /\ WF_vars(ReaperStep) /\ WF_vars(TermStep)
            /\ WF_vars(bounds.eintr > 0 /\ TermStart)

-----------------------------------------------------------------------------
(* Properties                                                              *)

TypeOK == /\ \A s \in All : /\ sock[s].life \in {"none", "open", "closed", "reaping", "dead"}
                            /\ sock[s].slot \in 0..MaxSockets
                            /\ sock[s].processed <= sock[s].sent
          /\ reaper.sockets \in 0..Cardinality(All)
          /\ \A a \in Addrs : inproc.endpoints[a] \in All \cup {NULL}
          /\ term.pc \in {"no", "binding", "waiting", "returned"}

\* _empty_slots and the slots of the sockets of the context (create_socket,
\* destroy_socket) are always apart, and together they are all slots, also
\* after an attempt to start failed.  Though slots are used again, a command
\* never comes to the mailbox of another socket than it was sent to.
SlotsArePartitioned ==
    /\ \A s \in All : \A i \in DOMAIN sock[s].box : sock[s].box[i].socket = s
    /\ ~ctx.starting =>
       LET used == {s \in All : InCtx(s)}
           empty == {ctx.empty[i] : i \in DOMAIN ctx.empty} IN
       /\ {sock[s].slot : s \in used} \cap empty = {}
       /\ \A s, x \in used : sock[s].slot = sock[x].slot => s = x
       /\ Cardinality(used) + Len(ctx.empty) = MaxSockets

\* Whoever can still be sent a command is alive: the socket of a registered
\* endpoint, a socket somebody found there and has yet to send bind to, and a
\* socket whose connection pends (find_endpoint, pend_connection).
ReferencedSocketsLive ==
    /\ \A a \in Addrs : /\ inproc.endpoints[a] # NULL => InCtx(inproc.endpoints[a])
                        /\ \A i \in DOMAIN inproc.pending[a] : InCtx(inproc.pending[a][i])
    /\ \A s \in All : /\ sock[s].call.peer # NULL => InCtx(sock[s].call.peer)
                      /\ sock[s].life = "dead" => \A i \in DOMAIN sock[s].box :
                                                      sock[s].box[i].type = "stop"

\* A connection waits for an address only as long as nobody has bound it:
\* register_endpoint, connect_pending and pend_connection may interleave.
NoMissedBind ==
    \A a \in Addrs : inproc.endpoints[a] # NULL /\ inproc.pending[a] # <<>>
        => sock[inproc.endpoints[a]].call = [what |-> "connect_pending", addr |-> a,
                                             peer |-> NULL]

\* The reaper reports done once, when no socket is left in the context and no
\* command for it is on the way (process_stop, process_reaped).
DoneIsLast ==
    (ctx.terminating /\ ~reaper.runs /\ ~ctx.starting)
    => reaper.box = <<>> /\ reaper.sockets = 0 /\ \A s \in All : ~InCtx(s)

Stops(box) == Cardinality({i \in DOMAIN box : box[i].type = "stop"})

\* However zmq_ctx_shutdown, zmq_ctx_term, its interruption and its next call
\* follow each other, and whether terminate or destroy_socket finds the last
\* socket gone, each socket and the reaper are told to stop once at most: a
\* second stop would make the reaper report done twice (process_stop).
StoppedOnce ==
    /\ \A s \in All : Stops(sock[s].box) + (IF sock[s].etermed THEN 1 ELSE 0) <= 1
    /\ Stops(reaper.box) + (IF reaper.terminating THEN 1 ELSE 0) <= 1

\* "zmq_assert (s)" (a socket for every pending connection) and "zmq_assert
\* (_sockets.empty ())" of ctx_t::terminate hold, and ~ctx_t finds the threads
\* it has started.
AssertsHold == term.failed = "none"

\* After zmq_ctx_shutdown or zmq_ctx_term, "any further operations on sockets
\* ... shall fail with an error code of ETERM": each open socket has its stop.
EveryoneIsStopped ==
    ctx.terminating /\ SlotSync =>
    \A s \in All : sock[s].life = "open" =>
        sock[s].etermed \/ \E i \in DOMAIN sock[s].box : sock[s].box[i].type = "stop"

\* Once every socket is closed zmq_ctx_term returns: connections that pend
\* were connected, "otherwise we will hang" (ctx_t::terminate).  This with the
\* other threads between their calls when it is called.
TermReturns ==
    (bounds.quiet /\ term.pc = "waiting" /\ \A s \in All : sock[s].life # "open")
    ~> (term.pc = "returned" \/ term.failed # "none")

\* The same while other threads are in their calls.
TermAlwaysReturns ==
    (term.pc = "waiting" /\ \A s \in All : sock[s].life # "open")
    ~> (term.pc = "returned" \/ term.failed # "none")
=============================================================================
