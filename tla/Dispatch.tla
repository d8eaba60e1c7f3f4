------------------------------ MODULE Dispatch ------------------------------
(***************************************************************************)
(* How threads take commands from mailboxes and handle them, and the locks *)
(* they take on the way.  object_t::process_command holds g_mutex          *)
(* (src/object.cpp), a std::mutex, around the whole handler.  Handlers,    *)
(* and the calls that run handlers, also take _monitor_sync of a socket,   *)
(* _endpoints_sync and _slot_sync of the context, all zmq::mutex_t, which  *)
(* a thread may lock again; sending on a socket, an event on the monitor   *)
(* socket for one, processes the commands of that socket first.            *)
(*                                                                         *)
(* A thread is the list of what it still has to do.  A handler is          *)
(* abstracted to the locks it takes and the mailboxes it empties.  Two     *)
(* sockets: one open, used by "app", and one closed, left to the reaper;   *)
(* "term" calls zmq_ctx_term.  Neither is of a thread-safe type, whose     *)
(* _sync is one more lock.                                                 *)
(***************************************************************************)
EXTENDS Naturals, Sequences

CONSTANTS Scenarios, \* records: the commands that arrive (pairs of mailbox and
                     \* kind), the calls made (pairs of thread and call), and
                     \* the sockets that are monitored
          MaxPosts,  \* bound: how many of each command arrive
          MaxCalls   \* bound: how many of each call are made

Threads == {"app", "term", "io", "reaper"}
Monitors == {"monitor", "closed_monitor"}
Boxes == {"socket", "closed", "io", "reaper"} \cup Monitors
Locks == {"g_mutex", "monitor_sync", "closed_monitor_sync", "endpoints_sync", "slot_sync"}
Kinds == {"plain", "event", "stop", "term_endpoint", "reap", "reap_empty", "reap_monitor"}
CallNames == {"event", "bind", "socket_monitor", "in_event", "ctx_term"}
NULL == "none"

ASSUME DispatchAssumption ==
    /\ \A s \in Scenarios : s \in [posts : SUBSET (Boxes \X Kinds),
                                   calls : SUBSET (Threads \X CallNames),
                                   monitored : SUBSET Monitors]
    /\ MaxPosts \in Nat /\ MaxCalls \in Nat

VARIABLES scenario,       \* one of Scenarios, fixed
          mailbox,        \* the commands in each mailbox
          todo,           \* what each thread still has to do in its call
          holder,         \* who holds each lock, and how many times
          monitors,       \* the monitor sockets: _monitor_socket is not NULL
          ctxTerminated,  \* _ctx_terminated of the open socket
          posts, calls    \* the bounds

vars == <<scenario, mailbox, todo, holder, monitors, ctxTerminated, posts, calls>>

Free == [thread |-> NULL, depth |-> 0]

Init == /\ scenario \in Scenarios
        /\ mailbox = [b \in Boxes |-> <<>>]
        /\ todo = [t \in Threads |-> <<>>]
        /\ holder = [l \in Locks |-> Free]
        /\ monitors = scenario.monitored /\ ctxTerminated = FALSE
        /\ posts = [p \in scenario.posts |-> 0] /\ calls = [x \in scenario.calls |-> 0]

-----------------------------------------------------------------------------
(* What there is to do: [do, arg] with do one of lock, unlock, drain (a    *)
(* mailbox), notify (send on a monitor socket), close and open (a monitor  *)
(* socket) and terminated (set _ctx_terminated); or [do, body], to proceed *)
(* with body unless _ctx_terminated is set.                                *)

Do(what, arg) == [do |-> what, arg |-> arg]

IfNotTerminated(body) == <<[do |-> "proceed", body |-> body]>>

Holding(l, body) == <<Do("lock", l)>> \o body \o <<Do("unlock", l)>>

\* The beginning of a call: "Check whether the context hasn't been shut down
\* yet", "Process pending commands, if any".
Enter(body) == IfNotTerminated(<<Do("drain", "socket")>> \o IfNotTerminated(body))

\* socket_base_t::event
RaiseEvent == Holding("monitor_sync", <<Do("notify", "monitor")>>)

\* stop_monitor
StopMonitor(m) == <<Do("notify", m), Do("close", m)>>

\* socket_base_t::process_stop
ProcessStopUnnoticed == Holding("monitor_sync", StopMonitor("monitor"))

ProcessStop ==
    Holding("monitor_sync", StopMonitor("monitor") \o <<Do("terminated", "socket")>>)

\* process_term of a socket calls unregister_endpoints.
ProcessTerm == Holding("endpoints_sync", <<>>)

\* ctx_t::destroy_socket
DestroySocket == Holding("slot_sync", <<>>)

\* ~socket_base_t of the closed socket.
Destructor == Holding("closed_monitor_sync", StopMonitor("closed_monitor"))

CheckDestroy == DestroySocket \o Destructor

\* reaper_t::process_reap of a socket with neither pipes nor children: it
\* is terminated and destroyed at once.
DestroyWhileUnregistering == Holding("endpoints_sync", CheckDestroy)

ProcessReapEmpty == ProcessTerm \o CheckDestroy

\* The handlers.  A monitor socket is not monitored: nobody else can lock the
\* _monitor_sync its destructor locks.
Handler(kind) ==
    CASE kind = "plain" -> <<>>
      [] kind = "event" -> RaiseEvent
      [] kind = "stop" -> ProcessStop
      [] kind = "term_endpoint" -> Enter(<<>>)
      [] kind = "reap" -> ProcessTerm
      [] kind = "reap_empty" -> ProcessReapEmpty
      [] kind = "reap_monitor" -> ProcessTerm \o DestroySocket

\* object_t::process_command
ProcessCommand(kind) == Holding("g_mutex", Handler(kind))

\* bind of an inproc endpoint that somebody has connected to already:
\* register_endpoint, then connect_pending.
BindInproc == Holding("endpoints_sync", <<>>)
              \o Holding("endpoints_sync", ProcessCommand("plain"))

\* zmq_socket_monitor: the monitor before is stopped, the new one created and
\* bound.
SocketMonitor ==
    Holding("monitor_sync",
        IfNotTerminated(StopMonitor("monitor") \o Holding("slot_sync", <<>>)
                        \o <<Do("open", "monitor"), Do("drain", "monitor")>>
                        \o BindInproc))

\* ctx_t::terminate for a connection that pends: create_socket, bind, close.
Terminate == Holding("slot_sync", Holding("slot_sync", <<>>) \o BindInproc)

Body(call) ==
    CASE call = "event" -> RaiseEvent
      [] call = "bind" -> Enter(BindInproc)
      [] call = "socket_monitor" -> SocketMonitor
      [] call = "in_event" -> <<Do("drain", "closed")>> \o CheckDestroy
      [] call = "ctx_term" -> Terminate

-----------------------------------------------------------------------------
\* Another thread sends a command; to a monitor socket only while there is one.
Post(b, kind) ==
    /\ b \in Monitors => b \in monitors
    /\ posts[<<b, kind>>] < MaxPosts
    /\ posts' = [posts EXCEPT ![<<b, kind>>] = @ + 1]
    /\ mailbox' = [mailbox EXCEPT ![b] = Append(@, kind)]
    /\ UNCHANGED <<scenario, todo, holder, monitors, ctxTerminated, calls>>

\* The reaper has taken the closed socket over.
Reaping == /\ posts[<<"reaper", "reap">>] > 0
           /\ \A i \in DOMAIN mailbox["reaper"] : mailbox["reaper"][i] # "reap"

\* in_event here is the one that finds the closed socket destroyed.
Call(t, call) ==
    /\ call = "in_event" => Reaping
    /\ todo[t] = <<>> /\ calls[<<t, call>>] < MaxCalls
    /\ calls' = [calls EXCEPT ![<<t, call>>] = @ + 1]
    /\ todo' = [todo EXCEPT ![t] = Body(call)]
    /\ UNCHANGED <<scenario, mailbox, holder, monitors, ctxTerminated, posts>>

\* The mailbox a thread looks into when it has nothing else to do: in any call
\* of the application, or in in_event of the I/O thread and of the reaper.
Own == [app |-> "socket", io |-> "io", reaper |-> "reaper"]

Wake(t) ==
    /\ todo[t] = <<>> /\ t \in DOMAIN Own /\ mailbox[Own[t]] # <<>>
    /\ todo' = [todo EXCEPT ![t] = <<Do("drain", Own[t])>>]
    /\ UNCHANGED <<scenario, mailbox, holder, monitors, ctxTerminated, posts, calls>>

\* t is about to do this.
Next1(t, what) == todo[t] # <<>> /\ Head(todo[t]).do = what

Arg(t) == Head(todo[t]).arg

\* t goes on with body and then with the rest.
GoOn(t, body) == todo' = [todo EXCEPT ![t] = body \o Tail(@)]

Proceed(t) ==
    /\ Next1(t, "proceed")
    /\ GoOn(t, IF ctxTerminated THEN <<>> ELSE Head(todo[t]).body)
    /\ UNCHANGED <<scenario, mailbox, holder, monitors, ctxTerminated, posts, calls>>


Drain(t) ==
    /\ Next1(t, "drain")
    /\ LET box == mailbox[Arg(t)] IN
       IF box = <<>> THEN GoOn(t, <<>>) /\ UNCHANGED mailbox
       ELSE /\ GoOn(t, ProcessCommand(Head(box)) \o <<Head(todo[t])>>)
            /\ mailbox' = [mailbox EXCEPT ![Arg(t)] = Tail(@)]
    /\ UNCHANGED <<scenario, holder, monitors, ctxTerminated, posts, calls>>

\* zmq::mutex_t is recursive, std::mutex is not.
CanLock(t, l) == \/ holder[l] = Free
                 \/ holder[l].thread = t /\ l # "g_mutex"

Lock(t) ==
    /\ Next1(t, "lock") /\ CanLock(t, Arg(t))
    /\ holder' = [holder EXCEPT ![Arg(t)] = [thread |-> t, depth |-> @.depth + 1]]
    /\ GoOn(t, <<>>)
    /\ UNCHANGED <<scenario, mailbox, monitors, ctxTerminated, posts, calls>>

Unlock(t) ==
    /\ Next1(t, "unlock")
    /\ holder' = [holder EXCEPT ![Arg(t)] = IF @.depth = 1 THEN Free
                                            ELSE [@ EXCEPT !.depth = @ - 1]]
    /\ GoOn(t, <<>>)
    /\ UNCHANGED <<scenario, mailbox, monitors, ctxTerminated, posts, calls>>

\* monitor_event: zmq_msg_send looks at the mailbox of the monitor socket,
\* unless it did so just now.  Whoever reads the events keeps up, so that the
\* send does not have to wait for room.
Notify(t) ==
    /\ Next1(t, "notify")
    /\ \/ GoOn(t, <<>>)
       \/ Arg(t) \in monitors /\ GoOn(t, <<Do("drain", Arg(t))>>)
    /\ UNCHANGED <<scenario, mailbox, holder, monitors, ctxTerminated, posts, calls>>

\* zmq_close of the monitor socket, which is the reaper's from then on.
Close(t) ==
    /\ Next1(t, "close")
    /\ monitors' = monitors \ {Arg(t)}
    /\ mailbox' = IF Arg(t) \in monitors
                  THEN [mailbox EXCEPT !["reaper"] = Append(@, "reap_monitor"),
                                       ![Arg(t)] = <<>>]
                  ELSE mailbox
    /\ GoOn(t, <<>>)
    /\ UNCHANGED <<scenario, holder, ctxTerminated, posts, calls>>

Open(t) ==
    /\ Next1(t, "open")
    /\ monitors' = monitors \cup {Arg(t)}
    /\ GoOn(t, <<>>)
    /\ UNCHANGED <<scenario, mailbox, holder, ctxTerminated, posts, calls>>

\* The end of process_stop.
Terminated(t) ==
    /\ Next1(t, "terminated")
    /\ ctxTerminated' = TRUE
    /\ GoOn(t, <<>>)
    /\ UNCHANGED <<scenario, mailbox, holder, monitors, posts, calls>>

-----------------------------------------------------------------------------
Run(t) == \/ Wake(t) \/ Proceed(t) \/ Drain(t) \/ Unlock(t) \/ Notify(t)
          \/ Close(t) \/ Open(t) \/ Terminated(t)

Next == \/ \E <<b, kind>> \in scenario.posts : Post(b, kind)
        \/ \E <<t, call>> \in scenario.calls : Call(t, call)
        \/ \E t \in Threads : Run(t) \/ Lock(t)

Spec == Init /\ [][Next]_vars

\* The threads run, the application goes on calling, and mutexes are fair.
FairSpec == Spec /\ \A t \in Threads : WF_vars(Run(t)) /\ SF_vars(Lock(t))

-----------------------------------------------------------------------------
(* Properties                                                              *)

\* t waits for a lock, and the one it waits for.
Blocked(t) == Next1(t, "lock") /\ ~CanLock(t, Arg(t))

\* The threads of C wait for each other, or one for itself: for ever.
Deadlocked(C) == /\ C # {}
                 /\ \A t \in C : Blocked(t) /\ holder[Arg(t)].thread \in C

Stuck(t) == \E C \in SUBSET Threads : t \in C /\ Deadlocked(C)

\* The library's own locks are always taken in one order (_monitor_sync of a
\* socket, _slot_sync, _endpoints_sync), by calls and by handlers of all
\* threads: whenever threads wait for each other for ever, one of them waits
\* for g_mutex (process_command), the lock this fork adds.
DeadlocksAreOfGlobalMutex ==
    \A C \in SUBSET Threads : Deadlocked(C) => \E t \in C : Arg(t) = "g_mutex"

StopSent == \E i \in DOMAIN mailbox["socket"] : mailbox["socket"][i] = "stop"

\* A stop command sent to an open socket (ctx_t::terminate) makes every later
\* call fail with ETERM: whatever else goes on, process_stop runs to its end,
\* unless the socket's thread is caught in a deadlock.
StopIsNotLost == StopSent ~> (ctxTerminated \/ Stuck("app"))


\* "Any blocking operations currently in progress on sockets open within
\* context shall return immediately" (zmq_ctx_term): a stop command, once
\* sent to a socket, is processed, whatever else goes on.
StopIsProcessed == StopSent ~> ctxTerminated

\* "Process pending commands, if any, since there could be pending
\* unprocessed process_own()'s" (term_endpoint): every command sent to the
\* open socket is taken from its mailbox and its handler returns.
CommandsAreProcessed ==
    (mailbox["socket"] # <<>> \/ todo["app"] # <<>>)
    ~> (mailbox["socket"] = <<>> /\ todo["app"] = <<>>)

\* "Connect up any pending inproc connections, otherwise we will hang"
\* (ctx_t::terminate): terminate gets past its pending connections.
TerminateGetsOn == todo["term"] # <<>> ~> todo["term"] = <<>>
=============================================================================
