----------------------------- MODULE MCDispatch -----------------------------
(* Scenarios for Dispatch.                                                 *)
EXTENDS Dispatch

\* No monitor: events, a stop and a bind while sockets are reaped.
Plain == [posts |-> {<<"socket", "stop">>, <<"io", "event">>, <<"reaper", "reap_empty">>},
          calls |-> {<<"io", "event">>, <<"app", "bind">>}, monitored |-> {}]

\* A monitored socket when the context is terminated.
Monitored == [posts |-> {<<"socket", "stop">>, <<"socket", "event">>, <<"monitor", "plain">>},
              calls |-> {<<"io", "event">>, <<"app", "socket_monitor">>},
              monitored |-> {"monitor"}]

\* A connection is not to be retried (ZMQ_RECONNECT_IVL = -1), with commands
\* around it.
GivesUp == [posts |-> {<<"socket", "plain">>, <<"socket", "term_endpoint">>,
                       <<"socket", "stop">>, <<"io", "plain">>},
            calls |-> {<<"app", "bind">>}, monitored |-> {}]

\* zmq_ctx_term connects an inproc connection while the reaper destroys
\* sockets and another thread binds.
Terminates == [posts |-> {<<"reaper", "reap_empty">>, <<"io", "plain">>},
               calls |-> {<<"term", "ctx_term">>, <<"app", "bind">>,
                          <<"app", "socket_monitor">>},
               monitored |-> {}]

\* A monitored socket is closed; what is left of it goes away later.
Closes == [posts |-> {<<"reaper", "reap">>, <<"closed", "plain">>,
                      <<"closed_monitor", "plain">>, <<"io", "plain">>},
           calls |-> {<<"reaper", "in_event">>, <<"term", "ctx_term">>},
           monitored |-> {"closed_monitor"}]

AllScenarios == {Plain, Monitored, GivesUp, Terminates, Closes}

\* The stop command and an event of the I/O thread alone.
MonitorScenarios == {[Monitored EXCEPT !.posts = {<<"socket", "stop">>, <<"monitor", "plain">>},
                                       !.calls = {<<"io", "event">>}]}
RelockScenarios == {GivesUp}
TermScenarios == {Terminates}
=============================================================================
