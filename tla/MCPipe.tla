------------------------------- MODULE MCPipe -------------------------------
(* Scenarios for Pipe.                                                     *)
EXTENDS Pipe

Data(more) == [kind |-> "data", more |-> more]
RoutingId == [kind |-> "routing_id", more |-> FALSE]
Credential == [kind |-> "credential", more |-> FALSE]

Each(a, b) == [e \in Ends |-> IF e = 1 THEN a ELSE b]

\* Nothing but reads and writes, without limits.
Plain == [items |-> {Data(FALSE), Data(TRUE)}, writes |-> Each(1, 1),
          hwm |-> Each(0, 0), inBoost |-> Each(-1, -1), outBoost |-> Each(-1, -1),
          delays |-> {}, terminators |-> {}, newHwms |-> {}, optioners |-> {},
          options |-> 0, reconnecters |-> {}, disconnecters |-> {}]

\* Both owners terminate the pipe, with and without delay.
Term == [Plain EXCEPT !.hwm = Each(1, 1), !.delays = {TRUE, FALSE}, !.terminators = Ends]

\* A session reconnects, and either end terminates the pipe.
Reconnect == [Term EXCEPT !.writes = Each(2, 0), !.reconnecters = {2}]

\* One direction at the high watermark.
Flow == [Plain EXCEPT !.items = @ \cup {RoutingId}, !.writes = Each(5, 0),
                      !.hwm = Each(3, 0)]

\* The watermarks are changed, statistics asked for, a peer told to disconnect.
Options == [Plain EXCEPT !.writes = Each(1, 1), !.hwm = Each(2, 0),
                         !.newHwms = {<<2, 3>>, <<0, 1>>}, !.optioners = {1},
                         !.options = 2, !.disconnecters = {1}]

AllScenarios == {Term, Reconnect, Flow, Options}

\* A hiccup that crosses the terminate(false) of a socket.
HangScenarios == {[Plain EXCEPT !.delays = {FALSE}, !.terminators = {1},
                                !.reconnecters = {2}]}

\* The send watermark is lowered from 4 to 1 while the peer reads.
StallScenarios == {[Plain EXCEPT !.writes = Each(5, 0), !.hwm = Each(4, 0),
                                 !.newHwms = {<<4, 1>>}, !.optioners = {1},
                                 !.options = 1]}

\* Credentials on a pipe with a watermark of one.
CredentialScenarios == {[Plain EXCEPT !.items = {Data(FALSE), Credential},
                                      !.writes = Each(5, 0), !.hwm = Each(1, 1)]}

\* Watermarks are changed, or statistics asked for, while the pipe terminates.
DeadScenarios == {[Plain EXCEPT !.delays = {TRUE, FALSE}, !.terminators = Ends,
                                !.newHwms = {<<2, 3>>}, !.optioners = {1},
                                !.options = 1]}

\* A pipe with a disconnect message is terminated.
DisconnectScenarios == {[Plain EXCEPT !.delays = {TRUE, FALSE}, !.terminators = Ends,
                                      !.disconnecters = {1}]}

\* An inproc pipe: end 1 connects with sndhwm 4 and rcvhwm 1, end 2 is bound
\* with sndhwm 1 and rcvhwm 1; the boosts are the other's.
InprocScenarios == {[Plain EXCEPT !.hwm = Each(4 + 1, 1 + 1), !.inBoost = Each(1, 4),
                                  !.outBoost = Each(1, 1), !.newHwms = {<<1, 1>>},
                                  !.optioners = {1}, !.options = 1]}
=============================================================================
