------------------------------- MODULE MCOwn -------------------------------
(* A socket with a listener or session tree, and a second socket.          *)
EXTENDS Own

CONSTANTS s, u,        \* sockets: u only connects to s over inproc
          a, b, d,     \* a is owned by s, b by a, d by s
          app, io1, io2, app2

Tree == [o \in {s, a, b, u} |-> CASE o = a -> s [] o = b -> a [] OTHER -> NULL]
TreeThreads == [o \in {s, a, b, u} |->
                 CASE o = s -> app [] o = a -> io1 [] o = b -> io2 [] OTHER -> app2]

Fork == [o \in {s, a, d} |-> IF o = s THEN NULL ELSE s]
ForkThreads == [o \in {s, a, d} |->
                 CASE o = s -> app [] o = a -> io1 [] OTHER -> io2]
=============================================================================
