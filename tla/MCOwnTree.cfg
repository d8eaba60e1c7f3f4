SPECIFICATION FairSpec
CONSTANTS
    s = s  u = u  a = a  b = b  d = d
    app = app  io1 = io1  io2 = io2  app2 = app2
    NULL = NULL
    Objects = {s, a, b, u}
    Threads = {app, io1, io2, app2}
    Parent <- Tree
    Thread <- TreeThreads
    Lingering = {a, b}
    Bound = {s}
    MaxAsks = 1
    MaxBinds = 1
    MaxAttaches = 1
INVARIANTS TypeOK NoCommandToDead OwnerOutlivesChildren AssertsHold AcksAddUp
PROPERTIES ShutdownCompletes
CHECK_DEADLOCK FALSE
