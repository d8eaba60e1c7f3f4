SPECIFICATION FairSpec
CONSTANTS
    Sockets = {s1, s2}
    Helpers = {h1, h2}
    Addrs = {a}
    MaxSockets = 3
    IoThreads = 1
    StartFailures = {1}
    Quiets = {TRUE, FALSE}
    MaxCalls = 1
    MaxEINTR = 1
    NULL = NULL
INVARIANTS TypeOK SlotsArePartitioned ReferencedSocketsLive NoMissedBind DoneIsLast StoppedOnce EveryoneIsStopped
PROPERTIES TermReturns
CHECK_DEADLOCK FALSE
