SPECIFICATION FairSpec
CONSTANTS
    Sockets = {s1}
    Helpers = {h1}
    Addrs = {a}
    MaxSockets = 1
    IoThreads = 1
    StartFailures = {}
    Quiets = {TRUE}
    MaxCalls = 1
    MaxEINTR = 0
    NULL = NULL
INVARIANTS AssertsHold
CHECK_DEADLOCK FALSE
