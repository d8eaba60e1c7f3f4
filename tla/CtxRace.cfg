SPECIFICATION FairSpec
CONSTANTS
    Sockets = {s1}
    Helpers = {h1}
    Addrs = {a}
    MaxSockets = 2
    IoThreads = 1
    StartFailures = {}
    Quiets = {FALSE}
    MaxCalls = 1
    MaxEINTR = 0
    NULL = NULL
PROPERTIES TermAlwaysReturns
CHECK_DEADLOCK FALSE
