SPECIFICATION FairSpec
CONSTANTS
    Scenarios <- TermScenarios
    MaxPosts = 1
    MaxCalls = 1
PROPERTIES TerminateGetsOn
CHECK_DEADLOCK FALSE
