SPECIFICATION FairSpec
CONSTANTS
    Scenarios <- AllScenarios
    MaxPosts = 1
    MaxCalls = 1
INVARIANTS DeadlocksAreOfGlobalMutex
PROPERTIES StopIsNotLost 
CHECK_DEADLOCK FALSE
