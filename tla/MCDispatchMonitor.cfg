SPECIFICATION FairSpec
CONSTANTS
    Scenarios <- MonitorScenarios
    MaxPosts = 1
    MaxCalls = 1
PROPERTIES StopIsProcessed
CHECK_DEADLOCK FALSE
