SPECIFICATION FairSpec
CONSTANTS
    Scenarios <- RelockScenarios
    MaxPosts = 1
    MaxCalls = 1
PROPERTIES CommandsAreProcessed
CHECK_DEADLOCK FALSE
