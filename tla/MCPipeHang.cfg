SPECIFICATION FairSpec
CONSTANTS
    Scenarios <- HangScenarios
    MaxQueues = 4
    MaxLength = 0
PROPERTY TerminationAlwaysCompletes
CHECK_DEADLOCK FALSE
