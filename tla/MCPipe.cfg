SPECIFICATION FairSpec
CONSTANTS
    Scenarios <- AllScenarios
    MaxQueues = 4
    MaxLength = 2
INVARIANTS TypeOK HandlersExpectState NoCommandToDeleted NoDanglingQueue NoLeak ReaderIsWoken WriterIsWoken QueueWithinHwm WatermarksAgree
PROPERTIES DelayedEndReadsAll TerminationCompletes
CHECK_DEADLOCK FALSE
