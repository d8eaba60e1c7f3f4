SPECIFICATION Spec
CONSTANTS
    Values = {1, 2}
    Items <- MCItems
    MaxWrites = 4
INVARIANTS SleeperMissesNothing WholeMessages
PROPERTIES FlushedIsFixed WakesSleepersOnly IsFlushQueue
