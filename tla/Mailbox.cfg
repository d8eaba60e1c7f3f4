SPECIFICATION FairSpec
CONSTANTS
    Senders = {s1, s2, s3}
    MaxCommands = 4
INVARIANTS TypeOK SignalMeansCommand OneSignal PassiveOwnerIsWoken NobodyInSendAfterDestroy
PROPERTIES EveryCommandReceived
CHECK_DEADLOCK FALSE
