CONSTANTS
    maxAuthRetryCount = 2
    Environments <- AllEnvironments
    MaxProbes = 2
    MaxSignals = 2
    MaxRestarts = 2
SPECIFICATION FairSpec
INVARIANTS TypeOK MutatesOnlyWhenChecked ReadyMeansChecked SubnetPutOnce
PROPERTIES StartsOrExits ShutdownEnds ProbesAnswered
CHECK_DEADLOCK FALSE
