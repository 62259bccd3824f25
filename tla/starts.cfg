SPECIFICATION FairSpec
CONSTANTS
    NumInstances = 2
    RetryLimit = 1
    Concurrency = 1
    MaxFaults = 1
INVARIANTS RunningCommandsOwned FailuresAreProbes
PROPERTIES RuntimesDeletedOnPurpose ResetsComplete
