SPECIFICATION FairSpec
CONSTANTS
    NumInstances = 1
    RetryLimit = 0
    Concurrency = 2
    MaxFaults = 3
PROPERTIES FailedInstancesReaped StoppedHaveNoRuntime
