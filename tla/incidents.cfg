SPECIFICATION FairSpec
CONSTANTS
    OtherTasks = {"capacity-loop"}
    Threshold = 2
    Minimum = 2
    MinimumWarm = 1
    Maximum = 2
    HostUnits = 3
    NumVariants = 2
    MaxChanges = 3
    MaxFaults = 1
INVARIANT HealthyMeansResolved
PROPERTIES LastingConditionsListed PastConditionsResolved
