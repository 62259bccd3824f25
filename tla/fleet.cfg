SPECIFICATION Spec
CONSTANTS
    Hosts = {h1, h2}
    Instances = {i1, i2, i3}
    None = None
    Minimum = 1
    Maximum = 3
    MinWarm = 1
    MaxWarm = 1
    Target = 1
    MaxDemand = 1
    Request <- MCRequest
    Sizes <- MCSizes
    MaxFaults = 1
    MaxDrains = 1
SYMMETRY Symmetry
INVARIANTS MaintenanceEmpty OneReplacement
PROPERTY ServiceKept
CHECK_DEADLOCK FALSE
