SPECIFICATION Spec
CONSTANTS
    Instances = {i1, i2}
    Documents <- Written
    Tree <- Files
    Final = 2
    NumPorts = 1
    Nothing = Nothing
    MaxEdits = 2
    MaxFaults = 1
SYMMETRY Symmetry
INVARIANTS PortsDistinct SnapshotUsable RetriesKeepData
PROPERTY ImplementsDeployments
CHECK_DEADLOCK FALSE
