SPECIFICATION Spec
CONSTANTS
    Backends = {b1}
    MaxPlayers = 1
    MaxFaults = 1

PROPERTIES RegistryConverges AdmissionEnds StoppedEmpty
CHECK_DEADLOCK FALSE
