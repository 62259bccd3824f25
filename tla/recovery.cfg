SPECIFICATION FairSpec
CONSTANTS
    Players = {p1}
    Instances = {i1, i2}
    NoInstance = NoInstance
    Parties = {g1}
    NumTickets = 1
    NumSessions = 1
    MaxFaults = 1
    Group <- SoloPolicy
INVARIANTS DrainOnlyTerminal RecoveryCurrent
PROPERTIES LobbiesEnd NothingLeftBehind
