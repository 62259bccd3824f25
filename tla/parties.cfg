SPECIFICATION Spec
CONSTANTS
    Players = {p1, p2}
    Instances = {i1}
    NoInstance = NoInstance
    Parties = {g1}
    NumTickets = 2
    NumSessions = 2
    MaxFaults = 0
    Group <- SoloPolicy
SYMMETRY Symmetry
INVARIANTS AssignmentConsistent GameClosed CommandsStayHome
PROPERTIES GameOnlyShrinks ImplementsReservations
