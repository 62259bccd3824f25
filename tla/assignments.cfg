SPECIFICATION FairSpec
CONSTANTS
    Players = {p1}
    NumPolls = 2
    MaxEvents = 1
    MaxMoves = 2
    MaxFaults = 1
INVARIANTS AckedWasDelivered ConnectedIsPresent
PROPERTIES RosterSettles PresenceSettles
