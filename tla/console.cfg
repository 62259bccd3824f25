SPECIFICATION Spec
CONSTANTS
    NumTickets = 2
    NumRevisions = 2
    MaxTime = 4
    MaxSamples = 3
    RequestedLimit = 0
    Group <- Duel
INVARIANT PayloadsAdd
PROPERTIES ClockForward RetryHitsItsRevision
