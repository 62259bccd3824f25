SPECIFICATION TeamsSpec
CONSTANTS
    MaxTeamCount = 3
    MaxTeamSize = 3
    MaxTickets = 5
INVARIANTS
    ProfilesAreAssignments
    RostersPlayable
CHECK_DEADLOCK FALSE
