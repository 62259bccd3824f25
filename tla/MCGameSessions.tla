--------------------------- MODULE MCGameSessions ---------------------------
EXTENDS GameSessions, TLC

\* One team of two players; a single player may start.
SoloPolicy == [teamCount |-> 1, teamSize |-> 2, minimumPlayers |-> 1,
               maximumPlayers |-> 2, minimumPlayersPerTeam |-> 0,
               maximumTeamSpread |-> 2]

Symmetry == Permutations(Players) \cup Permutations(Instances)
=============================================================================
