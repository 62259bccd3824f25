----------------------------- MODULE MCConsole -----------------------------
(* Two teams of two players, a game of two to four. *)
EXTENDS Console

Duel == [teamCount |-> 2, teamSize |-> 2, minimumPlayers |-> 2, maximumPlayers |-> 4,
         minimumPlayersPerTeam |-> 1, maximumTeamSpread |-> 1]
=============================================================================
