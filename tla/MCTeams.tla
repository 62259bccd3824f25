------------------------------ MODULE MCTeams ------------------------------
(***************************************************************************)
(* Checks the team arithmetic on every group policy and every sequence of  *)
(* tickets within the bounds.  The state is a group's policy and the       *)
(* ticket sizes of one session, in the order Matchmaker placed them.       *)
(***************************************************************************)
EXTENDS Teams

CONSTANTS
    MaxTeamCount,   \* bound: teams of a group
    MaxTeamSize,    \* bound: players of a team
    MaxTickets      \* bound: tickets of a session

ASSUME TeamsAssumption == {MaxTeamCount, MaxTeamSize, MaxTickets} \subseteq Nat

VARIABLES
    group,          \* the policy row of the server group
    sizes           \* SessionCandidate.ticketSizes

teamsVars == <<group, sizes>>

\* Policies the configuration accepts, with and without a place kept free; the
\* team balance may be left out.
Policies ==
    UNION { { g \in { NormalizeGroup(raw) : raw \in
                        [teamCount : {c}, teamSize : {n}, minimumPlayers : {1, c},
                         maximumPlayers : {c * n, c * n - 1},
                         minimumPlayersPerTeam : {{}, {1}},
                         maximumTeamSpread : {{}, {0}, {1}}] } :
                MatchmakingPolicy(g) } :
            c \in 1..MaxTeamCount, n \in 1..MaxTeamSize }

TeamsInit ==
    /\ group \in Policies
    /\ sizes = <<>>

Attach(ticketSize) ==
    /\ Len(sizes) < MaxTickets
    /\ ticketSize =< group.teamSize
    /\ RanksFirst(1, <<sizes>>, ticketSize, group)
    /\ sizes' = Append(sizes, ticketSize)
    /\ UNCHANGED group

TeamsNext == \E n \in 1..MaxTeamSize : Attach(n)

TeamsSpec == TeamsInit /\ [][TeamsNext]_teamsVars

\* Every way to give each ticket, whole, to a team, no team above its size.
Assignments ==
    { f \in [DOMAIN sizes -> 1..group.teamCount] :
        \A team \in 1..group.teamCount :
            Total(Present([k \in DOMAIN sizes |->
                    IF f[k] = team THEN sizes[k] ELSE 0])) =< group.teamSize }

\* The team sizes an assignment yields, as a profile.
ProfileOf(f) ==
    SortProfile([team \in 1..group.teamCount |->
        Total([k \in DOMAIN sizes |-> IF f[k] = team THEN sizes[k] ELSE 0])])

\* computeFeasibleProfiles, built ticket by ticket on sorted profiles with
\* duplicates merged, finds exactly the profiles of the assignments of whole
\* tickets to teams: none is lost to the merging and none splits a ticket.
ProfilesAreAssignments ==
    ComputeFeasibleProfiles(sizes, group.teamCount, group.teamSize)
        = { ProfileOf(f) : f \in Assignments }

\* The sizes of the connected part of each ticket, tickets with nobody
\* connected left out, as getAssignment counts them.
PartialArrivals ==
    { Present(arrived) :
        arrived \in { a \in [DOMAIN sizes -> 0..group.teamSize] :
                        \A k \in DOMAIN sizes : a[k] =< sizes[k] } }

\* The game can always use the roster it is handed.  Whoever of a session has
\* arrived, in whatever order tickets were placed, getAssignment finds a
\* recommended profile that seats everybody, every team within its size.  A
\* session full to maximumPlayers may always be locked, even when its only
\* profiles are too uneven for the matchmaker's own start rule, and a session
\* the matchmaker dispatched may be locked once everyone has arrived.
RostersPlayable ==
    /\ \A arrived \in PartialArrivals :
        LET profiles == ComputeFeasibleProfiles(arrived, group.teamCount,
                                                group.teamSize)
        IN  /\ profiles # {}
            /\ Total(SelectRecommendedProfile(profiles)) = Total(arrived)
    /\ Total(sizes) = group.maximumPlayers \/ IsExpectedStartEligible(sizes, group)
        => IsSessionLockEligible(sizes, group)
=============================================================================
