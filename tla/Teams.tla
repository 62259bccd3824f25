------------------------------- MODULE Teams -------------------------------
(***************************************************************************)
(* The team arithmetic of orchestrator/src/domain/matchmaking.ts.  A       *)
(* ticket is the group of players of one queue entry; it is placed whole   *)
(* in one team.  A profile is the sorted sequence of the sizes of the      *)
(* anonymous teams once every ticket is placed.                            *)
(***************************************************************************)
EXTENDS Integers, Sequences, FiniteSets, SequencesExt

\* The limits of a minigame group that parseGroup accepts.
MatchmakingPolicy(g) ==
    /\ {g.minimumPlayers, g.maximumPlayers, g.teamCount, g.teamSize} \subseteq Nat \ {0}
    /\ g.minimumPlayers =< g.maximumPlayers
    /\ g.maximumPlayers =< g.teamCount * g.teamSize
    /\ g.minimumPlayersPerTeam \in 0..g.teamSize
    /\ g.maximumTeamSpread \in 0..g.teamSize

\* A nullable column is the set of its value.
Coalesce(column, default) == IF column = {} THEN default ELSE CHOOSE v \in column : TRUE

\* The policy the matchmaker uses, of a row with a complete policy.
NormalizeGroup(raw) ==
    [raw EXCEPT !.minimumPlayersPerTeam = Coalesce(@, 0),
                !.maximumTeamSpread = Coalesce(@, raw.teamSize)]

\* How many teams do not exceed a size.
AtMost(profile, size) == Cardinality({ team \in DOMAIN profile : profile[team] =< size })

\* Every profile is kept sorted, smallest team first: a size takes the places
\* after the teams that are smaller, as many as there are teams of that size.
SortProfile(profile) ==
    [k \in DOMAIN profile |->
        CHOOSE size \in Range(profile) :
            AtMost(profile, size - 1) < k /\ k =< AtMost(profile, size)]

\* The number of players of a sequence of tickets or of teams.
Total(sizes) == FoldLeft(+, 0, sizes)

\* compareNumbers(left, right) < 0, for sequences of one length.
Precedes(left, right) ==
    \E k \in DOMAIN left :
        /\ left[k] < right[k]
        /\ \A j \in 1..(k - 1) : left[j] = right[j]

\* The tickets of which anybody is left.
Present(sizes) ==
    FoldLeft(LAMBDA present, size : IF size > 0 THEN Append(present, size) ELSE present,
             <<>>, sizes)

\* MUTANT of PlaceTicket: a greedy shortcut, the fullest team with room.
PlaceTicketBestFit(profiles, ticketSize, teamSize) ==
    { SortProfile([p EXCEPT ![CHOOSE t \in DOMAIN p :
                                  /\ p[t] + ticketSize =< teamSize
                                  /\ \A u \in DOMAIN p :
                                        p[u] + ticketSize =< teamSize => p[u] =< p[t]]
                             = @ + ticketSize]) :
        p \in { q \in profiles : \E t \in DOMAIN q : q[t] + ticketSize =< teamSize } }

\* The profiles one more ticket makes of those of the tickets before it.
PlaceTicket(profiles, ticketSize, teamSize) ==
    UNION { { SortProfile([profile EXCEPT ![team] = @ + ticketSize]) :
                team \in { k \in DOMAIN profile :
                            profile[k] + ticketSize =< teamSize } } :
            profile \in profiles }

\* MUTANT of ComputeFeasibleProfiles: the lower bound of a ticket off by one.
ComputeFeasibleProfilesNoSolo(ticketSizes, teamCount, teamSize) ==
    IF teamCount < 1 \/ teamSize < 1 \/ \E k \in DOMAIN ticketSizes :
                                            ticketSizes[k] \notin 2..teamSize
    THEN {}
    ELSE FoldLeft(LAMBDA profiles, size : PlaceTicket(profiles, size, teamSize),
                  { SortProfile([team \in 1..teamCount |-> 0]) },
                  ticketSizes)

\* Ticket sizes outside 1..teamSize make the whole set empty.
ComputeFeasibleProfiles(ticketSizes, teamCount, teamSize) ==
    IF teamCount < 1 \/ teamSize < 1 \/ \E k \in DOMAIN ticketSizes :
                                            ticketSizes[k] \notin 1..teamSize
    THEN {}
    ELSE FoldLeft(LAMBDA profiles, size : PlaceTicket(profiles, size, teamSize),
                  { SortProfile([team \in 1..teamCount |-> 0]) },
                  ticketSizes)

Abs(n) == IF n < 0 THEN -n ELSE n

\* The comparison key: spread, variance, empty teams, distance from the mean
\* and the profile itself, compared from left to right.  Distances are scaled
\* by the number of teams so that everything stays an integer.
ProfileQuality(profile) ==
    LET n == Len(profile)
        scaledDistances ==
            [k \in 1..n |-> Abs(profile[k] * n - Total(profile))]
    IN  << profile[n] - profile[1],
           Total([k \in 1..n |-> scaledDistances[k] * scaledDistances[k]]),
           Cardinality({ k \in 1..n : profile[k] = 0 }),
           Total(scaledDistances) >> \o profile

\* compareProfileQuality(left, right) < 0.
BetterProfile(left, right) ==
    Precedes(ProfileQuality(left), ProfileQuality(right))

\* The null of the code is the case profiles = {}, which callers test first.
SelectRecommendedProfile(profiles) ==
    CHOOSE p \in profiles : \A q \in profiles : ~ BetterProfile(q, p)

IsProfileEligible(profile, minimumPlayersPerTeam, maximumTeamSpread) ==
    /\ profile[1] >= minimumPlayersPerTeam
    /\ profile[Len(profile)] - profile[1] =< maximumTeamSpread

\* Matchmaker.isExpectedStartEligible, and the same test in cancelTicket.
IsExpectedStartEligible(ticketSizes, g) ==
    LET profiles == ComputeFeasibleProfiles(ticketSizes, g.teamCount, g.teamSize)
    IN  /\ Total(ticketSizes) >= g.minimumPlayers
        /\ profiles # {}
        /\ IsProfileEligible(SelectRecommendedProfile(profiles),
                             g.minimumPlayersPerTeam, g.maximumTeamSpread)

\* MUTANT of IsSessionLockEligible: a full session gets no exemption.
IsSessionLockEligibleNoFull(connectedSizes, g) ==
    LET profiles ==
            ComputeFeasibleProfiles(connectedSizes, g.teamCount, g.teamSize)
    IN  /\ profiles # {}
        /\ Total(connectedSizes) >= g.minimumPlayers
        /\ IsProfileEligible(SelectRecommendedProfile(profiles),
                             g.minimumPlayersPerTeam, g.maximumTeamSpread)

\* What getAssignment tells the game of the connected part of each ticket.
IsSessionLockEligible(connectedSizes, g) ==
    LET profiles ==
            ComputeFeasibleProfiles(connectedSizes, g.teamCount, g.teamSize)
    IN  /\ profiles # {}
        /\ Total(connectedSizes) >= g.minimumPlayers
        /\ \/ Total(connectedSizes) = g.maximumPlayers
           \/ IsProfileEligible(SelectRecommendedProfile(profiles),
                                g.minimumPlayersPerTeam, g.maximumTeamSpread)

\* A session whose tickets are ticketSizes can take one ticket more.
CanPlace(ticketSizes, ticketSize, g) ==
    /\ Total(ticketSizes) + ticketSize =< g.maximumPlayers
    /\ ComputeFeasibleProfiles(Append(ticketSizes, ticketSize),
                               g.teamCount, g.teamSize) # {}

\* The ranking key of a candidate session: complete sessions first, then the
\* fewest places left, the best profile, the oldest session and the most
\* profiles.  Sessions are numbered in the order they were created.
CandidateKey(session, ticketSizes, ticketSize, g) ==
    LET all == Append(ticketSizes, ticketSize)
        profiles == ComputeFeasibleProfiles(all, g.teamCount, g.teamSize)
        remaining == g.maximumPlayers - Total(all)
    IN  << IF remaining = 0 THEN 0 ELSE 1, remaining >>
        \o ProfileQuality(SelectRecommendedProfile(profiles))
        \o << session, - Cardinality(profiles) >>

\* The sessions of candidates, a function from session numbers to ticket
\* sizes, that have room for the ticket.
Able(candidates, ticketSize, g) ==
    { s \in DOMAIN candidates : CanPlace(candidates[s], ticketSize, g) }

\* s is rankSessionCandidates(...)[0], the session that takes the ticket.
RanksFirst(s, candidates, ticketSize, g) ==
    LET Key(r) == CandidateKey(r, candidates[r], ticketSize, g)
    IN  /\ s \in Able(candidates, ticketSize, g)
        /\ \A r \in Able(candidates, ticketSize, g) \ {s} : Precedes(Key(s), Key(r))
=============================================================================
