---------------------------- MODULE Assignments ----------------------------
(***************************************************************************)
(* A game server and the orchestrator: EnderCloudPaperPlugin reports who   *)
(* plays and asks for the roster of its session over HTTP, the handlers of *)
(* InstanceController and the deadlines of SessionController keep          *)
(* session_players, instance_players and assignment_revision.              *)
(*                                                                         *)
(* One instance, which is given one session and keeps it.  Every request   *)
(* is asynchronous: two of them are handled in any order, and a request or *)
(* its reply may be lost.  Each transaction and each statement outside one *)
(* is a step.  Deadlines pass at any moment, but a presence that is        *)
(* refreshed in time expires only by a fault.  What follows the start of a *)
(* game is in GameSessions.                                                *)
(*                                                                         *)
(* assignment_revision only grows, and nothing tells two revisions before  *)
(* the current one apart: the state says who holds the current revision.   *)
(***************************************************************************)
EXTENDS Naturals, FiniteSets

CONSTANTS
    Players,
    NumPolls,       \* bound: GET assignment requests in flight
    MaxEvents,      \* bound: events in flight
    MaxMoves,       \* bound: joins, quits, added tickets, game starts
    MaxFaults       \* bound: crashes, lost messages, late heartbeats

ASSUME AssignmentBounds == {NumPolls, MaxEvents, MaxMoves, MaxFaults} \subseteq Nat

Polls == 1..NumPolls
PlayerStates == {"NONE", "SELECTED", "TRANSFERRING", "CONNECTED", "LEFT"}
Rosters == [Players -> PlayerStates]
NoRoster == [p \in Players |-> "NONE"]

\* Who holds a revision: a row a poll has read, the moment it has read the
\* players, the players the plugin was given (history), its acknowledgement
\* in flight, acknowledgedRevision, and assignment_acknowledged_at.
Rev(i) == <<"rev", i>>
At(i) == <<"at", i>>
Seen == <<"seen", 0>>
Ack == <<"ack", 0>>
Plugin == <<"plugin", 0>>
Acked == <<"acked", 0>>
Holders == {Rev(i) : i \in Polls} \cup {At(i) : i \in Polls}
               \cup {Seen, Ack, Plugin, Acked}

\* What the plugin may post.
Event(type, S) == [type |-> type, players |-> S]
Events ==
    [type : {"READY", "GAME_STARTING"}, players : {{}}]
        \cup [type : {"JOINED", "LEFT"}, players : {{p} : p \in Players}]
        \cup [type : {"HEARTBEAT"}, players : SUBSET Players]

VARIABLES
    \* the database
    life,           \* lifecycle_state of the instance
    session,        \* "NONE", "LOBBY" (TRANSFERRING, WAITING), "STARTING"
    roster,         \* state of session_players, "NONE" without a row
    current,        \* who holds the current assignment_revision
    present,        \* instance_players
    bumpDue,        \* expireTransfers has still to raise the revision
    \* the plugin
    online,         \* players on the server
    readyAcked,     \* serverReadyAcknowledged
    view,           \* assignment: its players, NoRoster for null
    \* the network
    events,         \* posted events
    polls,          \* GET assignment: step, and the players read
    ack,            \* POST ack, request or reply; bound: one in flight
    moves, faults

database == <<life, session, roster, current, present, bumpDue>>
plugin == <<online, readyAcked, view>>
network == <<events, polls, ack>>
vars == <<database, plugin, network, moves, faults>>

IdlePoll == [step |-> "idle", players |-> NoRoster]

\* The values of the columns, fields and messages.
TypeOK ==
    /\ life \in {"STARTING", "RUNNING"}
    /\ session \in {"NONE", "LOBBY", "STARTING"}
    /\ roster \in Rosters /\ view \in Rosters
    /\ current \subseteq Holders /\ bumpDue \in BOOLEAN /\ readyAcked \in BOOLEAN
    /\ present \subseteq Players /\ online \subseteq Players
    /\ events \subseteq Events
    /\ polls \in [Polls -> [step : {"idle", "row", "found", "none"},
                            players : Rosters]]
    /\ ack \in {"none", "sent", "ok"}
    /\ moves \in Nat /\ faults \in Nat

Init ==
    /\ life = "STARTING" /\ session = "NONE" /\ roster = NoRoster
    /\ current = {} /\ present = {} /\ bumpDue = FALSE
    /\ online = {} /\ readyAcked = FALSE /\ view = NoRoster
    /\ events = {} /\ polls = [i \in Polls |-> IdlePoll] /\ ack = "none"
    /\ moves = 0 /\ faults = 0

Move == moves < MaxMoves /\ moves' = moves + 1
Fault == faults < MaxFaults /\ faults' = faults + 1

-----------------------------------------------------------------------------
(* The rows                                                                *)

\* A revision nobody holds yet, and no acknowledgement.
BumpAssignmentRevision == current' = {}

\* The roster becomes next, and the revision rises if that changes it.
ChangeRoster(next) ==
    /\ roster' = next
    /\ IF next = roster THEN UNCHANGED current ELSE BumpAssignmentRevision

\* Arrival of members of S: only in a lobby, and only of known players.
Arrived(S) ==
    [p \in Players |->
        IF p \in S /\ session = "LOBBY" /\ roster[p] # "NONE"
        THEN "CONNECTED" ELSE roster[p]]

\* Departure of the members of S that are in one of the given states.
Departed(S, states) ==
    [p \in Players |->
        IF p \in S /\ roster[p] \in states THEN "LEFT" ELSE roster[p]]

Seated == {"SELECTED", "TRANSFERRING", "CONNECTED"}

-----------------------------------------------------------------------------
(* The matchmaker and the session controller                               *)

\* The instance is reserved for a session that has one ticket.
Attach ==
    /\ life = "RUNNING" /\ session = "NONE"
    /\ session' = "LOBBY"
    /\ \E p \in Players : roster' = [roster EXCEPT ![p] = "SELECTED"]
    /\ UNCHANGED <<life, current, present, bumpDue, plugin, network, moves,
                   faults>>

\* attachParty: a ticket is added, or a player who left comes back.
AttachParty(p) ==
    /\ Move
    /\ session = "LOBBY" /\ roster[p] \in {"NONE", "LEFT"}
    /\ ChangeRoster([roster EXCEPT ![p] = "SELECTED"])
    /\ UNCHANGED <<life, session, present, bumpDue, plugin, network, faults>>

\* The transfer of a selected player begins; the revision stays.
Dispatch(p) ==
    /\ session = "LOBBY" /\ roster[p] = "SELECTED"
    /\ roster' = [roster EXCEPT ![p] = "TRANSFERRING"]
    /\ UNCHANGED <<life, session, current, present, bumpDue, plugin,
                   network, moves, faults>>

\* expireTransfers, the statement that changes the players.
ExpireTransfers ==
    /\ ~bumpDue /\ session = "LOBBY"
    /\ \E S \in (SUBSET {p \in Players : roster[p] = "TRANSFERRING"}) \ {{}} :
          roster' = Departed(S, {"TRANSFERRING"})
    /\ bumpDue' = TRUE
    /\ UNCHANGED <<life, session, current, present, plugin, network, moves,
                   faults>>

\* expireTransfers, the statement that raises the revision.
ExpireTransfersBump ==
    /\ bumpDue
    /\ bumpDue' = FALSE
    /\ BumpAssignmentRevision
    /\ UNCHANGED <<life, session, roster, present, plugin, network, moves,
                   faults>>

\* The orchestrator stops between the two statements.
Crash ==
    /\ Fault
    /\ bumpDue
    /\ bumpDue' = FALSE
    /\ UNCHANGED <<life, session, roster, current, present, plugin, network,
                   moves>>

\* MUTANT of ExpirePlayerPresence: the session is left alone.
ExpireRowOnly(p) ==
    /\ p \in present
    /\ IF p \in online THEN Fault ELSE UNCHANGED faults
    /\ present' = present \ {p}
    /\ UNCHANGED <<life, session, roster, current, bumpDue, plugin, network,
                   moves>>

\* The row of a player is not refreshed in time.  expirePlayerPresence selects such
\* rows and then treats each in a transaction of its own, whose DELETE tests the
\* deadline again: the transaction is the step, and the SELECT may name too many.
ExpirePlayerPresence(p) ==
    /\ p \in present
    /\ IF p \in online THEN Fault ELSE UNCHANGED faults
    /\ present' = present \ {p}
    /\ ChangeRoster(Departed({p}, {"CONNECTED"}))
    /\ UNCHANGED <<life, session, bumpDue, plugin, network, moves>>

-----------------------------------------------------------------------------
(* The plugin reports                                                      *)

Post(S) == events' = events \cup S

\* onJoin: the proxy sends a player to a server that is running.
Join(p) ==
    /\ Move
    /\ life = "RUNNING" /\ p \notin online
    /\ online' = online \cup {p}
    /\ Post({Event("JOINED", {p})})
    /\ UNCHANGED <<database, readyAcked, view, polls, ack, faults>>

\* onQuit.
Quit(p) ==
    /\ Move
    /\ p \in online
    /\ online' = online \ {p}
    /\ Post({Event("LEFT", {p})})
    /\ UNCHANGED <<database, readyAcked, view, polls, ack, faults>>

\* reportGameStarting; a report that is too early is refused.
ReportGameStarting ==
    /\ Move
    /\ view # NoRoster
    /\ Post({Event("GAME_STARTING", {})})
    /\ UNCHANGED <<database, plugin, polls, ack, faults>>

\* At once, and every five seconds until it is acknowledged.
PublishServerReady ==
    /\ ~readyAcked /\ Cardinality(events) < MaxEvents
    /\ Post({Event("READY", {})})
    /\ UNCHANGED <<database, plugin, polls, ack, moves, faults>>

SendHeartbeat ==
    /\ Cardinality(events) < MaxEvents
    /\ Post({Event("HEARTBEAT", online)})
    /\ UNCHANGED <<database, plugin, polls, ack, moves, faults>>

Lose(e) ==
    /\ Fault
    /\ e \in events
    /\ events' = events \ {e}
    /\ UNCHANGED <<database, plugin, polls, ack, moves>>

-----------------------------------------------------------------------------
(* handlePaperEvent                                                        *)

Received(e) == e \in events /\ events' = events \ {e}

\* The reply confirms the event, unless it is lost.
MarkReady ==
    /\ Received(Event("READY", {}))
    /\ life' = "RUNNING"
    /\ \/ readyAcked' = TRUE /\ UNCHANGED faults
       \/ Fault /\ UNCHANGED readyAcked
    /\ UNCHANGED <<session, roster, current, present, bumpDue, online, view,
                   polls, ack, moves>>

PlayerJoined(p) ==
    /\ Received(Event("JOINED", {p}))
    /\ present' = present \cup {p}
    /\ ChangeRoster(Arrived({p}))
    /\ UNCHANGED <<life, session, bumpDue, plugin, polls, ack, moves, faults>>

PlayerLeft(p) ==
    /\ Received(Event("LEFT", {p}))
    /\ present' = present \ {p}
    /\ ChangeRoster(Departed({p}, Seated))
    /\ UNCHANGED <<life, session, bumpDue, plugin, polls, ack, moves, faults>>

\* MUTANT of Heartbeat: only the rows there are are refreshed.
HeartbeatRefreshes(S) ==
    /\ Received(Event("HEARTBEAT", S))
    /\ UNCHANGED <<database, plugin, polls, ack, moves, faults>>

\* Players that are not reported keep their row until it is stale.
Heartbeat(S) ==
    /\ Received(Event("HEARTBEAT", S))
    /\ present' = present \cup S
    /\ ChangeRoster(Arrived(S))
    /\ UNCHANGED <<life, session, bumpDue, plugin, polls, ack, moves, faults>>

\* setSessionState: players who have not come are dropped at the start.
GameStarting ==
    /\ Received(Event("GAME_STARTING", {}))
    /\ IF session = "LOBBY"
       THEN /\ session' = "STARTING"
            /\ ChangeRoster(Departed(Players, {"SELECTED", "TRANSFERRING"}))
       ELSE UNCHANGED <<session, roster, current>>
    /\ UNCHANGED <<life, present, bumpDue, plugin, polls, ack, moves, faults>>

HandleEvent ==
    \/ MarkReady \/ GameStarting
    \/ \E p \in Players : PlayerJoined(p) \/ PlayerLeft(p)
    \/ \E S \in SUBSET Players : Heartbeat(S)

-----------------------------------------------------------------------------
(* refreshAssignment and getAssignment                                     *)

SetPoll(i, p) == polls' = [polls EXCEPT ![i] = p]

\* The timer asks every second, answered or not.  A request is read by the
\* first slot that is free; slots stand for nothing.
Free(i) == /\ polls[i].step = "idle"
           /\ \A j \in 1..(i - 1) : polls[j].step # "idle"

\* getAssignment, the statement that reads the session; or 404.
ReadSession(i) ==
    /\ Free(i)
    /\ IF session = "NONE"
       THEN SetPoll(i, [IdlePoll EXCEPT !.step = "none"]) /\ UNCHANGED current
       ELSE /\ SetPoll(i, [IdlePoll EXCEPT !.step = "row"])
            /\ current' = current \cup {Rev(i)}
    /\ UNCHANGED <<life, session, roster, present, bumpDue, plugin, events,
                   ack, moves, faults>>

\* getAssignment, the statement that reads the players.
ReadPlayers(i) ==
    /\ polls[i].step = "row"
    /\ SetPoll(i, [step |-> "found", players |-> roster])
    /\ current' = current \cup {At(i)}
    /\ UNCHANGED <<life, session, roster, present, bumpDue, plugin, events,
                   ack, moves, faults>>

\* A 404: assignment becomes null, acknowledgedRevision 0.
NoAssignment(i) ==
    /\ polls[i].step = "none"
    /\ SetPoll(i, IdlePoll)
    /\ view' = NoRoster
    /\ current' = current \ {Plugin}
    /\ UNCHANGED <<life, session, roster, present, bumpDue, online,
                   readyAcked, events, ack, moves, faults>>

\* MUTANT of Kept: an answer is kept only when its revision is new.
KeptIfNewer(i) == IF Plugin \in current THEN view ELSE polls[i].players

\* Whatever arrives last is kept.
Kept(i) == polls[i].players

\* The revision is acknowledged unless it has been before; for an older one
\* that would change nothing.
NewAssignment(i) ==
    /\ polls[i].step = "found"
    /\ SetPoll(i, IdlePoll)
    /\ view' = Kept(i)
    /\ LET given == (current \ {Rev(i), At(i)})
                        \cup IF At(i) \in current THEN {Seen} ELSE {}
       IN  IF Rev(i) \in current /\ Plugin \notin current
           THEN ack = "none" /\ ack' = "sent" /\ current' = given \cup {Ack}
           ELSE UNCHANGED ack /\ current' = given
    /\ UNCHANGED <<life, session, roster, present, bumpDue, online,
                   readyAcked, events, moves, faults>>

PollLost(i) ==
    /\ Fault
    /\ polls[i].step # "idle"
    /\ SetPoll(i, IdlePoll)
    /\ current' = current \ {Rev(i), At(i)}
    /\ UNCHANGED <<life, session, roster, present, bumpDue, plugin, events,
                   ack, moves>>

\* MUTANT of AcknowledgeAssignment: any revision is accepted.
AcknowledgeAny ==
    /\ ack = "sent"
    /\ ack' = "ok" /\ current' = current \cup {Acked}
    /\ UNCHANGED <<life, session, roster, present, bumpDue, plugin, events,
                   polls, moves, faults>>

\* Only the current revision can be acknowledged; anything else is a 409.
AcknowledgeAssignment ==
    /\ ack = "sent"
    /\ IF Ack \in current
       THEN ack' = "ok" /\ current' = current \cup {Acked}
       ELSE ack' = "none" /\ UNCHANGED current
    /\ UNCHANGED <<life, session, roster, present, bumpDue, plugin, events,
                   polls, moves, faults>>

Acknowledged ==
    /\ ack = "ok"
    /\ ack' = "none"
    /\ current' = (current \ {Ack}) \cup IF Ack \in current THEN {Plugin} ELSE {}
    /\ UNCHANGED <<life, session, roster, present, bumpDue, plugin, events,
                   polls, moves, faults>>

AckLost ==
    /\ Fault
    /\ ack # "none"
    /\ ack' = "none"
    /\ current' = current \ {Ack}
    /\ UNCHANGED <<life, session, roster, present, bumpDue, plugin, events,
                   polls, moves>>

-----------------------------------------------------------------------------
PollStep(i) == \/ ReadSession(i) \/ ReadPlayers(i)
               \/ NoAssignment(i) \/ NewAssignment(i)

AckStep == AcknowledgeAssignment \/ Acknowledged

Next ==
    \/ Attach \/ ExpireTransfers \/ ExpireTransfersBump \/ Crash
    \/ ReportGameStarting \/ PublishServerReady \/ SendHeartbeat \/ HandleEvent \/ AckStep
    \/ AckLost
    \/ \E p \in Players : \/ AttachParty(p) \/ Dispatch(p) \/ Join(p) \/ Quit(p)
                          \/ ExpirePlayerPresence(p)
    \/ \E e \in events : Lose(e)
    \/ \E i \in Polls : PollStep(i) \/ PollLost(i)

Spec == Init /\ [][Next]_vars

\* The timers of the plugin and the loops of the orchestrator run again and
\* again; a request that is not lost is handled.  Players, games and faults
\* owe nothing.
FairSpec ==
    /\ Spec
    /\ WF_vars(PublishServerReady) /\ WF_vars(SendHeartbeat)
    /\ WF_vars(MarkReady) /\ WF_vars(GameStarting)
    /\ \A S \in SUBSET Players : WF_vars(Heartbeat(S))
    /\ \A p \in Players :
          /\ WF_vars(PlayerJoined(p)) /\ WF_vars(PlayerLeft(p))
          /\ WF_vars(Dispatch(p))
          /\ WF_vars(p \notin online /\ ExpirePlayerPresence(p))
    /\ WF_vars(ExpireTransfers) /\ WF_vars(ExpireTransfersBump)
    /\ \A i \in Polls : WF_vars(PollStep(i))
    /\ WF_vars(AckStep)

-----------------------------------------------------------------------------
(* Properties                                                              *)

\* assignment_acknowledged_at is only set when the plugin has been given the
\* players as of the current revision or later: getAssignment reads the
\* revision before it reads the players, never the other way round.
AckedWasDelivered == Acked \in current => Seen \in current

\* Who is connected to the session has a presence row; without one neither
\* a missed quit nor a dead server would ever take him off the roster.
ConnectedIsPresent ==
    \A p \in Players : roster[p] = "CONNECTED" => p \in present

\* Once nothing changes any more the plugin holds the roster as it is and has
\* acknowledged it: though answers overtake each other, acknowledgements and
\* answers get lost, and expireTransfers may crash before it has raised the
\* revision.
RosterSettles ==
    <>[](session # "NONE" => view = roster /\ Acked \in current)

\* Once nothing changes any more the players of the instance are those who
\* are on the server, and so are the connected players of a lobby: though
\* events are lost or overtake each other.
PresenceSettles ==
    <>[]/\ present = online
        /\ session = "LOBBY" =>
              \A p \in Players :
                  roster[p] # "NONE" => (roster[p] = "CONNECTED" <=> p \in online)
=============================================================================
