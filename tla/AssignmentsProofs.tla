------------------------- MODULE AssignmentsProofs -------------------------
(***************************************************************************)
(* Theorems about Assignments, for every set of players, number of         *)
(* requests in flight, moves and faults.                                   *)
(*                                                                         *)
(* That a connected player has a presence row is inductive with the types  *)
(* alone.  That an acknowledged revision has been delivered is not: it     *)
(* rests on what holds of an acknowledgement on its way, and that on the   *)
(* order of the two reads of a poll (DeliveryInv).                         *)
(***************************************************************************)
EXTENDS Assignments, TLAPS

-----------------------------------------------------------------------------
(* Rosters                                                                 *)

\* The operators that make the next roster make a roster.
LEMMA RostersTyped ==
    ASSUME roster \in Rosters
    PROVE  /\ \A S : Arrived(S) \in Rosters
           /\ \A S, states : Departed(S, states) \in Rosters
           /\ \A p \in Players, s \in PlayerStates : [roster EXCEPT ![p] = s] \in Rosters
           /\ NoRoster \in Rosters
  BY DEF Rosters, PlayerStates, Arrived, Departed, NoRoster

\* A roster that replaces the old one is a roster, and the holders of the
\* revision that go on holding it held it before.
LEMMA ChangeTyped ==
    ASSUME TypeOK, NEW next \in Rosters, ChangeRoster(next)
    PROVE  /\ roster' = next /\ roster' \in Rosters
           /\ current' \in {current, {}} /\ current' \subseteq Holders
  BY DEF TypeOK, ChangeRoster, BumpAssignmentRevision

-----------------------------------------------------------------------------
(* Types                                                                   *)

\* The statements of the matchmaker and of the session controller.
LEMMA TypeSessions ==
    ASSUME TypeOK,
           \/ Attach \/ ExpireTransfers \/ ExpireTransfersBump \/ Crash
           \/ \E p \in Players : \/ AttachParty(p) \/ Dispatch(p)
                                 \/ ExpirePlayerPresence(p)
    PROVE  TypeOK'
  <1> USE RostersTyped DEF plugin, network, Move, Fault
  <1>1. CASE Attach
    <2>1. roster' \in Rosters
      BY <1>1 DEF Attach, TypeOK, PlayerStates
    <2> QED
      BY <1>1, <2>1 DEF Attach, TypeOK
  <1>2. CASE ExpireTransfers
    <2>1. roster' \in Rosters
      BY <1>2 DEF ExpireTransfers, TypeOK
    <2> QED
      BY <1>2, <2>1 DEF ExpireTransfers, TypeOK
  <1>3. CASE ExpireTransfersBump \/ Crash
    <2>1. bumpDue' = FALSE /\ current' \in {current, {}}
      BY <1>3 DEF ExpireTransfersBump, Crash, BumpAssignmentRevision
    <2>2. bumpDue' \in BOOLEAN
      BY <2>1
    <2> QED
      BY <1>3, <2>1, <2>2 DEF ExpireTransfersBump, Crash, TypeOK
  <1>4. ASSUME NEW p \in Players, AttachParty(p)
        PROVE  TypeOK'
    <2>1. [roster EXCEPT ![p] = "SELECTED"] \in Rosters
      BY DEF TypeOK, PlayerStates
    <2>2. roster' \in Rosters /\ current' \subseteq Holders
      BY <1>4, <2>1, ChangeTyped DEF AttachParty
    <2> QED
      BY <1>4, <2>2 DEF AttachParty, TypeOK
  <1>5. ASSUME NEW p \in Players, Dispatch(p)
        PROVE  TypeOK'
    <2>1. roster' \in Rosters
      BY <1>5 DEF Dispatch, TypeOK, PlayerStates
    <2> QED
      BY <1>5, <2>1 DEF Dispatch, TypeOK
  <1>6. ASSUME NEW p \in Players, ExpirePlayerPresence(p)
        PROVE  TypeOK'
    <2>1. Departed({p}, {"CONNECTED"}) \in Rosters
      BY DEF TypeOK
    <2>2. roster' \in Rosters /\ current' \subseteq Holders
      BY <1>6, <2>1, ChangeTyped DEF ExpirePlayerPresence
    <2> QED
      BY <1>6, <2>2 DEF ExpirePlayerPresence, TypeOK
  <1> QED
    BY <1>1, <1>2, <1>3, <1>4, <1>5, <1>6

\* What the plugin posts, and what is lost of it.
LEMMA TypePosts ==
    ASSUME TypeOK,
           \/ ReportGameStarting \/ PublishServerReady \/ SendHeartbeat
           \/ \E p \in Players : Join(p) \/ Quit(p)
           \/ \E e \in events : Lose(e)
    PROVE  TypeOK'
  <1>1. Event("READY", {}) \in Events /\ Event("GAME_STARTING", {}) \in Events
    BY DEF Events, Event
  <1>2. \A p \in Players, t \in {"JOINED", "LEFT"} : Event(t, {p}) \in Events
    BY DEF Events, Event
  <1>3. Event("HEARTBEAT", online) \in Events
    BY DEF Events, Event, TypeOK
  <1>4. CASE ReportGameStarting \/ PublishServerReady \/ SendHeartbeat
             \/ \E e \in events : Lose(e)
    BY <1>1, <1>3, <1>4 DEF ReportGameStarting, PublishServerReady, SendHeartbeat, Lose,
        Post, Move, Fault, TypeOK, database, plugin
  <1>5. ASSUME NEW p \in Players, Join(p) \/ Quit(p)
        PROVE  TypeOK'
    <2>1. events' \subseteq Events /\ online' \subseteq Players
      BY <1>2, <1>5 DEF Join, Quit, Post, TypeOK
    <2> QED
      BY <1>5, <2>1 DEF Join, Quit, Move, TypeOK, database
  <1> QED
    BY <1>4, <1>5

\* handlePaperEvent.
LEMMA TypeEvents ==
    ASSUME TypeOK, HandleEvent
    PROVE  TypeOK'
  <1> USE RostersTyped DEF plugin, network, Fault, Received
  <1>1. CASE MarkReady
    <2>1. readyAcked' = TRUE \/ readyAcked' = readyAcked
      BY <1>1 DEF MarkReady
    <2>2. readyAcked' \in BOOLEAN
      BY <2>1 DEF TypeOK
    <2>3. faults' \in Nat
      BY <1>1 DEF MarkReady, TypeOK
    <2> QED
      BY <1>1, <2>2, <2>3 DEF MarkReady, TypeOK
  <1>2. CASE GameStarting
    <2>1. Departed(Players, {"SELECTED", "TRANSFERRING"}) \in Rosters
      BY DEF TypeOK
    <2>2. roster' \in Rosters /\ current' \subseteq Holders
      BY <1>2, <2>1, ChangeTyped DEF GameStarting, TypeOK
    <2> QED
      BY <1>2, <2>2 DEF GameStarting, TypeOK
  <1>3. ASSUME NEW p \in Players, PlayerJoined(p)
        PROVE  TypeOK'
    <2>1. Arrived({p}) \in Rosters
      BY DEF TypeOK
    <2>2. roster' \in Rosters /\ current' \subseteq Holders
      BY <1>3, <2>1, ChangeTyped DEF PlayerJoined
    <2> QED
      BY <1>3, <2>2 DEF PlayerJoined, TypeOK
  <1>4. ASSUME NEW p \in Players, PlayerLeft(p)
        PROVE  TypeOK'
    <2>1. Departed({p}, Seated) \in Rosters
      BY DEF TypeOK
    <2>2. roster' \in Rosters /\ current' \subseteq Holders
      BY <1>4, <2>1, ChangeTyped DEF PlayerLeft
    <2> QED
      BY <1>4, <2>2 DEF PlayerLeft, TypeOK
  <1>5. ASSUME NEW S \in SUBSET Players, Heartbeat(S)
        PROVE  TypeOK'
    <2>1. Arrived(S) \in Rosters
      BY DEF TypeOK
    <2>2. roster' \in Rosters /\ current' \subseteq Holders
      BY <1>5, <2>1, ChangeTyped DEF Heartbeat
    <2> QED
      BY <1>5, <2>2 DEF Heartbeat, TypeOK
  <1> QED
    BY <1>1, <1>2, <1>3, <1>4, <1>5 DEF HandleEvent

\* A poll that is replaced by one of the type of polls.
LEMMA PollTyped ==
    ASSUME TypeOK, NEW i \in Polls,
           NEW s \in {"idle", "row", "found", "none"}, NEW r \in Rosters,
           SetPoll(i, [step |-> s, players |-> r])
    PROVE  polls' \in [Polls -> [step : {"idle", "row", "found", "none"},
                                 players : Rosters]]
  BY DEF TypeOK, SetPoll

\* getAssignment, its answers and the acknowledgement.
LEMMA TypePolls ==
    ASSUME TypeOK,
           \/ AckStep \/ AckLost
           \/ \E i \in Polls : PollStep(i) \/ PollLost(i)
    PROVE  TypeOK'
  <1>0. /\ NoRoster \in Rosters /\ roster \in Rosters
        /\ \A i \in Polls : polls[i].players \in Rosters /\ Rev(i) \in Holders
                            /\ At(i) \in Holders
        /\ Seen \in Holders /\ Ack \in Holders /\ Plugin \in Holders /\ Acked \in Holders
    BY RostersTyped DEF TypeOK, Holders
  <1>1. CASE AckStep \/ AckLost
    <2>1. \A h \in current' : h \in current \/ h = Acked \/ h = Plugin
      BY <1>1 DEF AckStep, AcknowledgeAssignment, Acknowledged, AckLost
    <2>5. current \subseteq Holders
      BY DEF TypeOK
    <2>3. current' \subseteq Holders
      BY <1>0, <2>1, <2>5
    <2>4. ack' \in {"none", "ok"} /\ faults' \in Nat
      BY <1>1 DEF AckStep, AcknowledgeAssignment, Acknowledged, AckLost, Fault, TypeOK
    <2>2. UNCHANGED <<life, session, roster, present, bumpDue, plugin, events, polls,
                      moves>>
      BY <1>1 DEF AckStep, AcknowledgeAssignment, Acknowledged, AckLost
    <2> QED
      BY <2>2, <2>3, <2>4 DEF TypeOK, plugin
  <1>2. ASSUME NEW i \in Polls, ReadSession(i)
        PROVE  TypeOK'
    <2>1. \/ SetPoll(i, [step |-> "none", players |-> NoRoster])
          \/ SetPoll(i, [step |-> "row", players |-> NoRoster])
      BY <1>2 DEF ReadSession, IdlePoll
    <2>2. polls' \in [Polls -> [step : {"idle", "row", "found", "none"},
                                players : Rosters]]
      BY <1>0, <2>1, PollTyped
    <2> QED
      BY <1>0, <1>2, <2>2 DEF ReadSession, TypeOK, plugin
  <1>3. ASSUME NEW i \in Polls, ReadPlayers(i)
        PROVE  TypeOK'
    <2>1. polls' \in [Polls -> [step : {"idle", "row", "found", "none"},
                                players : Rosters]]
      BY <1>0, <1>3, PollTyped DEF ReadPlayers
    <2> QED
      BY <1>0, <1>3, <2>1 DEF ReadPlayers, TypeOK, plugin
  <1>4. ASSUME NEW i \in Polls, NoAssignment(i) \/ NewAssignment(i) \/ PollLost(i)
        PROVE  TypeOK'
    <2>1. SetPoll(i, [step |-> "idle", players |-> NoRoster])
      BY <1>4 DEF NoAssignment, NewAssignment, PollLost, IdlePoll
    <2>2. polls' \in [Polls -> [step : {"idle", "row", "found", "none"},
                                players : Rosters]]
      BY <1>0, <2>1, PollTyped
    <2> QED
      BY <1>0, <1>4, <2>2 DEF NoAssignment, NewAssignment, Kept, PollLost, Fault, TypeOK, plugin
  <1> QED
    BY <1>1, <1>2, <1>3, <1>4 DEF PollStep

\* Every step is one of those of the four lemmas.
LEMMA TypeNext == TypeOK /\ [Next]_vars => TypeOK'
  <1> SUFFICES ASSUME TypeOK, [Next]_vars PROVE TypeOK'
    OBVIOUS
  <1>1. CASE UNCHANGED vars
    BY <1>1 DEF vars, database, plugin, network, TypeOK
  <1>2. CASE Next
    BY <1>2, TypeSessions, TypePosts, TypeEvents, TypePolls DEF Next
  <1> QED
    BY <1>1, <1>2

\* The rows, the plugin and the messages keep their types in every behaviour.
THEOREM TypeCorrect == Spec => []TypeOK
  <1>1. Init => TypeOK
    <2> SUFFICES ASSUME Init PROVE TypeOK
      OBVIOUS
    <2>1. NoRoster \in Rosters
      BY DEF NoRoster, Rosters, PlayerStates
    <2>2. polls \in [Polls -> [step : {"idle", "row", "found", "none"},
                              players : Rosters]]
      BY <2>1 DEF Init, IdlePoll
    <2>3. bumpDue \in BOOLEAN /\ readyAcked \in BOOLEAN
      BY DEF Init
    <2> QED
      BY <2>1, <2>2, <2>3 DEF Init, TypeOK
  <1> QED
    BY <1>1, TypeNext, PTL DEF Spec

-----------------------------------------------------------------------------
(* Presence                                                                *)

\* A step after which nobody is connected who was not, and everybody present
\* still is, needs no more to be said of.
LEMMA PresenceAside ==
    ASSUME ConnectedIsPresent, present \subseteq present',
           \A p \in Players : roster'[p] = "CONNECTED" => roster[p] = "CONNECTED"
    PROVE  ConnectedIsPresent'
  BY DEF ConnectedIsPresent

\* The selection or transfer of a player connects nobody.
LEMMA NobodyConnected ==
    ASSUME TypeOK
    PROVE  \A q, p \in Players, s \in {"SELECTED", "TRANSFERRING"} :
               [roster EXCEPT ![q] = s][p] = "CONNECTED" => roster[p] = "CONNECTED"
  BY DEF TypeOK, Rosters

\* The matchmaker and the session controller.
LEMMA PresenceSessions ==
    ASSUME TypeOK, ConnectedIsPresent,
           \/ Attach \/ ExpireTransfers \/ ExpireTransfersBump \/ Crash
           \/ \E p \in Players : \/ AttachParty(p) \/ Dispatch(p)
                                 \/ ExpirePlayerPresence(p)
    PROVE  ConnectedIsPresent'
  <1> USE DEF ChangeRoster
  <1>1. CASE ExpireTransfers \/ ExpireTransfersBump \/ Crash
    <2>1. present' = present
      BY <1>1 DEF ExpireTransfers, ExpireTransfersBump, Crash
    <2>2. \A p \in Players : roster'[p] = "CONNECTED" => roster[p] = "CONNECTED"
      BY <1>1 DEF ExpireTransfers, ExpireTransfersBump, Crash, Departed
    <2> QED
      BY <2>1, <2>2 DEF ConnectedIsPresent
  <1>2. ASSUME NEW q \in Players, NEW s \in {"SELECTED", "TRANSFERRING"},
               roster' = [roster EXCEPT ![q] = s], present' = present
        PROVE  ConnectedIsPresent'
    BY <1>2, NobodyConnected, PresenceAside
  <1>4. CASE Attach \/ \E p \in Players : AttachParty(p) \/ Dispatch(p)
    BY <1>2, <1>4 DEF Attach, AttachParty, Dispatch
  <1>3. ASSUME NEW p \in Players, ExpirePlayerPresence(p)
        PROVE  ConnectedIsPresent'
    BY <1>3 DEF ExpirePlayerPresence, ConnectedIsPresent, Departed, TypeOK, Rosters
  <1> QED
    BY <1>1, <1>3, <1>4

\* Events: who arrives has a row written first, and who loses it departs.
LEMMA PresenceEvents ==
    ASSUME TypeOK, ConnectedIsPresent, HandleEvent
    PROVE  ConnectedIsPresent'
  <1> USE DEF ChangeRoster
  <1>1. CASE MarkReady \/ GameStarting
    <2>1. present' = present
      BY <1>1 DEF MarkReady, GameStarting
    <2>2. \A p \in Players : roster'[p] = "CONNECTED" => roster[p] = "CONNECTED"
      BY <1>1 DEF MarkReady, GameStarting, Departed
    <2> QED
      BY <2>1, <2>2 DEF ConnectedIsPresent
  <1>2. ASSUME NEW p \in Players, PlayerJoined(p)
        PROVE  ConnectedIsPresent'
    BY <1>2 DEF PlayerJoined, Arrived, ConnectedIsPresent
  <1>3. ASSUME NEW p \in Players, PlayerLeft(p)
        PROVE  ConnectedIsPresent'
    BY <1>3 DEF PlayerLeft, Departed, Seated, ConnectedIsPresent
  <1>4. ASSUME NEW S \in SUBSET Players, Heartbeat(S)
        PROVE  ConnectedIsPresent'
    BY <1>4 DEF Heartbeat, Arrived, ConnectedIsPresent
  <1> QED
    BY <1>1, <1>2, <1>3, <1>4 DEF HandleEvent

\* Whoever is connected to the session has a row in instance_players: the two
\* tables are written in one transaction by every handler, and expiry of the
\* row takes the player off the roster.
THEOREM ConnectedArePresent == Spec => []ConnectedIsPresent
  <1>1. Init => ConnectedIsPresent
    BY DEF Init, ConnectedIsPresent, NoRoster
  <1>2. TypeOK /\ ConnectedIsPresent /\ [Next]_vars => ConnectedIsPresent'
    <2> SUFFICES ASSUME TypeOK, ConnectedIsPresent, [Next]_vars
                 PROVE  ConnectedIsPresent'
      OBVIOUS
    <2>1. ASSUME roster' = roster, present' = present
          PROVE  ConnectedIsPresent'
      BY <2>1, PresenceAside
    <2>2. CASE UNCHANGED vars
      BY <2>1, <2>2 DEF vars, database
    <2>3. CASE \/ ReportGameStarting \/ PublishServerReady \/ SendHeartbeat
               \/ AckStep \/ AckLost
               \/ \E e \in events : Lose(e)
      BY <2>1, <2>3 DEF ReportGameStarting, PublishServerReady, SendHeartbeat, AckStep,
          AcknowledgeAssignment, Acknowledged, AckLost, Lose, database
    <2>4. ASSUME NEW i \in Polls, PollStep(i) \/ PollLost(i)
          PROVE  ConnectedIsPresent'
      BY <2>1, <2>4 DEF PollStep, ReadSession, ReadPlayers, NoAssignment,
          NewAssignment, PollLost
    <2>5. ASSUME NEW p \in Players, Join(p) \/ Quit(p)
          PROVE  ConnectedIsPresent'
      BY <2>1, <2>5 DEF Join, Quit, database
    <2> QED
      BY <2>2, <2>3, <2>4, <2>5, PresenceSessions, PresenceEvents DEF Next
  <1> QED
    BY <1>1, <1>2, TypeCorrect, PTL DEF Spec

-----------------------------------------------------------------------------
(* Delivery of revisions                                                   *)

\* A poll that has answered with the current revision has read the players
\* since that revision was made; what is acknowledged, or on its way to be,
\* was given to the plugin.
DeliveryInv ==
    /\ Acked \in current \/ Ack \in current => Seen \in current
    /\ \A i \in Polls :
          polls[i].step = "found" /\ Rev(i) \in current => At(i) \in current

\* The holders are told apart.
LEMMA HoldersDistinct ==
    /\ \A i, j : /\ Rev(i) # At(j)
                 /\ Rev(i) = Rev(j) => i = j
                 /\ At(i) = At(j) => i = j
                 /\ Rev(i) \notin {Seen, Ack, Plugin, Acked}
                 /\ At(i) \notin {Seen, Ack, Plugin, Acked}
    /\ Seen # Ack /\ Seen # Plugin /\ Seen # Acked
    /\ Ack # Plugin /\ Ack # Acked /\ Plugin # Acked
  BY DEF Rev, At, Seen, Ack, Plugin, Acked

\* A step that leaves the polls alone, and the holders too or none of them.
LEMMA DeliveryAside ==
    ASSUME DeliveryInv, polls' = polls, current' \in {current, {}}
    PROVE  DeliveryInv'
  BY DEF DeliveryInv

\* The statements of a poll and the receipt of its answer.
LEMMA DeliveryPolls ==
    ASSUME TypeOK, DeliveryInv, NEW i \in Polls, PollStep(i) \/ PollLost(i)
    PROVE  DeliveryInv'
  <1> USE HoldersDistinct DEF DeliveryInv
  <1>0. polls \in [Polls -> [step : {"idle", "row", "found", "none"},
                             players : Rosters]]
    BY DEF TypeOK
  <1>1. CASE ReadSession(i)
    <2>1. \A j \in Polls : polls'[j].step = "found" => polls[j].step = "found" /\ i # j
      BY <1>0, <1>1 DEF ReadSession, SetPoll, IdlePoll
    <2>2. current' \in {current, current \cup {Rev(i)}}
      BY <1>1 DEF ReadSession
    <2> QED
      BY <2>1, <2>2
  <1>2. CASE ReadPlayers(i)
    <2>1. \A j \in Polls \ {i} : polls'[j] = polls[j]
      BY <1>0, <1>2 DEF ReadPlayers, SetPoll
    <2>2. current' = current \cup {At(i)}
      BY <1>2 DEF ReadPlayers
    <2> QED
      BY <2>1, <2>2
  <1>3. CASE NoAssignment(i)
    <2>1. \A j \in Polls : polls'[j].step = "found" => polls[j].step = "found"
      BY <1>0, <1>3 DEF NoAssignment, SetPoll, IdlePoll
    <2>2. current' = current \ {Plugin}
      BY <1>3 DEF NoAssignment
    <2> QED
      BY <2>1, <2>2
  <1>4. CASE NewAssignment(i)
    <2>1. \A j \in Polls : polls'[j].step = "found" => polls[j].step = "found" /\ i # j
      BY <1>0, <1>4 DEF NewAssignment, SetPoll, IdlePoll
    <2> DEFINE given == (current \ {Rev(i), At(i)})
                            \cup IF At(i) \in current THEN {Seen} ELSE {}
    <2>2. \/ current' = given
          \/ Rev(i) \in current /\ current' = given \cup {Ack}
      BY <1>4 DEF NewAssignment
    <2>3. Rev(i) \in current => At(i) \in current
      BY <1>4 DEF NewAssignment
    <2>4. Acked \in current' \/ Ack \in current' => Seen \in current'
      BY <2>2, <2>3
    <2>5. ASSUME NEW j \in Polls, polls'[j].step = "found", Rev(j) \in current'
          PROVE  At(j) \in current'
      BY <2>1, <2>2, <2>5
    <2> QED
      BY <2>4, <2>5
  <1>5. CASE PollLost(i)
    <2>1. \A j \in Polls : polls'[j].step = "found" => polls[j].step = "found" /\ i # j
      BY <1>0, <1>5 DEF PollLost, SetPoll, IdlePoll
    <2>2. current' = current \ {Rev(i), At(i)}
      BY <1>5 DEF PollLost
    <2> QED
      BY <2>1, <2>2
  <1> QED
    BY <1>1, <1>2, <1>3, <1>4, <1>5 DEF PollStep

\* assignment_acknowledged_at speaks of players the plugin was given:
\* getAssignment reads the revision before the players, and only the current
\* revision is acknowledged.
THEOREM AckedAreDelivered == Spec => []AckedWasDelivered
  <1>1. Init => DeliveryInv
    BY DEF Init, DeliveryInv
  <1>2. TypeOK /\ DeliveryInv /\ [Next]_vars => DeliveryInv'
    <2> SUFFICES ASSUME TypeOK, DeliveryInv, [Next]_vars PROVE DeliveryInv'
      OBVIOUS
    <2>1. CASE UNCHANGED vars
      BY <2>1, DeliveryAside DEF vars, database, network
    <2>2. CASE \/ Attach \/ ExpireTransfers \/ ExpireTransfersBump \/ Crash
               \/ \E p \in Players : \/ AttachParty(p) \/ Dispatch(p)
                                     \/ ExpirePlayerPresence(p)
      BY <2>2, DeliveryAside DEF Attach, ExpireTransfers, ExpireTransfersBump, Crash,
          AttachParty, Dispatch, ExpirePlayerPresence, ChangeRoster,
          BumpAssignmentRevision, network
    <2>3. CASE \/ ReportGameStarting \/ PublishServerReady \/ SendHeartbeat
               \/ \E p \in Players : Join(p) \/ Quit(p)
               \/ \E e \in events : Lose(e)
      BY <2>3, DeliveryAside DEF ReportGameStarting, PublishServerReady, SendHeartbeat,
          Join, Quit, Lose, database
    <2>4. CASE HandleEvent
      BY <2>4, DeliveryAside DEF HandleEvent, MarkReady, GameStarting, PlayerJoined,
          PlayerLeft, Heartbeat, ChangeRoster, BumpAssignmentRevision
    <2>5. CASE AckStep \/ AckLost
      BY <2>5, HoldersDistinct DEF AckStep, AcknowledgeAssignment, Acknowledged, AckLost,
          DeliveryInv
    <2> QED
      BY <2>1, <2>2, <2>3, <2>4, <2>5, DeliveryPolls DEF Next
  <1>3. DeliveryInv => AckedWasDelivered
    BY DEF DeliveryInv, AckedWasDelivered
  <1> QED
    BY <1>1, <1>2, <1>3, TypeCorrect, PTL DEF Spec
=============================================================================
