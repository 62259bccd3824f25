---------------------------- MODULE GameSessions ----------------------------
(***************************************************************************)
(* Matchmaking and game sessions of one minigame group: the rows of        *)
(* queue_entries, game_sessions, session_players, server_instances,        *)
(* instance_players and transfer_commands, and everything that writes      *)
(* them: QueueService, Matchmaker, SessionController, the Paper events of  *)
(* InstanceController, and its lifecycle operations.                       *)
(*                                                                         *)
(* One database transaction is one action.  What a handler does after its  *)
(* transaction committed, and what a loop of SessionController does with   *)
(* rows it read earlier, are later actions, between which every other      *)
(* writer may run and the orchestrator may crash.  Time is abstract: a     *)
(* deadline that is set may pass at any moment.                            *)
(***************************************************************************)
EXTENDS Integers, FiniteSets

CONSTANTS
    Players,
    Instances,      \* instances of the group, already created
    NoInstance,     \* NULL in game_sessions.instance_id
    Parties,        \* party ids clients may use
    NumTickets,     \* bound: queue entries ever inserted
    NumSessions,    \* bound: sessions ever inserted
    MaxFaults,      \* bound: restarts and failed stages of the orchestrator
    Group           \* the server_groups row: the team policy

T == INSTANCE Teams

Tickets == 1..NumTickets    \* in the order of queue_entries.joined_at
Sessions == 1..NumSessions  \* in the order of game_sessions.created_at

ASSUME BoundsAssumption == NumTickets \in Nat /\ NumSessions \in Nat
                                              /\ MaxFaults \in Nat
ASSUME PartiesAssumption == Parties # {}
ASSUME NoInstanceAssumption == NoInstance \notin Instances

VARIABLES
    \* queue_entries and queue_entry_players
    tState, tParty, tMembers, tSession, tStarted,
    \* game_sessions: state, instance_id, instance_acquisition_deadline and
    \* lobby_stale_deadline
    sState, sInst, sAcq, sStale,
    \* session_players: state and queue_entry_id, per session and player
    pState, pTicket,
    \* server_instances: lifecycle_state, availability_state, session_id,
    \* failure_reason IS NOT NULL
    life, avail, iSession, failed,
    \* instance_players, and the sessions and targets of PENDING commands
    present, pending,
    \* memory of the orchestrator: the stage of SessionController.tick with
    \* the rows it still has to work on, and the Paper event handlers that
    \* committed and have yet to call beginDrain
    stage, rows, drainCalls,
    faults

ticketVars == <<tState, tParty, tMembers, tSession, tStarted>>
sessionVars == <<sState, sInst, sAcq, sStale>>
rosterVars == <<pState, pTicket>>
instanceVars == <<life, avail, iSession, failed>>
memoryVars == <<stage, rows, drainCalls, faults>>
vars == <<ticketVars, sessionVars, rosterVars, instanceVars, present, pending,
          memoryVars>>

-----------------------------------------------------------------------------
(* States and types                                                        *)

PreStart == {"FORMING", "WAITING_FOR_INSTANCE", "TRANSFERRING", "WAITING"}
Terminal == {"FINISHED", "CANCELLED", "FAILED"}
Started == {"STARTING", "RUNNING"}
PlayerStates == {"NONE", "SELECTED", "TRANSFERRING", "CONNECTED", "LEFT"}
Deadline == {"none", "set", "due"}
Stages == 3..6     \* of SessionController.tick that carry rows over

\* <<operation, session, instance>>: a row of a snapshot, with what the tick
\* decided to do with it.
Rows == {"cancel", "wait", "drain", "requeue", "reset", "fail",
         "cancelTransfers", "stop"} \X (Sessions \cup {0})
                                    \X (Instances \cup {NoInstance})

TypeOK ==
    /\ tState \in [Tickets -> {"NONE", "QUEUED", "SELECTED", "LEFT"}]
    /\ tParty \in [Tickets -> Parties]
    /\ tMembers \in [Tickets -> SUBSET Players]
    /\ tSession \in [Tickets -> Sessions \cup {0}]
    /\ tStarted \in [Tickets -> BOOLEAN]
    /\ sState \in [Sessions -> {"NONE"} \cup PreStart \cup Started \cup Terminal]
    /\ sInst \in [Sessions -> Instances \cup {NoInstance}]
    /\ sAcq \in [Sessions -> Deadline]
    /\ sStale \in [Sessions -> Deadline]
    /\ pState \in [Sessions -> [Players -> PlayerStates]]
    /\ pTicket \in [Sessions -> [Players -> Tickets \cup {0}]]
    /\ life \in [Instances -> {"STARTING", "RUNNING", "DRAINING", "STOPPING",
                               "STOPPED", "FAILED"}]
    /\ avail \in [Instances -> {"OPEN", "RESERVED"}]
    /\ iSession \in [Instances -> Sessions \cup {0}]
    /\ failed \in [Instances -> BOOLEAN]
    /\ present \in [Instances -> SUBSET Players]
    /\ pending \in SUBSET (Sessions \X Instances)
    /\ stage \in Stages
    /\ rows \in SUBSET Rows
    /\ drainCalls \in SUBSET Instances
    /\ faults \in 0..MaxFaults

Init ==
    /\ tState = [t \in Tickets |-> "NONE"]
    /\ tParty = [t \in Tickets |-> CHOOSE g \in Parties : TRUE]
    /\ tMembers = [t \in Tickets |-> {}]
    /\ tSession = [t \in Tickets |-> 0]
    /\ tStarted = [t \in Tickets |-> FALSE]
    /\ sState = [s \in Sessions |-> "NONE"]
    /\ sInst = [s \in Sessions |-> NoInstance]
    /\ sAcq = [s \in Sessions |-> "none"]
    /\ sStale = [s \in Sessions |-> "none"]
    /\ pState = [s \in Sessions |-> [p \in Players |-> "NONE"]]
    /\ pTicket = [s \in Sessions |-> [p \in Players |-> 0]]
    /\ life = [i \in Instances |-> "STARTING"]
    /\ avail = [i \in Instances |-> "OPEN"]
    /\ iSession = [i \in Instances |-> 0]
    /\ failed = [i \in Instances |-> FALSE]
    /\ present = [i \in Instances |-> {}]
    /\ pending = {}
    /\ stage = 3
    /\ rows = {}
    /\ drainCalls = {}
    /\ faults = 0

-----------------------------------------------------------------------------
(* Rosters                                                                 *)

\* The players of roster row r, a value of pState[s], that have not left.
ActiveIn(r) == { p \in Players : r[p] \notin {"NONE", "LEFT"} }

Active(s) == ActiveIn(pState[s])

\* The sizes of the tickets of a roster, counted as the matchmaker does: the
\* players that have not left, grouped by queue entry.
TicketSizes(r, tickets) ==
    LET ids == T!SetToSortSeq({ tickets[p] : p \in ActiveIn(r) }, <)
    IN  [k \in DOMAIN ids |->
            Cardinality({ p \in ActiveIn(r) : tickets[p] = ids[k] })]

Eligible(r, tickets) == T!IsExpectedStartEligible(TicketSizes(r, tickets), Group)

\* A roster row in which the players of P are set to LEFT, those that have a
\* row and have not left already.
MarkLeft(r, P) ==
    [p \in Players |-> IF p \in P /\ p \in ActiveIn(r) THEN "LEFT" ELSE r[p]]

\* The transition SELECTED -> TRANSFERRING of a whole roster.
MarkTransferring(r) ==
    [p \in Players |-> IF r[p] = "SELECTED" THEN "TRANSFERRING" ELSE r[p]]

-----------------------------------------------------------------------------
(* QueueService                                                            *)

\* A ticket that enqueue, leaveParty and networkDisconnected look for.
OpenTicket(t) ==
    \/ tState[t] = "QUEUED"
    \/ tState[t] = "SELECTED" /\ sState[tSession[t]] \notin Terminal

\* The entry the ORDER BY ... LIMIT 1 of those queries may return: a QUEUED one
\* if there is one; among SELECTED ones the database may return any.
Found(t, candidates) ==
    /\ t \in candidates
    /\ (\E u \in candidates : tState[u] = "QUEUED") => tState[t] = "QUEUED"

\* The player is in a QUEUED entry or active in a session that is not over.
Busy(p) ==
    \/ \E t \in Tickets : tState[t] = "QUEUED" /\ p \in tMembers[t]
    \/ \E s \in Sessions : p \in Active(s) /\ sState[s] \notin Terminal

\* enqueue, the path that inserts.  A retry by the same party returns the
\* entry it has, and a conflict is an error: neither changes anything.
Enqueue(t, party, members) ==
    /\ tState[t] = "NONE"
    /\ \A u \in Tickets : u < t => tState[u] # "NONE"
    /\ members # {} /\ Cardinality(members) =< Group.teamSize
    /\ \A u \in Tickets : tState[u] = "QUEUED" => tParty[u] # party
    /\ \A p \in members : ~ Busy(p)
    /\ tState' = [tState EXCEPT ![t] = "QUEUED"]
    /\ tParty' = [tParty EXCEPT ![t] = party]
    /\ tMembers' = [tMembers EXCEPT ![t] = members]
    /\ UNCHANGED <<tSession, tStarted, sessionVars, rosterVars, instanceVars,
                   present, pending, memoryVars>>

\* cancelTicket: the entry leaves the queue and its players leave the session
\* it was selected into, which is cancelled when that leaves nobody and goes
\* back to FORMING when it waits for an instance it may no longer ask for.
CancelTicket(t) ==
    LET s == tSession[t]
        leaving == IF s = 0 THEN {} ELSE { p \in Active(s) : pTicket[s][p] = t }
        roster == MarkLeft(pState[s], leaving)
        back == sState[s] = "WAITING_FOR_INSTANCE" /\ ~ Eligible(roster, pTicket[s])
    IN  /\ tState' = [tState EXCEPT ![t] = "LEFT"]
        /\ IF leaving = {}
           THEN UNCHANGED <<sessionVars, pState>>
           ELSE /\ pState' = [pState EXCEPT ![s] = roster]
                /\ sState' = [sState EXCEPT ![s] =
                                IF ActiveIn(roster) = {} THEN "CANCELLED"
                                ELSE IF back THEN "FORMING" ELSE @]
                /\ sAcq' = [sAcq EXCEPT ![s] = IF back THEN "none" ELSE @]
                /\ sStale' = [sStale EXCEPT ![s] = IF back THEN "none" ELSE @]
                /\ UNCHANGED sInst
        /\ UNCHANGED <<tParty, tMembers, tSession, tStarted, pTicket,
                       instanceVars, present, pending, memoryVars>>

\* leaveParty.  Once the transfer of the entry has started it returns false.
LeaveParty(party) ==
    \E t \in Tickets :
        /\ Found(t, { u \in Tickets : OpenTicket(u) /\ tParty[u] = party })
        /\ ~ tStarted[t]
        /\ CancelTicket(t)

\* networkDisconnected: the whole ticket before its transfer started, only
\* the player, in every session that is not over, afterwards.
NetworkDisconnected(p) ==
    LET mine == { t \in Tickets : OpenTicket(t) /\ p \in tMembers[t] }
    IN  \/ \E t \in Tickets : Found(t, mine) /\ ~ tStarted[t] /\ CancelTicket(t)
        \/ /\ mine = {} \/ \E t \in Tickets : Found(t, mine) /\ tStarted[t]
           /\ \E s \in Sessions : p \in Active(s) /\ sState[s] \notin Terminal
           /\ pState' = [s \in Sessions |->
                            IF sState[s] \in Terminal THEN pState[s]
                            ELSE MarkLeft(pState[s], {p})]
           /\ UNCHANGED <<ticketVars, sessionVars, pTicket, instanceVars,
                          present, pending, memoryVars>>

-----------------------------------------------------------------------------
(* Matchmaker                                                              *)
(*                                                                         *)
(* processGroup is one transaction that visits the waiting sessions and    *)
(* then the queue.  Each visit is an action of its own here.  The group's  *)
(* advisory lock keeps other matchmakers out, and every other writer may   *)
(* run between two visits as it may between two ticks.                     *)

\* MUTANT of Reservable: the availability is not tested.
ReservableTwice == { i \in Instances : life[i] = "RUNNING" }

\* The instances reserveInstance may return.  It returns none when the host
\* of every one of them is not ONLINE and ACTIVE, so callers allow for that.
Reservable == { i \in Instances : life[i] = "RUNNING" /\ avail[i] = "OPEN" }

\* acceptsTicketsBeforeStaleDeadline, over the sessions loadSessions reads.
AcceptsTickets(s) ==
    /\ sState[s] \in PreStart
    /\ sStale[s] # "due"
    /\ ~ (sState[s] = "WAITING_FOR_INSTANCE" /\ sAcq[s] = "due")

\* reserveInstance, then startSessionTransfers on the given roster of s: the
\* session, every ticket selected into it and every selected player start to
\* move, with one transfer command for all of them.
StartSessionTransfers(s, i, roster, states, sessions) ==
    /\ avail' = [avail EXCEPT ![i] = "RESERVED"]
    /\ iSession' = [iSession EXCEPT ![i] = s]
    /\ sState' = [sState EXCEPT ![s] = "TRANSFERRING"]
    /\ sInst' = [sInst EXCEPT ![s] = i]
    /\ sAcq' = [sAcq EXCEPT ![s] = IF @ = "none" THEN "set" ELSE @]
    /\ sStale' = [sStale EXCEPT ![s] = "set"]
    /\ tStarted' = [t \in Tickets |-> \/ tStarted[t]
                                      \/ states[t] = "SELECTED" /\ sessions[t] = s]
    /\ pState' = [pState EXCEPT ![s] = MarkTransferring(roster)]
    /\ pending' = IF ActiveIn(roster) = {} THEN pending
                  ELSE pending \cup {<<s, i>>}
    /\ UNCHANGED <<life, failed>>

\* A session waiting for an instance gets one ...
AssignWaiting(s, i) ==
    /\ sState[s] = "WAITING_FOR_INSTANCE" /\ AcceptsTickets(s)
    /\ Eligible(pState[s], pTicket[s])
    /\ i \in Reservable
    /\ StartSessionTransfers(s, i, pState[s], tState, tSession)
    /\ UNCHANGED <<tState, tParty, tMembers, tSession, pTicket, present, memoryVars>>

\* ... or has lost too many players to ask for one.
ReturnToForming(s) ==
    /\ sState[s] = "WAITING_FOR_INSTANCE" /\ AcceptsTickets(s)
    /\ ~ Eligible(pState[s], pTicket[s])
    /\ sState' = [sState EXCEPT ![s] = "FORMING"]
    /\ sAcq' = [sAcq EXCEPT ![s] = "none"]
    /\ sStale' = [sStale EXCEPT ![s] = "none"]
    /\ UNCHANGED <<ticketVars, sInst, rosterVars, instanceVars, present, pending,
                   memoryVars>>

\* s is the session the oldest ticket goes to: the best of those that can
\* take it or, when none can, the next new one.
TakesTicket(s, t) ==
    LET candidates == [r \in { r \in Sessions : AcceptsTickets(r) } |->
                            TicketSizes(pState[r], pTicket[r])]
        size == Cardinality(tMembers[t])
    IN  \/ AcceptsTickets(s) /\ T!RanksFirst(s, candidates, size, Group)
        \/ /\ T!Able(candidates, size, Group) = {}
           /\ sState[s] = "NONE"
           /\ \A r \in Sessions : r < s => sState[r] # "NONE"

\* One round of the queue loop: attachParty, then beginTicketTransfer when the
\* session has its instance, dispatchSession when it forms and may now start.
\* reservation is what reserveInstance returns.  attachParty throws, and the
\* transaction is rolled back, when a member is already active in s.
AttachTicket(t, s, reservation) ==
    LET roster == [p \in Players |->
                    IF p \in tMembers[t] THEN "SELECTED" ELSE pState[s][p]]
        tickets == [p \in Players |->
                    IF p \in tMembers[t] THEN t ELSE pTicket[s][p]]
        states == [tState EXCEPT ![t] = "SELECTED"]
        sessions == [tSession EXCEPT ![t] = s]
        dispatch == sState[s] \in {"NONE", "FORMING"} /\ Eligible(roster, tickets)
    IN  /\ tState[t] = "QUEUED"
        /\ \A u \in Tickets : u < t => tState[u] # "QUEUED"
        /\ TakesTicket(s, t)
        /\ tMembers[t] \cap Active(s) = {}
        /\ tState' = states
        /\ tSession' = sessions
        /\ pTicket' = [pTicket EXCEPT ![s] = tickets]
        /\ \/ /\ sInst[s] # NoInstance
              /\ reservation = NoInstance
              /\ tStarted' = [tStarted EXCEPT ![t] = TRUE]
              /\ pState' = [pState EXCEPT ![s] =
                    [p \in Players |-> IF p \in tMembers[t] THEN "TRANSFERRING"
                                       ELSE roster[p]]]
              /\ pending' = pending \cup {<<s, sInst[s]>>}
              /\ UNCHANGED <<sessionVars, instanceVars>>
           \/ /\ sInst[s] = NoInstance
              /\ dispatch
              /\ reservation \in Reservable
              /\ StartSessionTransfers(s, reservation, roster, states, sessions)
           \/ /\ sInst[s] = NoInstance
              /\ reservation = NoInstance
              /\ pState' = [pState EXCEPT ![s] = roster]
              /\ sState' = [sState EXCEPT ![s] =
                    IF dispatch THEN "WAITING_FOR_INSTANCE"
                    ELSE IF @ = "NONE" THEN "FORMING" ELSE @]
              /\ sAcq' = [sAcq EXCEPT ![s] = IF dispatch THEN "set" ELSE @]
              /\ sStale' = [sStale EXCEPT ![s] = IF dispatch THEN "none" ELSE @]
              /\ UNCHANGED <<sInst, tStarted, instanceVars, pending>>
        /\ UNCHANGED <<tParty, tMembers, present, memoryVars>>

-----------------------------------------------------------------------------
(* Paper events.  validateEventSession compares the session an event names *)
(* with server_instances.session_id and nothing else: an event is accepted *)
(* in every lifecycle state of the instance, and after the session moved.  *)

\* The players a proxy may have brought to i: those of i's session whose
\* transfer was started.
MayArrive(i) ==
    { p \in Players : \E t \in Tickets : /\ tStarted[t]
                                         /\ tSession[t] = iSession[i]
                                         /\ p \in tMembers[t] }

\* MUTANT of Observe: the state of the session is not tested.
ObserveAnyState(i, P) ==
    /\ P # {} /\ P \subseteq MayArrive(i)
    /\ present' = [present EXCEPT ![i] = @ \cup P]
    /\ pState' = [pState EXCEPT ![iSession[i]] =
                    [p \in Players |-> IF p \in P THEN "CONNECTED" ELSE @[p]]]
    /\ UNCHANGED <<ticketVars, sessionVars, pTicket, instanceVars, pending,
                   memoryVars>>

\* playerJoined and heartbeat write the same rows, for one player and for all
\* those reported.
Observe(i, P) ==
    LET s == iSession[i]
    IN  /\ P # {} /\ P \subseteq MayArrive(i)
        /\ present' = [present EXCEPT ![i] = @ \cup P]
        /\ pState' = [pState EXCEPT ![s] =
                        [p \in Players |->
                            IF /\ p \in P
                               /\ sState[s] \in {"TRANSFERRING", "WAITING"}
                               /\ @[p] \in {"SELECTED", "TRANSFERRING", "LEFT"}
                            THEN "CONNECTED" ELSE @[p]]]
        /\ UNCHANGED <<ticketVars, sessionVars, pTicket, instanceVars, pending,
                       memoryVars>>

PlayerJoined(i, p) == Observe(i, {p})

Heartbeat(i) == \E P \in SUBSET Players : Observe(i, P)

\* playerLeft, possibly late: the player may already be selected again.
PlayerLeft(i, p) ==
    /\ p \in MayArrive(i)
    /\ present' = [present EXCEPT ![i] = @ \ {p}]
    /\ pState' = [pState EXCEPT ![iSession[i]] = MarkLeft(@, {p})]
    /\ UNCHANGED <<ticketVars, sessionVars, pTicket, instanceVars, pending,
                   memoryVars>>

\* playerEliminated: the spectator stays on the instance.
PlayerEliminated(i, p) ==
    LET s == iSession[i]
    IN  /\ p \in MayArrive(i)
        /\ sState[s] = "RUNNING"
        /\ pState' = [pState EXCEPT ![s] = MarkLeft(@, {p})]
        /\ UNCHANGED <<ticketVars, sessionVars, pTicket, instanceVars, present,
                       pending, memoryVars>>

\* The session an event of i about its game is about: both rows must agree.
OwnSession(i, s) == s # 0 /\ iSession[i] = s /\ sInst[s] = i

\* The part of a roster that never arrived leaves it.
DropAbsent(r) == MarkLeft(r, { p \in Players : r[p] \in {"SELECTED", "TRANSFERRING"} })

\* MUTANT of PendingWithout: the commands under way are not cancelled.
PendingWithoutNone(s) == pending

\* The commands that stay pending when those of s are cancelled.
PendingWithout(s) == { c \in pending : c[1] # s }

\* setSessionState(STARTING): the roster is what has connected, and the
\* commands that would still bring players are cancelled.
GameStarting(i) ==
    LET s == iSession[i]
    IN  /\ OwnSession(i, s)
        /\ sState[s] \in {"TRANSFERRING", "WAITING"}
        /\ sState' = [sState EXCEPT ![s] = "STARTING"]
        /\ pState' = [pState EXCEPT ![s] = DropAbsent(@)]
        /\ pending' = PendingWithout(s)
        /\ UNCHANGED <<ticketVars, sInst, sAcq, sStale, pTicket, instanceVars,
                       present, memoryVars>>

\* setSessionState(RUNNING).
GameStarted(i) ==
    LET s == iSession[i]
    IN  /\ OwnSession(i, s)
        /\ sState[s] = "STARTING"
        /\ sState' = [sState EXCEPT ![s] = "RUNNING"]
        /\ UNCHANGED <<ticketVars, sInst, sAcq, sStale, rosterVars, instanceVars,
                       present, pending, memoryVars>>

\* cancelSession, up to the commit.  A repeated event for a session that is
\* CANCELLED already goes on to beginDrain as well.
GameCancelled(i) ==
    LET s == iSession[i]
    IN  /\ OwnSession(i, s)
        /\ \/ /\ sState[s] \in {"TRANSFERRING", "WAITING"} \cup Started
              /\ sState' = [sState EXCEPT ![s] = "CANCELLED"]
              /\ pState' = [pState EXCEPT ![s] = DropAbsent(@)]
              /\ pending' = PendingWithout(s)
           \/ /\ sState[s] = "CANCELLED"
              /\ UNCHANGED <<sState, pState, pending>>
        /\ drainCalls' = drainCalls \cup {i}
        /\ UNCHANGED <<ticketVars, sInst, sAcq, sStale, pTicket, instanceVars,
                       present, stage, rows, faults>>

\* finishSession, up to the commit.
GameFinished(i) ==
    LET s == iSession[i]
    IN  /\ OwnSession(i, s)
        /\ sState[s] \in Started
        /\ sState' = [sState EXCEPT ![s] = "FINISHED"]
        /\ drainCalls' = drainCalls \cup {i}
        /\ UNCHANGED <<ticketVars, sInst, sAcq, sStale, rosterVars, instanceVars,
                       present, pending, stage, rows, faults>>

-----------------------------------------------------------------------------
(* Instance lifecycle                                                      *)

\* markReady.
MarkReady(i) ==
    /\ life[i] = "STARTING"
    /\ life' = [life EXCEPT ![i] = "RUNNING"]
    /\ UNCHANGED <<ticketVars, sessionVars, rosterVars, avail, iSession, failed,
                   present, pending, memoryVars>>

\* MUTANT of FailInstance: no failure_reason is recorded.
FailInstanceNoReason(i) ==
    /\ life[i] \in {"STARTING", "RUNNING", "DRAINING"}
    /\ life' = [life EXCEPT ![i] = "FAILED"]
    /\ UNCHANGED <<ticketVars, sessionVars, rosterVars, avail, iSession, failed,
                   present, pending, memoryVars>>

\* failInstance, for whatever reason the reconciler or a start worker has.
FailInstance(i) ==
    /\ life[i] \in {"STARTING", "RUNNING", "DRAINING"}
    /\ life' = [life EXCEPT ![i] = "FAILED"]
    /\ failed' = [failed EXCEPT ![i] = TRUE]
    /\ UNCHANGED <<ticketVars, sessionVars, rosterVars, avail, iSession, present,
                   pending, memoryVars>>

\* MUTANT of MayDrain: a reservation does not protect the instance.
MayDrainReserved(i) == life[i] = "RUNNING"

\* The WHERE clause of beginDrain.
MayDrain(i) ==
    /\ life[i] = "RUNNING"
    /\ avail[i] = "OPEN" \/ (iSession[i] # 0 /\ sState[iSession[i]] \in Terminal)

\* beginDrain: nothing happens to an instance that may not be drained.
BeginDrain(i) ==
    /\ life' = IF MayDrain(i) THEN [life EXCEPT ![i] = "DRAINING"] ELSE life
    /\ UNCHANGED <<avail, iSession, failed>>

\* The call a handler of a Paper event makes after its commit.
PaperDrain(i) ==
    /\ i \in drainCalls
    /\ BeginDrain(i)
    /\ drainCalls' = drainCalls \ {i}
    /\ UNCHANGED <<ticketVars, sessionVars, rosterVars, present, pending, stage,
                   rows, faults>>

\* CapacityController and HostMaintenanceController drain what they read as
\* idle some time before: any instance, by now in any state.
ReleaseIdle(i) ==
    /\ BeginDrain(i)
    /\ UNCHANGED <<ticketVars, sessionVars, rosterVars, present, pending,
                   memoryVars>>

\* stopAndDelete, up to the call of the executor.
BeginStop(i) ==
    /\ life' = IF life[i] \in {"DRAINING", "FAILED", "STOPPING"}
               THEN [life EXCEPT ![i] = "STOPPING"] ELSE life
    /\ UNCHANGED <<avail, iSession, failed>>

\* Reconciler: failed instances, and draining ones that are due or whose
\* runtime is gone.
ReconcileStop(i) ==
    /\ life[i] \in {"DRAINING", "FAILED"}
    /\ BeginStop(i)
    /\ UNCHANGED <<ticketVars, sessionVars, rosterVars, present, pending,
                   memoryVars>>

\* The executor answered some caller of stopAndDelete.  When it fails instead
\* the instance stays STOPPING until the reconciler has it stopped again.
FinishStop(i) ==
    /\ life[i] = "STOPPING"
    /\ life' = [life EXCEPT ![i] = "STOPPED"]
    /\ UNCHANGED <<ticketVars, sessionVars, rosterVars, avail, iSession, failed,
                   present, pending, memoryVars>>

\* cleanupReset of VariantStartController: when the start policy of a revision
\* is reset, every instance of the revision is stopped and deleted, in whatever
\* state and whatever is played on it, and no failure is recorded.
CleanupReset(i) ==
    /\ life[i] # "STOPPED"
    /\ life' = [life EXCEPT ![i] = "STOPPED"]
    /\ UNCHANGED <<ticketVars, sessionVars, rosterVars, avail, iSession, failed,
                   present, pending, memoryVars>>

\* TransferService completes or expires a command.
CloseTransfer(c) ==
    /\ c \in pending
    /\ pending' = pending \ {c}
    /\ UNCHANGED <<ticketVars, sessionVars, rosterVars, instanceVars, present,
                   memoryVars>>

-----------------------------------------------------------------------------
(* SessionController.tick: six stages in a fixed order.  A stage reads its *)
(* rows once and then works on them one at a time.  The first two stages   *)
(* only test deadlines, again in the statement that writes, and a deadline *)
(* may pass at any moment: they are the two actions of Expiry, free to     *)
(* happen between any two steps.                                           *)

\* MUTANT of Overdue: a session whose players all arrived is not watched.
OverdueNotWaiting ==
    { s \in Sessions :
        \/ sState[s] = "WAITING_FOR_INSTANCE" /\ sAcq[s] = "due"
        \/ sState[s] = "TRANSFERRING" /\ sStale[s] = "due" }

\* The sessions advanceWaitingSessions cancels.
Overdue ==
    { s \in Sessions :
        \/ sState[s] = "WAITING_FOR_INSTANCE" /\ sAcq[s] = "due"
        \/ sState[s] \in {"TRANSFERRING", "WAITING"} /\ sStale[s] = "due" }

\* MUTANT of Lost: an instance is looked for in FAILED only.
LostNotStopped ==
    { s \in Sessions : /\ sState[s] \notin Terminal
                       /\ sInst[s] # NoInstance
                       /\ life[sInst[s]] = "FAILED" }

\* The sessions recoverFailedInstances finds: the failed instance may have
\* been stopped and deleted before the tick comes round.
Lost ==
    { s \in Sessions : /\ sState[s] \notin Terminal
                       /\ sInst[s] # NoInstance
                       /\ \/ life[sInst[s]] = "FAILED"
                          \/ life[sInst[s]] = "STOPPED" /\ failed[sInst[s]] }

\* MUTANT of Consumed: there is no stage that resumes a drain.
ConsumedNever == {}

\* The instances releaseTerminalReservations drains.
Consumed ==
    { i \in Instances : /\ life[i] = "RUNNING" /\ avail[i] = "RESERVED"
                        /\ iSession[i] # 0
                        /\ sState[iSession[i]] \in Terminal }

\* The rows stage k reads.  advanceWaitingSessions decides on all of them
\* from one snapshot of states, deadlines and counts, recoverFailedInstances
\* from one of states and counts.  late is the set of draining instances
\* whose drain deadline has passed.
Snapshot(k, late) ==
    CASE k = 3 ->
            { <<"cancel", s, NoInstance>> : s \in Overdue }
            \cup
            { <<"wait", s, NoInstance>> : s \in
                { s \in Sessions \ Overdue :
                    /\ sState[s] = "TRANSFERRING"
                    /\ Active(s) # {}
                    /\ \A p \in Active(s) : pState[s][p] = "CONNECTED" } }
      [] k = 4 ->
            LET idle == { s \in Lost :
                            /\ sState[s] \in PreStart
                            /\ \A p \in Players : pState[s][p] # "CONNECTED" }
            IN  { <<"requeue", s, sInst[s]>> : s \in idle }
                \cup { <<"fail", s, sInst[s]>> : s \in Lost \ idle }
      [] k = 5 -> { <<"drain", 0, i>> : i \in Consumed }
      [] k = 6 ->
            { <<"stop", 0, i>> : i \in
                { i \in Instances : /\ life[i] = "DRAINING"
                                    /\ present[i] = {} \/ i \in late } }

\* The next stage, or the first one of the next tick.
NextStage ==
    /\ rows = {}
    /\ stage' = IF stage = 6 THEN 3 ELSE stage + 1
    /\ \E late \in SUBSET { i \in Instances : life[i] = "DRAINING" } :
            rows' = Snapshot(stage', late)
    /\ UNCHANGED <<ticketVars, sessionVars, rosterVars, instanceVars, present,
                   pending, drainCalls, faults>>

\* A statement or a call of a stage throws, for want of the database or of
\* Redis: tick logs it, drops the rest of that stage and goes on.
StageFails ==
    /\ rows # {}
    /\ faults < MaxFaults
    /\ faults' = faults + 1
    /\ rows' = {}
    /\ UNCHANGED <<ticketVars, sessionVars, rosterVars, instanceVars, present,
                   pending, stage, drainCalls>>

\* The row the tick has begun and not finished is worked on before the next.
Midway ==
    \E r \in rows : r[1] \in {"reset", "cancelTransfers"} \/ (r[1] = "drain" /\ stage = 3)

\* Stage 1, expireTransfers: the players of one session whose transfer
\* deadline has passed.
ExpireTransfers(s, P) ==
    /\ sState[s] \in {"TRANSFERRING", "WAITING"}
    /\ P # {} /\ \A p \in P : pState[s][p] = "TRANSFERRING"
    /\ pState' = [pState EXCEPT ![s] = MarkLeft(@, P)]
    /\ UNCHANGED <<ticketVars, sessionVars, pTicket, instanceVars, present,
                   pending, memoryVars>>

\* Stage 2, expirePlayerPresence: a player i has not reported in time.
ExpirePresence(i, p) ==
    /\ p \in present[i]
    /\ present' = [present EXCEPT ![i] = @ \ {p}]
    /\ pState' = IF iSession[i] # 0 /\ pState[iSession[i]][p] = "CONNECTED"
                 THEN [pState EXCEPT ![iSession[i]] = MarkLeft(@, {p})]
                 ELSE pState
    /\ UNCHANGED <<ticketVars, sessionVars, pTicket, instanceVars, pending,
                   memoryVars>>

\* Stage 3, cancel: guarded by the state the session has now.  The drain of
\* its instance is a further call.
CancelRow(s) ==
    /\ <<"cancel", s, NoInstance>> \in rows /\ ~ Midway
    /\ IF sState[s] \in PreStart
       THEN /\ sState' = [sState EXCEPT ![s] = "CANCELLED"]
            /\ pending' = PendingWithout(s)
            /\ rows' = (rows \ {<<"cancel", s, NoInstance>>}) \cup
                       (IF sInst[s] = NoInstance THEN {}
                        ELSE {<<"drain", 0, sInst[s]>>})
       ELSE /\ rows' = rows \ {<<"cancel", s, NoInstance>>}
            /\ UNCHANGED <<sState, pending>>
    /\ UNCHANGED <<ticketVars, sInst, sAcq, sStale, rosterVars, instanceVars,
                   present, stage, drainCalls, faults>>

\* Stage 3, everybody of the snapshot had arrived.
WaitRow(s) ==
    /\ <<"wait", s, NoInstance>> \in rows /\ ~ Midway
    /\ sState' = [sState EXCEPT ![s] = IF @ = "TRANSFERRING" THEN "WAITING" ELSE @]
    /\ rows' = rows \ {<<"wait", s, NoInstance>>}
    /\ UNCHANGED <<ticketVars, sInst, sAcq, sStale, rosterVars, instanceVars,
                   present, pending, stage, drainCalls, faults>>

\* The commands cancelForInstance(i) leaves pending.
PendingNotTo(i) == { c \in pending : c[2] # i }

\* Stage 4, nobody had arrived: cancelForInstance first ...
RequeueRow(s, i) ==
    /\ <<"requeue", s, i>> \in rows /\ ~ Midway
    /\ pending' = PendingNotTo(i)
    /\ rows' = (rows \ {<<"requeue", s, i>>}) \cup {<<"reset", s, i>>}
    /\ UNCHANGED <<ticketVars, sessionVars, rosterVars, instanceVars, present,
                   stage, drainCalls, faults>>

\* ... then the transaction that puts the session back.  Its UPDATE names the
\* session only, whatever state it has come to meanwhile.
ResetRow(s, i) ==
    /\ <<"reset", s, i>> \in rows
    /\ sState' = [sState EXCEPT ![s] = "WAITING_FOR_INSTANCE"]
    /\ sInst' = [sInst EXCEPT ![s] = NoInstance]
    /\ sAcq' = [sAcq EXCEPT ![s] = IF @ = "none" THEN "set" ELSE @]
    /\ sStale' = [sStale EXCEPT ![s] = "none"]
    /\ pState' = [pState EXCEPT ![s] =
                    [p \in Players |-> IF @[p] = "TRANSFERRING" THEN "SELECTED"
                                       ELSE @[p]]]
    /\ rows' = rows \ {<<"reset", s, i>>}
    /\ UNCHANGED <<ticketVars, pTicket, instanceVars, present, pending, stage,
                   drainCalls, faults>>

\* Stage 4, the game cannot go on: the state first, by an UPDATE that names
\* the session only, then cancelForInstance.
FailRow(s, i) ==
    /\ <<"fail", s, i>> \in rows /\ ~ Midway
    /\ sState' = [sState EXCEPT ![s] = "FAILED"]
    /\ rows' = (rows \ {<<"fail", s, i>>}) \cup {<<"cancelTransfers", s, i>>}
    /\ UNCHANGED <<ticketVars, sInst, sAcq, sStale, rosterVars, instanceVars,
                   present, pending, stage, drainCalls, faults>>

CancelTransfersRow(s, i) ==
    /\ <<"cancelTransfers", s, i>> \in rows
    /\ pending' = PendingNotTo(i)
    /\ rows' = rows \ {<<"cancelTransfers", s, i>>}
    /\ UNCHANGED <<ticketVars, sessionVars, rosterVars, instanceVars, present,
                   stage, drainCalls, faults>>

\* The drain of a session cancelled in stage 3, and stage 5,
\* releaseTerminalReservations.
DrainRow(i) ==
    /\ <<"drain", 0, i>> \in rows
    /\ BeginDrain(i)
    /\ rows' = rows \ {<<"drain", 0, i>>}
    /\ UNCHANGED <<ticketVars, sessionVars, rosterVars, present, pending, stage,
                   drainCalls, faults>>

\* Stage 6, finishDrainingInstances.
StopRow(i) ==
    /\ <<"stop", 0, i>> \in rows
    /\ BeginStop(i)
    /\ rows' = rows \ {<<"stop", 0, i>>}
    /\ UNCHANGED <<ticketVars, sessionVars, rosterVars, present, pending, stage,
                   drainCalls, faults>>

-----------------------------------------------------------------------------
(* Time and restarts                                                       *)

AcquisitionDeadlinePasses(s) ==
    /\ sAcq[s] = "set"
    /\ sAcq' = [sAcq EXCEPT ![s] = "due"]
    /\ UNCHANGED <<ticketVars, sState, sInst, sStale, rosterVars, instanceVars,
                   present, pending, memoryVars>>

LobbyStaleDeadlinePasses(s) ==
    /\ sStale[s] = "set"
    /\ sStale' = [sStale EXCEPT ![s] = "due"]
    /\ UNCHANGED <<ticketVars, sState, sInst, sAcq, rosterVars, instanceVars,
                   present, pending, memoryVars>>

\* The process restarts: the tables stay, what it was about to do is lost.
Crash ==
    /\ faults < MaxFaults
    /\ faults' = faults + 1
    /\ stage' = 3
    /\ rows' = {}
    /\ drainCalls' = {}
    /\ UNCHANGED <<ticketVars, sessionVars, rosterVars, instanceVars, present,
                   pending>>

-----------------------------------------------------------------------------

Queue ==
    \/ \E t \in Tickets, g \in Parties, P \in SUBSET Players : Enqueue(t, g, P)
    \/ \E g \in Parties : LeaveParty(g)
    \/ \E p \in Players : NetworkDisconnected(p)

Matchmaker ==
    \/ \E s \in Sessions, i \in Instances : AssignWaiting(s, i)
    \/ \E s \in Sessions : ReturnToForming(s)
    \/ \E t \in Tickets, s \in Sessions, reservation \in Instances \cup {NoInstance} :
            AttachTicket(t, s, reservation)

Paper ==
    \E i \in Instances :
        \/ \E p \in Players : PlayerJoined(i, p)
        \/ Heartbeat(i)
        \/ \E p \in Players : PlayerLeft(i, p)
        \/ \E p \in Players : PlayerEliminated(i, p)
        \/ GameStarting(i)
        \/ GameStarted(i)
        \/ GameCancelled(i)
        \/ GameFinished(i)

Lifecycle ==
    \/ \E i \in Instances :
        \/ MarkReady(i)
        \/ FailInstance(i)
        \/ PaperDrain(i)
        \/ ReleaseIdle(i)
        \/ ReconcileStop(i)
        \/ FinishStop(i)
        \/ CleanupReset(i)
    \/ \E c \in pending : CloseTransfer(c)

TickStep ==
    \/ NextStage
    \/ \E s \in Sessions : CancelRow(s) \/ WaitRow(s)
    \/ \E s \in Sessions, i \in Instances :
        \/ RequeueRow(s, i)
        \/ ResetRow(s, i)
        \/ FailRow(s, i)
        \/ CancelTransfersRow(s, i)
    \/ \E i \in Instances : DrainRow(i) \/ StopRow(i)

Expiry ==
    \/ \E s \in Sessions, P \in SUBSET Players : ExpireTransfers(s, P)
    \/ \E i \in Instances, p \in Players : ExpirePresence(i, p)

Time ==
    \E s \in Sessions : AcquisitionDeadlinePasses(s) \/ LobbyStaleDeadlinePasses(s)

Faults == StageFails \/ Crash

Next == Queue \/ Matchmaker \/ Paper \/ Lifecycle \/ TickStep \/ Expiry \/ Time
        \/ Faults

Spec == Init /\ [][Next]_vars

\* The scheduler calls SessionController.tick and the reconciler again and
\* again, each skips a call while the last one runs, and a handler that has
\* committed goes on to its drain unless the process dies.  Deadlines pass.
\* Nothing is assumed of players, games, instances or the matchmaker.
Fairness ==
    /\ WF_vars(NextStage)
    /\ \A s \in Sessions :
        /\ WF_vars(CancelRow(s))
        /\ WF_vars(WaitRow(s))
        /\ WF_vars(AcquisitionDeadlinePasses(s))
        /\ WF_vars(LobbyStaleDeadlinePasses(s))
        /\ \A i \in Instances : /\ WF_vars(RequeueRow(s, i))
                                /\ WF_vars(ResetRow(s, i))
                                /\ WF_vars(FailRow(s, i))
                                /\ WF_vars(CancelTransfersRow(s, i))
    /\ \A i \in Instances :
        /\ WF_vars(DrainRow(i))
        /\ WF_vars(StopRow(i))
        /\ WF_vars(ReconcileStop(i))
        /\ WF_vars(FinishStop(i))
        /\ WF_vars(PaperDrain(i))

FairSpec == Spec /\ Fairness

-----------------------------------------------------------------------------
(* What makes sessions and reservations correct                            *)

\* The two halves of a reservation, game_sessions.instance_id and
\* server_instances.session_id, written by different statements of different
\* services, never disagree: a session before its transfer has no instance, one
\* being played has one, the instance it has is reserved for it, and a reserved
\* instance that has not failed is the instance of its session.
AssignmentConsistent ==
    /\ \A s \in Sessions :
        /\ sState[s] \in {"NONE", "FORMING", "WAITING_FOR_INSTANCE"}
                => sInst[s] = NoInstance
        /\ sState[s] \in {"TRANSFERRING", "WAITING", "FINISHED"} \cup Started
                => sInst[s] # NoInstance
        /\ sInst[s] # NoInstance
                => iSession[sInst[s]] = s /\ avail[sInst[s]] = "RESERVED"
    /\ \A i \in Instances :
        iSession[i] # 0 /\ ~ failed[i] => sInst[iSession[i]] = i

\* beginDrain, whoever calls it and however old the reason, never takes the
\* instance of a session that is not over; only failure and the reset of a
\* revision do.
DrainOnlyTerminal ==
    \A i \in Instances :
        /\ ~ failed[i] /\ iSession[i] # 0
        /\ life[i] \in {"DRAINING", "STOPPING"}
        => sState[iSession[i]] \in Terminal

\* GAME_STARTING closes the roster and the doors at once: while a game is
\* starting, played or finished nobody is still on the way to it and no
\* command that would bring anybody is pending.
GameClosed ==
    \A s \in Sessions :
        sState[s] \in Started \cup {"FINISHED"} =>
            /\ \A p \in Players : pState[s][p] \in {"NONE", "CONNECTED", "LEFT"}
            /\ \A c \in pending : c[1] # s

\* A pending command only ever moves players to an instance reserved for their
\* session, also after the session lost that instance.
CommandsStayHome == \A c \in pending : iSession[c[2]] = c[1]

\* What recoverFailedInstances read before it began is still so when it acts:
\* the session has the failed instance of the snapshot, and no other row of
\* the pass is about that session.  Its UPDATEs, which name the session and
\* test nothing, rely on this.
RecoveryCurrent ==
    \A r \in rows : r[1] \in {"requeue", "reset", "fail"} =>
        /\ r[2] \in Sessions /\ r[3] \in Instances
        /\ failed[r[3]] /\ sInst[r[2]] = r[3]
        /\ \A q \in rows : q[1] \in {"requeue", "reset", "fail"} /\ q[2] = r[2]
                            => q = r

\* What a reservation sees of an instance.  One that has failed is stopped later,
\* and remains failed for the session that had it.
PhaseOf(i) ==
    IF failed[i] THEN "failed"
    ELSE CASE life[i] = "STARTING" -> "starting"
           [] life[i] = "RUNNING" -> "serving"
           [] life[i] \in {"DRAINING", "STOPPING"} -> "leaving"
           [] OTHER -> "gone"

Over == { s \in Sessions : sState[s] \in Terminal }

\* Whatever queue, matchmaker, games, drains, reconciler and session tick do to the
\* rows, in whatever order and from whatever snapshot, an instance serves one session,
\* as long as that is not over, and never a second one; and a session gives up an
\* instance only when that has failed.
R == INSTANCE Reservations
        WITH NoSession <- 0, phase <- [i \in Instances |-> PhaseOf(i)],
             holder <- iSession, lease <- sInst, over <- Over

ImplementsReservations == R!Spec

\* Players leave a game that has begun; nobody comes back into one, whatever
\* late joins and heartbeats are delivered.
GameOnlyShrinks ==
    [][\A s \in Sessions :
        sState[s] \in Started /\ sState'[s] \in Started
            => ActiveIn(pState'[s]) \subseteq Active(s)]_vars

\* An instance whose session is over, and that is neither stopped nor failed.
Lingering(i) ==
    /\ iSession[i] # 0
    /\ sState[iSession[i]] \in Terminal
    /\ life[i] # "STOPPED" /\ ~ failed[i]

\* A session that is not over and whose instance has failed.
Stranded(s) ==
    /\ sState[s] \notin Terminal
    /\ sInst[s] # NoInstance
    /\ failed[sInst[s]]

\* Nothing is left behind for ever: the instance of a session that is over is
\* drained and stopped, even when the process dies between the commit and the
\* drain, and a session whose instance failed gets away from it or is over,
\* whether the reconciler or the recovery comes to the instance first.
NothingLeftBehind ==
    (\E i \in Instances : Lingering(i)) \/ (\E s \in Sessions : Stranded(s))
        ~> /\ \A i \in Instances : ~ Lingering(i)
           /\ \A s \in Sessions : ~ Stranded(s)

\* No lobby lasts for ever: a session that asked for an instance gets to a
\* game, is cancelled or fails, or goes back to FORMING for want of players.
LobbiesEnd ==
    \A s \in Sessions :
        sState[s] \in {"WAITING_FOR_INSTANCE", "TRANSFERRING", "WAITING"}
            ~> sState[s] \notin {"WAITING_FOR_INSTANCE", "TRANSFERRING", "WAITING"}
=============================================================================
