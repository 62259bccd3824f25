------------------------- MODULE GameSessionsProofs -------------------------
(***************************************************************************)
(* Proofs about GameSessions, for every number of players, instances,      *)
(* tickets, sessions and faults, and every team policy.                    *)
(***************************************************************************)
EXTENDS GameSessions, TLAPS

-----------------------------------------------------------------------------
(* Rosters                                                                 *)

\* The roster updates of the services keep every player's state in its type.
LEMMA RosterTypes ==
    ASSUME NEW r \in [Players -> PlayerStates]
    PROVE  /\ \A P : MarkLeft(r, P) \in [Players -> PlayerStates]
           /\ MarkTransferring(r) \in [Players -> PlayerStates]
           /\ DropAbsent(r) \in [Players -> PlayerStates]
  BY DEF MarkLeft, MarkTransferring, DropAbsent, PlayerStates

\* The empty tables are well typed.
LEMMA TypeInit == Init => TypeOK
  <1>1. (CHOOSE g \in Parties : TRUE) \in Parties
    BY PartiesAssumption
  <1> QED
    BY <1>1, BoundsAssumption DEF Init, TypeOK, PlayerStates, Deadline, Stages, PreStart,
        Started, Terminal, Sessions, Tickets

\* enqueue, leaveParty and networkDisconnected keep the types.
LEMMA TypeQueue == TypeOK /\ Queue => TypeOK'
  <1> SUFFICES ASSUME TypeOK, Queue PROVE TypeOK'
    OBVIOUS
  <1>1. ASSUME NEW t \in Tickets, NEW g \in Parties, NEW P \in SUBSET Players,
               Enqueue(t, g, P)
        PROVE  TypeOK'
    BY <1>1 DEF TypeOK, Enqueue, sessionVars, rosterVars, instanceVars, memoryVars
  <1>2. ASSUME NEW t \in Tickets, CancelTicket(t)
        PROVE  TypeOK'
    <2>1. CASE tSession[t] = 0
      BY <1>2, <2>1 DEF TypeOK, CancelTicket, sessionVars, rosterVars, instanceVars, memoryVars
    <2>2. CASE tSession[t] \in Sessions
      <3> DEFINE s == tSession[t]
                 leaving == IF s = 0 THEN {} ELSE { p \in Active(s) : pTicket[s][p] = t }
                 roster == MarkLeft(pState[s], leaving)
                 back == sState[s] = "WAITING_FOR_INSTANCE" /\ ~ Eligible(roster, pTicket[s])
      <3>1. roster \in [Players -> PlayerStates]
        BY <2>2, RosterTypes DEF TypeOK
      <3> HIDE DEF roster, back
      <3>2. CASE leaving = {}
        BY <1>2, <3>2 DEF TypeOK, CancelTicket, sessionVars, rosterVars, instanceVars, memoryVars
      <3>3. CASE leaving # {}
        <4>1. /\ pState' = [pState EXCEPT ![s] = roster]
              /\ sState' = [sState EXCEPT ![s] =
                                IF ActiveIn(roster) = {} THEN "CANCELLED"
                                ELSE IF back THEN "FORMING" ELSE @]
              /\ sAcq' = [sAcq EXCEPT ![s] = IF back THEN "none" ELSE @]
              /\ sStale' = [sStale EXCEPT ![s] = IF back THEN "none" ELSE @]
          BY <1>2, <3>3 DEF CancelTicket, roster, back
        <4>2. sState' \in [Sessions -> {"NONE"} \cup PreStart \cup Started \cup Terminal]
          BY <2>2, <4>1 DEF TypeOK, PreStart, Terminal
        <4>3. sAcq' \in [Sessions -> Deadline] /\ sStale' \in [Sessions -> Deadline]
          BY <2>2, <4>1 DEF TypeOK, Deadline
        <4>4. pState' \in [Sessions -> [Players -> PlayerStates]]
          BY <2>2, <3>1, <4>1 DEF TypeOK
        <4> QED
          BY <1>2, <3>3, <4>2, <4>3, <4>4 DEF TypeOK, CancelTicket, instanceVars, memoryVars
      <3> QED
        BY <3>2, <3>3
    <2> QED
      BY <2>1, <2>2 DEF TypeOK
  <1>3. ASSUME NEW p \in Players, NetworkDisconnected(p)
        PROVE  TypeOK'
    <2>1. CASE \E t \in Tickets : CancelTicket(t)
      BY <1>2, <2>1
    <2>2. CASE ~ \E t \in Tickets : CancelTicket(t)
      <3>1. /\ pState' = [s \in Sessions |-> IF sState[s] \in Terminal THEN pState[s]
                                             ELSE MarkLeft(pState[s], {p})]
            /\ UNCHANGED <<ticketVars, sessionVars, pTicket, instanceVars, present,
                           pending, memoryVars>>
        BY <1>3, <2>2 DEF NetworkDisconnected
      <3>2. pState' \in [Sessions -> [Players -> PlayerStates]]
        BY <3>1, RosterTypes DEF TypeOK
      <3> QED
        BY <3>1, <3>2 DEF TypeOK, ticketVars, sessionVars, instanceVars, memoryVars
    <2> QED
      BY <2>1, <2>2
  <1> QED
    BY <1>1, <1>2, <1>3 DEF Queue, LeaveParty

\* The steps of the matchmaker's pass keep the types.
LEMMA TypeMatchmaker == TypeOK /\ Matchmaker => TypeOK'
  <1> SUFFICES ASSUME TypeOK, Matchmaker PROVE TypeOK'
    OBVIOUS
  <1>1. ASSUME NEW s \in Sessions, NEW i \in Instances,
               NEW roster \in [Players -> PlayerStates],
               NEW states, NEW sessions,
               StartSessionTransfers(s, i, roster, states, sessions)
        PROVE  /\ avail' \in [Instances -> {"OPEN", "RESERVED"}]
               /\ iSession' \in [Instances -> Sessions \cup {0}]
               /\ sState' \in [Sessions -> {"NONE"} \cup PreStart \cup Started \cup Terminal]
               /\ sInst' \in [Sessions -> Instances \cup {NoInstance}]
               /\ sAcq' \in [Sessions -> Deadline]
               /\ sStale' \in [Sessions -> Deadline]
               /\ tStarted' \in [Tickets -> BOOLEAN]
               /\ pState' \in [Sessions -> [Players -> PlayerStates]]
               /\ pending' \in SUBSET (Sessions \X Instances)
               /\ UNCHANGED <<life, failed>>
    <2>1. MarkTransferring(roster) \in [Players -> PlayerStates]
      BY RosterTypes
    <2> QED
      BY <1>1, <2>1 DEF TypeOK, StartSessionTransfers, PreStart, Deadline
  <1>2. ASSUME NEW s \in Sessions, NEW i \in Instances, AssignWaiting(s, i)
        PROVE  TypeOK'
    <2>1. pState[s] \in [Players -> PlayerStates]
      BY DEF TypeOK
    <2>2. StartSessionTransfers(s, i, pState[s], tState, tSession)
      BY <1>2 DEF AssignWaiting
    <2> QED
      BY <1>1, <1>2, <2>1, <2>2 DEF TypeOK, AssignWaiting, memoryVars
  <1>3. ASSUME NEW s \in Sessions, ReturnToForming(s)
        PROVE  TypeOK'
    BY <1>3 DEF TypeOK, ReturnToForming, PreStart, Deadline, ticketVars, rosterVars,
        instanceVars, memoryVars
  <1>4. ASSUME NEW t \in Tickets, NEW s \in Sessions,
               NEW reservation \in Instances \cup {NoInstance},
               AttachTicket(t, s, reservation)
        PROVE  TypeOK'
    <2> DEFINE roster == [p \in Players |->
                            IF p \in tMembers[t] THEN "SELECTED" ELSE pState[s][p]]
               tickets == [p \in Players |->
                            IF p \in tMembers[t] THEN t ELSE pTicket[s][p]]
               states == [tState EXCEPT ![t] = "SELECTED"]
               sessions == [tSession EXCEPT ![t] = s]
               dispatch == sState[s] \in {"NONE", "FORMING"} /\ Eligible(roster, tickets)
    <2>1. roster \in [Players -> PlayerStates] /\ tickets \in [Players -> Tickets \cup {0}]
      BY DEF TypeOK, PlayerStates
    <2>2. /\ tState' \in [Tickets -> {"NONE", "QUEUED", "SELECTED", "LEFT"}]
          /\ tSession' \in [Tickets -> Sessions \cup {0}]
          /\ pTicket' \in [Sessions -> [Players -> Tickets \cup {0}]]
          /\ UNCHANGED <<tParty, tMembers, present, memoryVars>>
      BY <1>4, <2>1 DEF TypeOK, AttachTicket
    <2>3. CASE /\ sInst[s] # NoInstance
               /\ tStarted' = [tStarted EXCEPT ![t] = TRUE]
               /\ pState' = [pState EXCEPT ![s] =
                    [p \in Players |-> IF p \in tMembers[t] THEN "TRANSFERRING"
                                       ELSE roster[p]]]
               /\ pending' = pending \cup {<<s, sInst[s]>>}
               /\ UNCHANGED <<sessionVars, instanceVars>>
      <3>1. pState' \in [Sessions -> [Players -> PlayerStates]]
        BY <2>1, <2>3 DEF TypeOK, PlayerStates
      <3> QED
        BY <2>2, <2>3, <3>1 DEF TypeOK, sessionVars, instanceVars, memoryVars
    <2>4. CASE /\ reservation \in Reservable
               /\ StartSessionTransfers(s, reservation, roster, states, sessions)
      BY <1>1, <2>1, <2>2, <2>4 DEF TypeOK, Reservable, memoryVars
    <2>5. CASE /\ pState' = [pState EXCEPT ![s] = roster]
               /\ sState' = [sState EXCEPT ![s] =
                    IF dispatch THEN "WAITING_FOR_INSTANCE"
                    ELSE IF @ = "NONE" THEN "FORMING" ELSE @]
               /\ sAcq' = [sAcq EXCEPT ![s] = IF dispatch THEN "set" ELSE @]
               /\ sStale' = [sStale EXCEPT ![s] = IF dispatch THEN "none" ELSE @]
               /\ UNCHANGED <<sInst, tStarted, instanceVars, pending>>
      <3> HIDE DEF dispatch, roster
      <3>1. sState' \in [Sessions -> {"NONE"} \cup PreStart \cup Started \cup Terminal]
        BY <2>5 DEF TypeOK, PreStart
      <3>2. sAcq' \in [Sessions -> Deadline] /\ sStale' \in [Sessions -> Deadline]
        BY <2>5 DEF TypeOK, Deadline
      <3>3. pState' \in [Sessions -> [Players -> PlayerStates]]
        BY <2>1, <2>5 DEF TypeOK
      <3> QED
        BY <2>2, <2>5, <3>1, <3>2, <3>3 DEF TypeOK, instanceVars, memoryVars
    <2> QED
      BY <1>4, <2>3, <2>4, <2>5 DEF AttachTicket
  <1> QED
    BY <1>2, <1>3, <1>4 DEF Matchmaker

\* The handlers of Paper events keep the types.
LEMMA TypePaper == TypeOK /\ Paper => TypeOK'
  <1> SUFFICES ASSUME TypeOK, NEW i \in Instances,
                      \/ \E p \in Players : PlayerJoined(i, p)
                      \/ Heartbeat(i)
                      \/ \E p \in Players : PlayerLeft(i, p)
                      \/ \E p \in Players : PlayerEliminated(i, p)
                      \/ GameStarting(i)
                      \/ GameStarted(i)
                      \/ GameCancelled(i)
                      \/ GameFinished(i)
               PROVE  TypeOK'
    BY DEF Paper
  <1> USE DEF ticketVars, sessionVars, rosterVars, instanceVars, memoryVars
  <1>0. \A s \in Sessions, P \in SUBSET Players :
            /\ MarkLeft(pState[s], P) \in [Players -> PlayerStates]
            /\ DropAbsent(pState[s]) \in [Players -> PlayerStates]
    BY RosterTypes DEF TypeOK
  <1>1. ASSUME NEW P \in SUBSET Players, Observe(i, P)
        PROVE  TypeOK'
    <2>1. pState' \in [Sessions -> [Players -> PlayerStates]]
      BY <1>1 DEF TypeOK, Observe, PlayerStates
    <2> QED
      BY <1>1, <2>1 DEF TypeOK, Observe
  <1>2. ASSUME NEW p \in Players, PlayerLeft(i, p)
        PROVE  TypeOK'
    BY <1>0, <1>2 DEF TypeOK, PlayerLeft
  <1>3. ASSUME NEW p \in Players, PlayerEliminated(i, p)
        PROVE  TypeOK'
    BY <1>0, <1>3 DEF TypeOK, PlayerEliminated
  <1>4. ASSUME GameStarting(i) PROVE TypeOK'
    BY <1>0, <1>4 DEF TypeOK, GameStarting, PendingWithout, Started
  <1>5. ASSUME GameStarted(i) PROVE TypeOK'
    BY <1>5 DEF TypeOK, GameStarted, Started
  <1>6. ASSUME GameCancelled(i) PROVE TypeOK'
    <2>1. sState' \in [Sessions -> {"NONE"} \cup PreStart \cup Started \cup Terminal]
      BY <1>6 DEF TypeOK, GameCancelled, Terminal
    <2>2. pState' = [pState EXCEPT ![iSession[i]] = DropAbsent(@)] \/ pState' = pState
      BY <1>6 DEF GameCancelled
    <2>3. pState' \in [Sessions -> [Players -> PlayerStates]]
      <3>1. pState \in [Sessions -> [Players -> PlayerStates]]
        BY DEF TypeOK
      <3> QED
        BY <1>0, <2>2, <3>1
    <2>4. pending' \in SUBSET (Sessions \X Instances)
      BY <1>6 DEF TypeOK, GameCancelled, PendingWithout
    <2> QED
      BY <1>6, <2>1, <2>3, <2>4 DEF TypeOK, GameCancelled
  <1>7. ASSUME GameFinished(i) PROVE TypeOK'
    BY <1>7 DEF TypeOK, GameFinished, Terminal
  <1> QED
    BY <1>1, <1>2, <1>3, <1>4, <1>5, <1>6, <1>7 DEF PlayerJoined, Heartbeat

\* Ready, fail, drain, stop and the end of a command keep the types.
LEMMA TypeLifecycle == TypeOK /\ Lifecycle => TypeOK'
  <1> SUFFICES ASSUME TypeOK, Lifecycle PROVE TypeOK'
    OBVIOUS
  <1> USE DEF ticketVars, sessionVars, rosterVars, instanceVars, memoryVars
  <1>1. ASSUME NEW i \in Instances, \/ MarkReady(i) \/ FailInstance(i)
                              \/ FinishStop(i) \/ CleanupReset(i)
        PROVE  TypeOK'
    BY <1>1 DEF TypeOK, MarkReady, FailInstance, FinishStop, CleanupReset
  <1>2. ASSUME NEW i \in Instances, PaperDrain(i) \/ ReleaseIdle(i)
        PROVE  TypeOK'
    BY <1>2 DEF TypeOK, PaperDrain, ReleaseIdle, BeginDrain
  <1>3. ASSUME NEW i \in Instances, ReconcileStop(i)
        PROVE  TypeOK'
    BY <1>3 DEF TypeOK, ReconcileStop, BeginStop
  <1>4. ASSUME NEW c \in pending, CloseTransfer(c)
        PROVE  TypeOK'
    BY <1>4 DEF TypeOK, CloseTransfer
  <1> QED
    BY <1>1, <1>2, <1>3, <1>4 DEF Lifecycle

\* The stages of SessionController.tick keep the types.
LEMMA TypeTick == TypeOK /\ TickStep => TypeOK'
  <1> SUFFICES ASSUME TypeOK, TickStep PROVE TypeOK'
    OBVIOUS
  <1> USE DEF ticketVars, sessionVars, rosterVars, instanceVars, memoryVars
  <1>1. CASE NextStage
    <2>1. stage' \in Stages
      BY <1>1 DEF NextStage, TypeOK, Stages
    <2>2. PICK late \in SUBSET Instances : rows' = Snapshot(stage', late)
      BY <1>1 DEF NextStage
    <2>3. \A s \in Sessions : sInst[s] \in Instances \cup {NoInstance}
      BY DEF TypeOK
    <2>4. Lost \subseteq Sessions /\ Overdue \subseteq Sessions /\ Consumed \subseteq Instances
      BY DEF Lost, Overdue, Consumed
    <2>5. stage' = 3 \/ stage' = 4 \/ stage' = 5 \/ stage' = 6
      BY <2>1 DEF Stages
    <2>6. Snapshot(stage', late) \subseteq Rows
      <3>1. CASE stage' = 3
        BY <3>1, <2>4 DEF Snapshot, Rows
      <3>2. CASE stage' = 4
        BY <3>2, <2>3, <2>4 DEF Snapshot, Rows
      <3>3. CASE stage' = 5
        BY <3>3, <2>4 DEF Snapshot, Rows
      <3>4. CASE stage' = 6
        BY <3>4 DEF Snapshot, Rows
      <3> QED
        BY <2>5, <3>1, <3>2, <3>3, <3>4
    <2> QED
      BY <1>1, <2>1, <2>2, <2>6 DEF NextStage, TypeOK
  <1>2. ASSUME NEW s \in Sessions, CancelRow(s)
        PROVE  TypeOK'
    <2>1. sInst[s] \in Instances \cup {NoInstance}
      BY DEF TypeOK
    <2>2. rows' \in SUBSET Rows
      BY <1>2, <2>1 DEF TypeOK, CancelRow, Rows
    <2> QED
      BY <1>2, <2>2 DEF TypeOK, CancelRow, PendingWithout, Terminal
  <1>3. ASSUME NEW s \in Sessions, WaitRow(s)
        PROVE  TypeOK'
    BY <1>3 DEF TypeOK, WaitRow, PreStart
  <1>4. ASSUME NEW s \in Sessions, NEW i \in Instances, RequeueRow(s, i)
        PROVE  TypeOK'
    <2>1. rows' \in SUBSET Rows
      BY <1>4 DEF TypeOK, RequeueRow, Rows
    <2> QED
      BY <1>4, <2>1 DEF TypeOK, RequeueRow, PendingNotTo
  <1>5. ASSUME NEW s \in Sessions, NEW i \in Instances, ResetRow(s, i)
        PROVE  TypeOK'
    <2>1. pState' \in [Sessions -> [Players -> PlayerStates]]
      BY <1>5 DEF TypeOK, ResetRow, PlayerStates
    <2> QED
      BY <1>5, <2>1 DEF TypeOK, ResetRow, PreStart, Deadline
  <1>6. ASSUME NEW s \in Sessions, NEW i \in Instances, FailRow(s, i)
        PROVE  TypeOK'
    <2>1. rows' \in SUBSET Rows
      BY <1>6 DEF TypeOK, FailRow, Rows
    <2> QED
      BY <1>6, <2>1 DEF TypeOK, FailRow, Terminal
  <1>7. ASSUME NEW s \in Sessions, NEW i \in Instances, CancelTransfersRow(s, i)
        PROVE  TypeOK'
    BY <1>7 DEF TypeOK, CancelTransfersRow, PendingNotTo
  <1>8. ASSUME NEW i \in Instances, DrainRow(i) \/ StopRow(i)
        PROVE  TypeOK'
    BY <1>8 DEF TypeOK, DrainRow, StopRow, BeginDrain, BeginStop
  <1> QED
    BY <1>1, <1>2, <1>3, <1>4, <1>5, <1>6, <1>7, <1>8 DEF TickStep

\* Expiry, the passing of deadlines and faults keep the types.
LEMMA TypeEnvironment == TypeOK /\ (Expiry \/ Time \/ Faults) => TypeOK'
  <1> SUFFICES ASSUME TypeOK, Expiry \/ Time \/ Faults PROVE TypeOK'
    OBVIOUS
  <1> USE DEF ticketVars, sessionVars, rosterVars, instanceVars, memoryVars
  <1>0. \A s \in Sessions, P \in SUBSET Players :
            MarkLeft(pState[s], P) \in [Players -> PlayerStates]
    BY RosterTypes DEF TypeOK
  <1>1. ASSUME NEW s \in Sessions, NEW P \in SUBSET Players, ExpireTransfers(s, P)
        PROVE  TypeOK'
    BY <1>0, <1>1 DEF TypeOK, ExpireTransfers
  <1>2. ASSUME NEW i \in Instances, NEW p \in Players, ExpirePresence(i, p)
        PROVE  TypeOK'
    <2>1. pState' \in [Sessions -> [Players -> PlayerStates]]
      BY <1>0, <1>2 DEF TypeOK, ExpirePresence
    <2> QED
      BY <1>2, <2>1 DEF TypeOK, ExpirePresence
  <1>3. ASSUME NEW s \in Sessions, AcquisitionDeadlinePasses(s) \/ LobbyStaleDeadlinePasses(s)
        PROVE  TypeOK'
    BY <1>3 DEF TypeOK, AcquisitionDeadlinePasses, LobbyStaleDeadlinePasses, Deadline
  <1>4. ASSUME Crash \/ StageFails PROVE TypeOK'
    BY <1>4, BoundsAssumption DEF TypeOK, Crash, StageFails, Stages
  <1> QED
    BY <1>1, <1>2, <1>3, <1>4 DEF Expiry, Time, Faults

\* Every step keeps the types.
LEMMA TypeStep == TypeOK /\ [Next]_vars => TypeOK'
  <1> SUFFICES ASSUME TypeOK, [Next]_vars PROVE TypeOK'
    OBVIOUS
  <1>1. CASE UNCHANGED vars
    BY <1>1 DEF TypeOK, vars, ticketVars, sessionVars, rosterVars, instanceVars,
        memoryVars
  <1> QED
    BY <1>1, TypeQueue, TypeMatchmaker, TypePaper, TypeLifecycle, TypeTick,
        TypeEnvironment DEF Next

\* Every row and every piece of memory keeps its type.
THEOREM TypeCorrect == Spec => []TypeOK
  BY TypeInit, TypeStep, PTL DEF Spec

-----------------------------------------------------------------------------
(* Reservations                                                            *)

\* availability_state and session_id of an instance are written together.
ReservedTogether == \A i \in Instances : avail[i] = "OPEN" <=> iSession[i] = 0

\* An instance becomes FAILED only together with its failure_reason.
FailedHaveReason == \A i \in Instances : life[i] = "FAILED" => failed[i]

\* The inductive invariant: what the recovery of failed instances relies on,
\* and what reservation, drain and commands keep true for it.
ReservationInv ==
    /\ AssignmentConsistent
    /\ DrainOnlyTerminal
    /\ CommandsStayHome
    /\ RecoveryCurrent
    /\ ReservedTogether
    /\ FailedHaveReason

Recovers(r) == r[1] \in {"requeue", "reset", "fail"}

\* What most steps do with the state of a session: end it, or move it among
\* the states that fit the instance it has or has not.
Settles(s) ==
    \/ sState'[s] = sState[s]
    \/ sState'[s] \in {"CANCELLED", "FAILED"}
    \/ /\ sState[s] \notin Terminal /\ sInst[s] # NoInstance
       /\ sState'[s] \in {"TRANSFERRING", "WAITING", "FINISHED"} \cup Started
    \/ /\ sState[s] \notin Terminal /\ sInst[s] = NoInstance
       /\ sState'[s] \in {"FORMING", "WAITING_FOR_INSTANCE"}

\* A step that reserves nothing, adds no command and no recovery, and only
\* settles sessions keeps the invariant.
LEMMA Frame ==
    ASSUME TypeOK, ReservationInv,
           UNCHANGED <<sInst, instanceVars>>,
           \A s \in Sessions : Settles(s),
           pending' \subseteq pending,
           \A r \in rows' : Recovers(r) => r \in rows
    PROVE  ReservationInv'
  <1> USE DEF ReservationInv, instanceVars
  <1>1. AssignmentConsistent'
    BY DEF AssignmentConsistent, Settles, Started, Terminal
  <1>2. DrainOnlyTerminal'
    BY DEF TypeOK, DrainOnlyTerminal, Settles, Started, Terminal
  <1>3. CommandsStayHome'
    BY DEF CommandsStayHome
  <1>4. RecoveryCurrent'
    BY DEF RecoveryCurrent, Recovers
  <1>5. ReservedTogether' /\ FailedHaveReason'
    BY DEF ReservedTogether, FailedHaveReason
  <1> QED
    BY <1>1, <1>2, <1>3, <1>4, <1>5

\* The invariant holds of the empty tables.
LEMMA ReservationInit == Init => ReservationInv
  <1> SUFFICES ASSUME Init PROVE ReservationInv
    OBVIOUS
  <1> QED
    BY DEF Init, ReservationInv, AssignmentConsistent, DrainOnlyTerminal, CommandsStayHome,
        RecoveryCurrent, ReservedTogether, FailedHaveReason, Started

\* Queue operations preserve the invariant: they never touch a reservation.
LEMMA ReservationQueue == TypeOK /\ ReservationInv /\ Queue => ReservationInv'
  <1> SUFFICES ASSUME TypeOK, ReservationInv, Queue PROVE ReservationInv'
    OBVIOUS
  <1> USE DEF sessionVars, memoryVars
  <1>1. ASSUME NEW t \in Tickets, NEW g \in Parties, NEW P \in SUBSET Players,
               Enqueue(t, g, P)
        PROVE  ReservationInv'
    BY <1>1, Frame DEF Enqueue, Settles
  <1>2. ASSUME NEW t \in Tickets, CancelTicket(t)
        PROVE  ReservationInv'
    <2>1. UNCHANGED <<sInst, instanceVars, pending, rows>>
      BY <1>2 DEF CancelTicket
    <2>2. ASSUME NEW s \in Sessions PROVE Settles(s)
      <3>1. \/ sState' = sState
            \/ sState' = [sState EXCEPT ![tSession[t]] = "CANCELLED"]
            \/ /\ sState[tSession[t]] = "WAITING_FOR_INSTANCE"
               /\ sState' = [sState EXCEPT ![tSession[t]] = "FORMING"]
        BY <1>2 DEF CancelTicket, TypeOK
      <3> QED
        BY <3>1 DEF Settles, TypeOK, ReservationInv, AssignmentConsistent, Terminal
    <2> QED
      BY <2>1, <2>2, Frame
  <1>3. ASSUME NEW p \in Players, NetworkDisconnected(p)
        PROVE  ReservationInv'
    <2>1. CASE \E t \in Tickets : CancelTicket(t)
      BY <1>2, <2>1
    <2>2. CASE ~ \E t \in Tickets : CancelTicket(t)
      BY <1>3, <2>2, Frame DEF NetworkDisconnected, Settles
    <2> QED
      BY <2>1, <2>2
  <1> QED
    BY <1>1, <1>2, <1>3 DEF Queue, LeaveParty

\* A session without an instance gets one that is free.
LEMMA ReservationStart ==
    ASSUME TypeOK, ReservationInv,
           NEW s \in Sessions, NEW i \in Reservable,
           NEW roster, NEW states, NEW sessions,
           sState[s] \notin Terminal, sInst[s] = NoInstance,
           StartSessionTransfers(s, i, roster, states, sessions),
           UNCHANGED rows
    PROVE  ReservationInv'
  <1> USE DEF ReservationInv
  <1>1. i \in Instances /\ life[i] = "RUNNING" /\ avail[i] = "OPEN" /\ iSession[i] = 0
    BY DEF Reservable, ReservedTogether
  <1>2. /\ avail' = [avail EXCEPT ![i] = "RESERVED"]
        /\ iSession' = [iSession EXCEPT ![i] = s]
        /\ sState' = [sState EXCEPT ![s] = "TRANSFERRING"]
        /\ sInst' = [sInst EXCEPT ![s] = i]
        /\ pending' \subseteq pending \cup {<<s, i>>}
        /\ UNCHANGED <<life, failed>>
    BY DEF StartSessionTransfers
  <1>3. s # 0 /\ 0 \notin Sessions
    BY BoundsAssumption DEF Sessions
  <1>4. \A r \in Sessions : sInst[r] # i
    BY <1>1, <1>3, NoInstanceAssumption DEF AssignmentConsistent
  <1>5. \A j \in Instances : iSession[j] = s => failed[j]
    BY <1>1, <1>3, NoInstanceAssumption DEF AssignmentConsistent
  <1>6. AssignmentConsistent'
    BY <1>1, <1>2, <1>3, <1>4, <1>5, NoInstanceAssumption
        DEF AssignmentConsistent, TypeOK, Started
  <1>7. DrainOnlyTerminal'
    BY <1>1, <1>2, <1>3, <1>5 DEF DrainOnlyTerminal, TypeOK
  <1>8. CommandsStayHome'
    BY <1>1, <1>2, <1>3 DEF CommandsStayHome, TypeOK
  <1>9. RecoveryCurrent'
    BY <1>1, <1>2, NoInstanceAssumption DEF RecoveryCurrent, TypeOK
  <1>10. ReservedTogether' /\ FailedHaveReason'
    BY <1>1, <1>2, <1>3 DEF ReservedTogether, FailedHaveReason, TypeOK
  <1> QED
    BY <1>6, <1>7, <1>8, <1>9, <1>10

\* The matchmaker's pass preserves the invariant.
LEMMA ReservationMatchmaker == TypeOK /\ ReservationInv /\ Matchmaker => ReservationInv'
  <1> SUFFICES ASSUME TypeOK, ReservationInv, Matchmaker PROVE ReservationInv'
    OBVIOUS
  <1> USE DEF memoryVars
  <1>1. ASSUME NEW s \in Sessions, NEW i \in Instances, AssignWaiting(s, i)
        PROVE  ReservationInv'
    <2>1. /\ sState[s] \notin Terminal /\ sInst[s] = NoInstance
          /\ i \in Reservable
          /\ StartSessionTransfers(s, i, pState[s], tState, tSession)
          /\ UNCHANGED rows
      BY <1>1 DEF AssignWaiting, ReservationInv, AssignmentConsistent, Terminal
    <2> QED
      BY <2>1, ReservationStart
  <1>2. ASSUME NEW s \in Sessions, ReturnToForming(s)
        PROVE  ReservationInv'
    <2>1. \A r \in Sessions : Settles(r)
      BY <1>2 DEF ReturnToForming, Settles, TypeOK, ReservationInv, AssignmentConsistent,
          Terminal
    <2> QED
      BY <1>2, <2>1, Frame DEF ReturnToForming
  <1>3. ASSUME NEW t \in Tickets, NEW s \in Sessions,
               NEW reservation \in Instances \cup {NoInstance},
               AttachTicket(t, s, reservation)
        PROVE  ReservationInv'
    <2>1. sState[s] \notin Terminal
      BY <1>3 DEF AttachTicket, TakesTicket, AcceptsTickets, PreStart, Terminal
    <2>2. UNCHANGED rows
      BY <1>3 DEF AttachTicket
    <2>3. CASE sInst[s] # NoInstance
      <3>1. UNCHANGED <<sessionVars, instanceVars>> /\ pending' = pending \cup {<<s, sInst[s]>>}
        BY <1>3, <2>3 DEF AttachTicket
      <3>2. sInst[s] \in Instances /\ iSession[sInst[s]] = s
        BY <2>3 DEF TypeOK, ReservationInv, AssignmentConsistent
      <3>3. CommandsStayHome'
        BY <3>1, <3>2 DEF CommandsStayHome, ReservationInv, instanceVars
      <3> QED
        BY <2>2, <3>1, <3>3 DEF ReservationInv, AssignmentConsistent, DrainOnlyTerminal,
            RecoveryCurrent, ReservedTogether, FailedHaveReason, sessionVars, instanceVars
    <2>4. CASE sInst[s] = NoInstance
      <3>1. CASE \E roster, states, sessions :
                    StartSessionTransfers(s, reservation, roster, states, sessions)
                    /\ reservation \in Reservable
        BY <2>1, <2>2, <2>4, <3>1, ReservationStart
      <3>2. CASE /\ UNCHANGED <<sInst, instanceVars, pending>>
                 /\ \/ sState' = sState
                    \/ sState' = [sState EXCEPT ![s] = "FORMING"]
                    \/ sState' = [sState EXCEPT ![s] = "WAITING_FOR_INSTANCE"]
        <4>1. \A r \in Sessions : Settles(r)
          BY <2>1, <2>4, <3>2 DEF Settles, TypeOK
        <4> QED
          BY <2>2, <3>2, <4>1, Frame
      <3> QED
        BY <1>3, <2>4, <3>1, <3>2 DEF AttachTicket, TypeOK
    <2> QED
      BY <2>3, <2>4
  <1> QED
    BY <1>1, <1>2, <1>3 DEF Matchmaker

\* The handlers of Paper events preserve the invariant.
LEMMA ReservationPaper == TypeOK /\ ReservationInv /\ Paper => ReservationInv'
  <1> SUFFICES ASSUME TypeOK, ReservationInv, NEW i \in Instances,
                      \/ \E p \in Players : PlayerJoined(i, p)
                      \/ Heartbeat(i)
                      \/ \E p \in Players : PlayerLeft(i, p)
                      \/ \E p \in Players : PlayerEliminated(i, p)
                      \/ GameStarting(i)
                      \/ GameStarted(i)
                      \/ GameCancelled(i)
                      \/ GameFinished(i)
               PROVE  ReservationInv'
    BY DEF Paper
  <1> USE DEF sessionVars, memoryVars
  <1>1. ASSUME NEW P \in SUBSET Players, Observe(i, P)
        PROVE  ReservationInv'
    BY <1>1, Frame DEF Observe, Settles
  <1>2. ASSUME NEW p \in Players, PlayerLeft(i, p) \/ PlayerEliminated(i, p)
        PROVE  ReservationInv'
    BY <1>2, Frame DEF PlayerLeft, PlayerEliminated, Settles
  <1>3. ASSUME NEW new \in {"CANCELLED", "STARTING", "RUNNING", "FINISHED"},
               OwnSession(i, iSession[i]),
               sState[iSession[i]] \notin Terminal,
               sState' = [sState EXCEPT ![iSession[i]] = new]
        PROVE  \A s \in Sessions : Settles(s)
    BY <1>3, NoInstanceAssumption DEF OwnSession, Settles, TypeOK, Started
  <1>4. ASSUME GameStarting(i) PROVE ReservationInv'
    <2>1. \A s \in Sessions : Settles(s)
      BY <1>3, <1>4 DEF GameStarting, Terminal
    <2> QED
      BY <1>4, <2>1, Frame DEF GameStarting, PendingWithout
  <1>5. ASSUME GameStarted(i) PROVE ReservationInv'
    <2>1. \A s \in Sessions : Settles(s)
      BY <1>3, <1>5 DEF GameStarted, Terminal
    <2> QED
      BY <1>5, <2>1, Frame DEF GameStarted
  <1>6. ASSUME GameCancelled(i) PROVE ReservationInv'
    <2>1. \A s \in Sessions : Settles(s)
      <3>1. CASE sState' = sState
        BY <3>1 DEF Settles
      <3>2. CASE sState' # sState
        BY <1>3, <1>6, <3>2 DEF GameCancelled, Started, Terminal
      <3> QED
        BY <3>1, <3>2
    <2> QED
      BY <1>6, <2>1, Frame DEF GameCancelled, PendingWithout
  <1>7. ASSUME GameFinished(i) PROVE ReservationInv'
    <2>1. \A s \in Sessions : Settles(s)
      BY <1>3, <1>7 DEF GameFinished, Started, Terminal
    <2> QED
      BY <1>7, <2>1, Frame DEF GameFinished
  <1> QED
    BY <1>1, <1>2, <1>4, <1>5, <1>6, <1>7 DEF PlayerJoined, Heartbeat

\* A step of an instance's own life.
LEMMA ReservationLife ==
    ASSUME TypeOK, ReservationInv, NEW i \in Instances,
           UNCHANGED <<sessionVars, avail, iSession, pending, rows>>,
           \/ life' = life /\ failed' = failed
           \/ /\ life' = [life EXCEPT ![i] = "RUNNING"] /\ failed' = failed
           \/ /\ life' = [life EXCEPT ![i] = "FAILED"]
              /\ failed' = [failed EXCEPT ![i] = TRUE]
           \/ /\ MayDrain(i)
              /\ life' = [life EXCEPT ![i] = "DRAINING"] /\ failed' = failed
           \/ /\ life[i] \in {"DRAINING", "FAILED", "STOPPING"}
              /\ life' = [life EXCEPT ![i] = "STOPPING"] /\ failed' = failed
           \/ /\ life' = [life EXCEPT ![i] = "STOPPED"] /\ failed' = failed
    PROVE  ReservationInv'
  <1> USE DEF ReservationInv, sessionVars
  <1>1. \A j \in Instances : failed[j] => failed'[j]
    BY DEF TypeOK
  <1>2. AssignmentConsistent'
    BY <1>1 DEF AssignmentConsistent, TypeOK
  <1>3. DrainOnlyTerminal'
    <2>1. CASE MayDrain(i) /\ life' = [life EXCEPT ![i] = "DRAINING"] /\ failed' = failed
      BY <2>1 DEF DrainOnlyTerminal, MayDrain, ReservedTogether, TypeOK
    <2> QED
      BY <2>1 DEF DrainOnlyTerminal, FailedHaveReason, TypeOK
  <1>4. CommandsStayHome'
    BY DEF CommandsStayHome
  <1>5. RecoveryCurrent'
    BY <1>1 DEF RecoveryCurrent
  <1>6. ReservedTogether' /\ FailedHaveReason'
    BY DEF ReservedTogether, FailedHaveReason, TypeOK
  <1> QED
    BY <1>2, <1>3, <1>4, <1>5, <1>6

\* Ready, fail, drain and stop preserve the invariant.
LEMMA ReservationLifecycle == TypeOK /\ ReservationInv /\ Lifecycle => ReservationInv'
  <1> SUFFICES ASSUME TypeOK, ReservationInv, Lifecycle PROVE ReservationInv'
    OBVIOUS
  <1> USE DEF memoryVars
  <1>1. ASSUME NEW i \in Instances, \/ MarkReady(i) \/ FailInstance(i)
                              \/ FinishStop(i) \/ CleanupReset(i)
        PROVE  ReservationInv'
    BY <1>1, ReservationLife DEF MarkReady, FailInstance, FinishStop, CleanupReset
  <1>2. ASSUME NEW i \in Instances, PaperDrain(i) \/ ReleaseIdle(i)
        PROVE  ReservationInv'
    BY <1>2, ReservationLife DEF PaperDrain, ReleaseIdle, BeginDrain
  <1>3. ASSUME NEW i \in Instances, ReconcileStop(i)
        PROVE  ReservationInv'
    BY <1>3, ReservationLife DEF ReconcileStop, BeginStop
  <1>4. ASSUME NEW c \in pending, CloseTransfer(c)
        PROVE  ReservationInv'
    BY <1>4, Frame DEF CloseTransfer, sessionVars, Settles
  <1> QED
    BY <1>1, <1>2, <1>3, <1>4 DEF Lifecycle

\* The stages of SessionController.tick preserve the invariant.
LEMMA ReservationTick == TypeOK /\ ReservationInv /\ TickStep => ReservationInv'
  <1> SUFFICES ASSUME TypeOK, ReservationInv, TickStep PROVE ReservationInv'
    OBVIOUS
  <1>1. CASE NextStage
    <2> USE DEF ReservationInv
    <2>1. PICK late \in SUBSET Instances : rows' = Snapshot(stage', late)
      BY <1>1 DEF NextStage
    <2>2. stage' = 3 \/ stage' = 4 \/ stage' = 5 \/ stage' = 6
      BY <1>1 DEF NextStage, TypeOK, Stages
    <2>3. \A s \in Lost : s \in Sessions /\ sInst[s] \in Instances /\ failed[sInst[s]]
      BY DEF Lost, FailedHaveReason, TypeOK
    <2>4. \A r \in rows' : Recovers(r) =>
            \E s \in Lost : r = <<"requeue", s, sInst[s]>> \/ r = <<"fail", s, sInst[s]>>
      <3>1. CASE stage' = 4
        BY <2>1, <3>1 DEF Snapshot, Recovers
      <3>2. CASE stage' = 3
        BY <2>1, <3>2 DEF Snapshot, Recovers
      <3>3. CASE stage' = 5
        BY <2>1, <3>3 DEF Snapshot, Recovers
      <3>4. CASE stage' = 6
        BY <2>1, <3>4 DEF Snapshot, Recovers
      <3> QED
        BY <2>2, <3>1, <3>2, <3>3, <3>4
    <2>5. \A s \in Lost : \A a, b : ~ (/\ <<"requeue", s, a>> \in rows'
                                     /\ <<"fail", s, b>> \in rows')
      <3>1. CASE stage' = 4
        BY <2>1, <3>1 DEF Snapshot
      <3>2. CASE stage' = 3
        BY <2>1, <3>2 DEF Snapshot
      <3>3. CASE stage' = 5
        BY <2>1, <3>3 DEF Snapshot
      <3>4. CASE stage' = 6
        BY <2>1, <3>4 DEF Snapshot
      <3> QED
        BY <2>2, <3>1, <3>2, <3>3, <3>4
    <2>6. UNCHANGED <<sState, sInst, instanceVars, pending>>
      BY <1>1 DEF NextStage, sessionVars
    <2>7. RecoveryCurrent'
      <3> SUFFICES ASSUME NEW r \in rows', Recovers(r)
                   PROVE  /\ r[2] \in Sessions /\ r[3] \in Instances
                          /\ failed'[r[3]] /\ sInst'[r[2]] = r[3]
                          /\ \A q \in rows' : Recovers(q) /\ q[2] = r[2] => q = r
        BY DEF RecoveryCurrent, Recovers
      <3>1. PICK s \in Lost :
                r = <<"requeue", s, sInst[s]>> \/ r = <<"fail", s, sInst[s]>>
        BY <2>4
      <3>2. /\ r[2] \in Sessions /\ r[3] \in Instances
            /\ failed'[r[3]] /\ sInst'[r[2]] = r[3]
        BY <2>3, <2>6, <3>1 DEF instanceVars
      <3>3. ASSUME NEW q \in rows', Recovers(q), q[2] = r[2]
            PROVE  q = r
        <4>1. PICK u \in Lost :
                q = <<"requeue", u, sInst[u]>> \/ q = <<"fail", u, sInst[u]>>
          BY <2>4, <3>3
        <4>2. u = s
          BY <3>1, <3>3, <4>1
        <4> QED
          BY <2>5, <3>1, <4>1, <4>2
      <3> QED
        BY <3>2, <3>3
    <2> QED
      BY <2>6, <2>7 DEF AssignmentConsistent, DrainOnlyTerminal, CommandsStayHome,
          ReservedTogether, FailedHaveReason, instanceVars
  <1>2. ASSUME NEW s \in Sessions, CancelRow(s)
        PROVE  ReservationInv'
    <2>1. \A r \in Sessions : Settles(r)
      BY <1>2 DEF CancelRow, Settles, TypeOK
    <2> QED
      BY <1>2, <2>1, Frame DEF CancelRow, PendingWithout, Recovers
  <1>3. ASSUME NEW s \in Sessions, WaitRow(s)
        PROVE  ReservationInv'
    <2>1. \A r \in Sessions : Settles(r)
      BY <1>3 DEF WaitRow, Settles, TypeOK, ReservationInv, AssignmentConsistent, Terminal
    <2> QED
      BY <1>3, <2>1, Frame DEF WaitRow
  <1>4. ASSUME NEW s \in Sessions, NEW i \in Instances, RequeueRow(s, i)
        PROVE  ReservationInv'
    <2> USE DEF ReservationInv
    <2>1. /\ UNCHANGED <<sessionVars, instanceVars>>
          /\ pending' \subseteq pending
          /\ <<"requeue", s, i>> \in rows
          /\ rows' = (rows \ {<<"requeue", s, i>>}) \cup {<<"reset", s, i>>}
      BY <1>4 DEF RequeueRow, PendingNotTo
    <2>2. failed[i] /\ sInst[s] = i
      BY <2>1 DEF RecoveryCurrent
    <2>3. \A q \in rows : Recovers(q) /\ q[2] = s => q = <<"requeue", s, i>>
      BY <2>1 DEF RecoveryCurrent, Recovers
    <2>4. RecoveryCurrent'
      BY <2>1, <2>2, <2>3 DEF RecoveryCurrent, Recovers, sessionVars, instanceVars
    <2> QED
      BY <2>1, <2>4 DEF AssignmentConsistent, DrainOnlyTerminal, CommandsStayHome,
          ReservedTogether, FailedHaveReason, sessionVars, instanceVars
  <1>5. ASSUME NEW s \in Sessions, NEW i \in Instances, ResetRow(s, i)
        PROVE  ReservationInv'
    <2> USE DEF ReservationInv
    <2>1. /\ sState' = [sState EXCEPT ![s] = "WAITING_FOR_INSTANCE"]
          /\ sInst' = [sInst EXCEPT ![s] = NoInstance]
          /\ UNCHANGED <<instanceVars, pending>>
          /\ <<"reset", s, i>> \in rows
          /\ rows' = rows \ {<<"reset", s, i>>}
      BY <1>5 DEF ResetRow
    <2>2. failed[i] /\ sInst[s] = i
      BY <2>1 DEF RecoveryCurrent
    <2>3. \A j \in Instances : iSession[j] = s /\ ~ failed[j] => FALSE
      BY <2>2, BoundsAssumption DEF AssignmentConsistent, Sessions
    <2>4. AssignmentConsistent'
      BY <2>1, <2>3 DEF AssignmentConsistent, TypeOK, instanceVars, Started
    <2>5. DrainOnlyTerminal'
      BY <2>1, <2>3 DEF DrainOnlyTerminal, TypeOK, instanceVars
    <2>6. \A q \in rows' : Recovers(q) => q[2] # s
      BY <2>1 DEF RecoveryCurrent, Recovers
    <2>7. RecoveryCurrent'
      BY <2>1, <2>6 DEF RecoveryCurrent, Recovers, TypeOK, instanceVars
    <2> QED
      BY <2>1, <2>4, <2>5, <2>7 DEF CommandsStayHome, ReservedTogether, FailedHaveReason,
          instanceVars
  <1>6. ASSUME NEW s \in Sessions, NEW i \in Instances, FailRow(s, i)
        PROVE  ReservationInv'
    <2>1. \A r \in Sessions : Settles(r)
      BY <1>6 DEF FailRow, Settles, TypeOK
    <2> QED
      BY <1>6, <2>1, Frame DEF FailRow, Recovers
  <1>7. ASSUME NEW s \in Sessions, NEW i \in Instances, CancelTransfersRow(s, i)
        PROVE  ReservationInv'
    BY <1>7, Frame DEF CancelTransfersRow, PendingNotTo, Settles, sessionVars
  <1>8. ASSUME NEW i \in Instances, DrainRow(i) \/ StopRow(i)
        PROVE  ReservationInv'
    <2>1. \/ life' = life
          \/ MayDrain(i) /\ life' = [life EXCEPT ![i] = "DRAINING"]
          \/ /\ life[i] \in {"DRAINING", "FAILED", "STOPPING"}
             /\ life' = [life EXCEPT ![i] = "STOPPING"]
      BY <1>8 DEF DrainRow, StopRow, BeginDrain, BeginStop
    <2>2. UNCHANGED <<sessionVars, avail, iSession, failed, pending>>
      BY <1>8 DEF DrainRow, StopRow, BeginDrain, BeginStop
    <2>3. rows' \subseteq rows
      BY <1>8 DEF DrainRow, StopRow
    <2>4. RecoveryCurrent'
      BY <2>2, <2>3 DEF ReservationInv, RecoveryCurrent, sessionVars
    <2>5. DrainOnlyTerminal'
      BY <2>1, <2>2 DEF ReservationInv, DrainOnlyTerminal, MayDrain, ReservedTogether,
          FailedHaveReason, TypeOK, sessionVars
    <2>6. FailedHaveReason'
      BY <2>1, <2>2 DEF ReservationInv, FailedHaveReason, TypeOK
    <2> QED
      BY <2>2, <2>4, <2>5, <2>6 DEF ReservationInv, AssignmentConsistent, CommandsStayHome,
          ReservedTogether, sessionVars
  <1> QED
    BY <1>1, <1>2, <1>3, <1>4, <1>5, <1>6, <1>7, <1>8 DEF TickStep

\* Expiry, deadlines and faults preserve the invariant.
LEMMA ReservationEnvironment ==
    TypeOK /\ ReservationInv /\ (Expiry \/ Time \/ Faults) => ReservationInv'
  <1> SUFFICES ASSUME TypeOK, ReservationInv, Expiry \/ Time \/ Faults
               PROVE  ReservationInv'
    OBVIOUS
  <1> USE DEF sessionVars, memoryVars, Settles
  <1>1. ASSUME NEW s \in Sessions, NEW P \in SUBSET Players, ExpireTransfers(s, P)
        PROVE  ReservationInv'
    BY <1>1, Frame DEF ExpireTransfers
  <1>2. ASSUME NEW i \in Instances, NEW p \in Players, ExpirePresence(i, p)
        PROVE  ReservationInv'
    BY <1>2, Frame DEF ExpirePresence
  <1>3. ASSUME NEW s \in Sessions, AcquisitionDeadlinePasses(s) \/ LobbyStaleDeadlinePasses(s)
        PROVE  ReservationInv'
    BY <1>3, Frame DEF AcquisitionDeadlinePasses, LobbyStaleDeadlinePasses
  <1>4. ASSUME Crash \/ StageFails PROVE ReservationInv'
    BY <1>4, Frame DEF Crash, StageFails
  <1> QED
    BY <1>1, <1>2, <1>3, <1>4 DEF Expiry, Time, Faults

\* Every step preserves the invariant.
LEMMA ReservationStep == TypeOK /\ ReservationInv /\ [Next]_vars => ReservationInv'
  <1> SUFFICES ASSUME TypeOK, ReservationInv, [Next]_vars PROVE ReservationInv'
    OBVIOUS
  <1>1. CASE UNCHANGED vars
    BY <1>1, Frame DEF vars, sessionVars, memoryVars, Settles
  <1> QED
    BY <1>1, ReservationQueue, ReservationMatchmaker, ReservationPaper,
        ReservationLifecycle, ReservationTick, ReservationEnvironment DEF Next

\* The inductive invariant holds in every reachable state.
LEMMA ReservationInvariant == Spec => [](TypeOK /\ ReservationInv)
  <1>1. Init => TypeOK /\ ReservationInv
    BY TypeInit, ReservationInit
  <1>2. TypeOK /\ ReservationInv /\ [Next]_vars => (TypeOK /\ ReservationInv)'
    BY TypeStep, ReservationStep
  <1> QED
    BY <1>1, <1>2, PTL DEF Spec

\* The session's and the instance's half of a reservation agree, whatever
\* matchmaking, game events, recovery, drains and restarts interleave.
THEOREM AssignmentsAgree == Spec => []AssignmentConsistent
  <1>1. ReservationInv => AssignmentConsistent
    BY DEF ReservationInv
  <1> QED
    BY <1>1, ReservationInvariant, PTL

\* No drain, however stale the reason it was asked for, takes the instance of
\* a session that is not over.
THEOREM DrainsAreSafe == Spec => []DrainOnlyTerminal
  <1>1. ReservationInv => DrainOnlyTerminal
    BY DEF ReservationInv
  <1> QED
    BY <1>1, ReservationInvariant, PTL

\* A pending command targets an instance reserved for its session.
THEOREM CommandsTargetOwnInstance == Spec => []CommandsStayHome
  <1>1. ReservationInv => CommandsStayHome
    BY DEF ReservationInv
  <1> QED
    BY <1>1, ReservationInvariant, PTL

\* The unguarded UPDATEs of recoverFailedInstances always hit a session that
\* still has the failed instance they were decided on.
THEOREM RecoveryIsCurrent == Spec => []RecoveryCurrent
  <1>1. ReservationInv => RecoveryCurrent
    BY DEF ReservationInv
  <1> QED
    BY <1>1, ReservationInvariant, PTL
-----------------------------------------------------------------------------
(* Games                                                                   *)

Played == Started \cup {"FINISHED"}

\* Nobody is on the way to s and no command would bring anybody.
Closed(s) ==
    /\ \A p \in Players : pState[s][p] \in {"NONE", "CONNECTED", "LEFT"}
    /\ \A c \in pending : c[1] # s

\* What a step may do to a session that is played afterwards: it was played
\* before and loses players at most, or it closes as it begins to be played.
Plays(s) ==
    sState'[s] \in Played =>
        \/ /\ sState[s] \in Played
           /\ \A p \in Players : pState'[s][p] \in {pState[s][p], "LEFT"}
           /\ \A p \in Players : pState'[s][p] # pState[s][p] => pState[s][p] # "NONE"
           /\ \A c \in pending' : c[1] = s => c \in pending
        \/ sState[s] \notin Played /\ Closed(s)'

\* A step that starts no game and adds no command, and by which only sessions
\* that are not played, or no players but those who leave, change.
LEMMA PlayFrame ==
    ASSUME TypeOK,
           pending' \subseteq pending,
           \A s \in Sessions : sState'[s] \in {sState[s]} \cup PreStart \cup (Terminal \ {"FINISHED"}),
           \A s \in Sessions : \/ sState'[s] \notin Played
                               \/ pState'[s] = pState[s]
                               \/ \E P : pState'[s] = MarkLeft(pState[s], P)
    PROVE  \A s \in Sessions : Plays(s)
  <1> SUFFICES ASSUME NEW s \in Sessions, sState'[s] \in Played PROVE Plays(s)
    BY DEF Plays
  <1>1. sState[s] \in Played
    BY DEF Played, PreStart, Terminal, Started
  <1>2. ASSUME NEW p \in Players
        PROVE  /\ pState'[s][p] \in {pState[s][p], "LEFT"}
               /\ pState'[s][p] # pState[s][p] => pState[s][p] # "NONE"
    <2>1. CASE pState'[s] = pState[s]
      BY <2>1
    <2>2. CASE \E P : pState'[s] = MarkLeft(pState[s], P)
      BY <2>2 DEF MarkLeft, ActiveIn
    <2> QED
      BY <2>1, <2>2
  <1> QED
    BY <1>1, <1>2 DEF Plays

\* Queue operations only take players away.
LEMMA PlayQueue == TypeOK /\ Queue => \A s \in Sessions : Plays(s)
  <1> SUFFICES ASSUME TypeOK, Queue PROVE \A s \in Sessions : Plays(s)
    OBVIOUS
  <1>1. ASSUME NEW t \in Tickets, NEW g \in Parties, NEW P \in SUBSET Players,
               Enqueue(t, g, P)
        PROVE  \A s \in Sessions : Plays(s)
    BY <1>1, PlayFrame DEF Enqueue, sessionVars, rosterVars
  <1>2. ASSUME NEW t \in Tickets, CancelTicket(t)
        PROVE  \A s \in Sessions : Plays(s)
    <2> DEFINE u == tSession[t]
               leaving == IF u = 0 THEN {} ELSE { p \in Active(u) : pTicket[u][p] = t }
               left == MarkLeft(pState[u], leaving)
    <2>1. pending' = pending
      BY <1>2 DEF CancelTicket
    <2>2. CASE leaving = {}
      BY <1>2, <2>1, <2>2, PlayFrame DEF CancelTicket, sessionVars
    <2>3. CASE leaving # {}
      <3>1. pState' = [pState EXCEPT ![u] = left]
        BY <1>2, <2>3 DEF CancelTicket
      <3>2. \/ sState' = sState
            \/ sState' = [sState EXCEPT ![u] = "CANCELLED"]
            \/ sState' = [sState EXCEPT ![u] = "FORMING"]
        BY <1>2, <2>3 DEF CancelTicket, TypeOK
      <3>3. \A s \in Sessions :
                sState'[s] \in {sState[s]} \cup PreStart \cup (Terminal \ {"FINISHED"})
        BY <3>2 DEF TypeOK, PreStart, Terminal
      <3> HIDE DEF leaving
      <3>4. \A s \in Sessions : \/ pState'[s] = pState[s]
                                \/ \E P : pState'[s] = MarkLeft(pState[s], P)
        BY <3>1 DEF TypeOK
      <3> QED
        BY <2>1, <3>3, <3>4, PlayFrame
    <2> QED
      BY <2>2, <2>3
  <1>3. ASSUME NEW p \in Players, NetworkDisconnected(p)
        PROVE  \A s \in Sessions : Plays(s)
    <2>1. CASE \E t \in Tickets : CancelTicket(t)
      BY <1>2, <2>1
    <2>2. CASE ~ \E t \in Tickets : CancelTicket(t)
      <3>1. /\ pState' = [s \in Sessions |-> IF sState[s] \in Terminal THEN pState[s]
                                             ELSE MarkLeft(pState[s], {p})]
            /\ UNCHANGED <<sessionVars, pending>>
        BY <1>3, <2>2 DEF NetworkDisconnected
      <3>2. \A s \in Sessions : \/ pState'[s] = pState[s]
                                \/ \E P : pState'[s] = MarkLeft(pState[s], P)
        BY <3>1
      <3> QED
        BY <3>1, <3>2, PlayFrame DEF sessionVars
    <2> QED
      BY <2>1, <2>2
  <1> QED
    BY <1>1, <1>2, <1>3 DEF Queue, LeaveParty

\* The matchmaker touches sessions that have not begun to be played.
LEMMA PlayMatchmaker == TypeOK /\ Matchmaker => \A s \in Sessions : Plays(s)
  <1> SUFFICES ASSUME TypeOK, Matchmaker PROVE \A s \in Sessions : Plays(s)
    OBVIOUS
  <1>1. ASSUME NEW u \in Sessions, sState'[u] \notin Played,
               \A s \in Sessions \ {u} : sState'[s] = sState[s] /\ pState'[s] = pState[s],
               \A c \in pending' : c \in pending \/ c[1] = u
        PROVE  \A s \in Sessions : Plays(s)
    <2> SUFFICES ASSUME NEW s \in Sessions \ {u} PROVE Plays(s)
      BY <1>1 DEF Plays
    <2> QED
      BY <1>1 DEF Plays
  <1>2. ASSUME NEW u \in Sessions, NEW i, NEW r, NEW states, NEW sessions,
               StartSessionTransfers(u, i, r, states, sessions)
        PROVE  \A s \in Sessions : Plays(s)
    <2>1. /\ sState' = [sState EXCEPT ![u] = "TRANSFERRING"]
          /\ pState' = [pState EXCEPT ![u] = MarkTransferring(r)]
          /\ pending' \subseteq pending \cup {<<u, i>>}
      BY <1>2 DEF StartSessionTransfers
    <2>2. sState'[u] \notin Played
      BY <2>1 DEF TypeOK, Played, Started
    <2>3. \A s \in Sessions \ {u} : sState'[s] = sState[s] /\ pState'[s] = pState[s]
      BY <2>1 DEF TypeOK
    <2>4. \A c \in pending' : c \in pending \/ c[1] = u
      BY <2>1
    <2> QED
      BY <1>1, <2>2, <2>3, <2>4
  <1>3. ASSUME NEW u \in Sessions, ReturnToForming(u)
        PROVE  \A s \in Sessions : Plays(s)
    BY <1>1, <1>3 DEF ReturnToForming, TypeOK, Played, Started, rosterVars
  <1>4. ASSUME NEW t \in Tickets, NEW u \in Sessions,
               NEW reservation \in Instances \cup {NoInstance},
               AttachTicket(t, u, reservation)
        PROVE  \A s \in Sessions : Plays(s)
    <2>1. sState[u] \notin Played
      BY <1>4 DEF AttachTicket, TakesTicket, AcceptsTickets, PreStart, Played, Started
    <2>2. CASE \E i, r, states, sessions : StartSessionTransfers(u, i, r, states, sessions)
      BY <1>2, <2>2
    <2>3. CASE ~ \E i, r, states, sessions : StartSessionTransfers(u, i, r, states, sessions)
      <3>1. /\ \E r : pState' = [pState EXCEPT ![u] = r]
            /\ \/ sState' = sState
               \/ sState' = [sState EXCEPT ![u] = "WAITING_FOR_INSTANCE"]
               \/ sState' = [sState EXCEPT ![u] = "FORMING"]
            /\ pending' \subseteq pending \cup {<<u, sInst[u]>>}
        BY <1>4, <2>3 DEF AttachTicket, sessionVars, TypeOK
      <3>2. sState'[u] \notin Played
        BY <2>1, <3>1 DEF TypeOK, Played, Started
      <3>3. \A s \in Sessions \ {u} : sState'[s] = sState[s] /\ pState'[s] = pState[s]
        BY <3>1 DEF TypeOK
      <3>4. \A c \in pending' : c \in pending \/ c[1] = u
        BY <3>1
      <3> QED
        BY <1>1, <3>2, <3>3, <3>4
    <2> QED
      BY <2>2, <2>3
  <1> QED
    BY <1>2, <1>3, <1>4 DEF Matchmaker, AssignWaiting

\* Paper events: GAME_STARTING closes the session, every other event ends it or
\* takes players away; a join counts only before that.
LEMMA PlayPaper == TypeOK /\ Paper => \A s \in Sessions : Plays(s)
  <1> SUFFICES ASSUME TypeOK, NEW i \in Instances,
                      \/ \E p \in Players : PlayerJoined(i, p)
                      \/ Heartbeat(i)
                      \/ \E p \in Players : PlayerLeft(i, p)
                      \/ \E p \in Players : PlayerEliminated(i, p)
                      \/ GameStarting(i)
                      \/ GameStarted(i)
                      \/ GameCancelled(i)
                      \/ GameFinished(i)
               PROVE  \A s \in Sessions : Plays(s)
    BY DEF Paper
  <1> DEFINE u == iSession[i]
  <1> USE DEF sessionVars
  <1>1. ASSUME NEW P \in SUBSET Players, Observe(i, P)
        PROVE  \A s \in Sessions : Plays(s)
    <2> SUFFICES ASSUME NEW s \in Sessions PROVE Plays(s)
      OBVIOUS
    <2>1. sState' = sState /\ pending' = pending
      BY <1>1 DEF Observe
    <2>2. CASE s # u \/ sState[s] \in Played
      <3>1. pState'[s] = pState[s]
        BY <1>1, <2>2 DEF Observe, TypeOK, Played, Started
      <3> QED
        BY <2>1, <3>1 DEF Plays
    <2>3. CASE sState[s] \notin Played
      BY <2>1, <2>3 DEF Plays
    <2> QED
      BY <2>2, <2>3
  <1>2. ASSUME NEW p \in Players, PlayerLeft(i, p) \/ PlayerEliminated(i, p)
        PROVE  \A s \in Sessions : Plays(s)
    <2>1. pState' = [pState EXCEPT ![u] = MarkLeft(@, {p})]
      BY <1>2 DEF PlayerLeft, PlayerEliminated
    <2>2. \A s \in Sessions : \/ pState'[s] = pState[s]
                              \/ \E P : pState'[s] = MarkLeft(pState[s], P)
      BY <2>1 DEF TypeOK
    <2> QED
      BY <1>2, <2>2, PlayFrame DEF PlayerLeft, PlayerEliminated
  <1>3. ASSUME GameStarting(i) PROVE \A s \in Sessions : Plays(s)
    <2>0. PICK w \in Sessions : w = u
      BY <1>3 DEF GameStarting, OwnSession, TypeOK
    <2>1. /\ sState[w] \notin Played
          /\ sState' = [sState EXCEPT ![w] = "STARTING"]
          /\ pState' = [pState EXCEPT ![w] = DropAbsent(@)]
          /\ pending' = PendingWithout(w)
      BY <1>3, <2>0 DEF GameStarting, OwnSession, TypeOK, Played, Started
    <2>2. pState'[w] = DropAbsent(pState[w])
      BY <2>1 DEF TypeOK
    <2>3. \A p \in Players : pState'[w][p] \in {"NONE", "CONNECTED", "LEFT"}
      <3>1. pState[w] \in [Players -> PlayerStates]
        BY <2>1 DEF TypeOK
      <3> QED
        BY <2>2, <3>1 DEF DropAbsent, MarkLeft, ActiveIn, PlayerStates
    <2>4. \A c \in pending' : c \in pending /\ c[1] # w
      BY <2>1 DEF PendingWithout
    <2>5. Plays(w)
      BY <2>1, <2>3, <2>4 DEF Plays, Closed
    <2>6. ASSUME NEW s \in Sessions, s # w PROVE Plays(s)
      BY <2>1, <2>4, <2>6 DEF Plays, TypeOK
    <2> QED
      BY <2>5, <2>6
  <1>4. ASSUME GameStarted(i) \/ GameFinished(i) PROVE \A s \in Sessions : Plays(s)
    <2>1. /\ \A s \in Sessions : sState'[s] # sState[s] => sState[s] \in Played
          /\ pState' = pState /\ pending' = pending
      BY <1>4 DEF GameStarted, GameFinished, TypeOK, Played, Started, rosterVars
    <2> QED
      BY <2>1 DEF Plays
  <1>5. ASSUME GameCancelled(i) PROVE \A s \in Sessions : Plays(s)
    <2>1. CASE sState[u] = "CANCELLED" /\ UNCHANGED <<sState, pState, pending>>
      BY <2>1, PlayFrame
    <2>2. CASE /\ sState' = [sState EXCEPT ![u] = "CANCELLED"]
               /\ pState' = [pState EXCEPT ![u] = DropAbsent(@)]
               /\ pending' = PendingWithout(u)
      <3>1. u \in Sessions
        BY <1>5 DEF GameCancelled, OwnSession, TypeOK
      <3>2. pending' \subseteq pending
        BY <2>2 DEF PendingWithout
      <3>3. \A s \in Sessions : \/ sState'[s] = "CANCELLED"
                                \/ sState'[s] = sState[s] /\ pState'[s] = pState[s]
        BY <2>2, <3>1 DEF TypeOK
      <3> QED
        BY <3>2, <3>3, PlayFrame DEF Terminal, Played, Started
    <2> QED
      BY <1>5, <2>1, <2>2 DEF GameCancelled
  <1> QED
    BY <1>1, <1>2, <1>3, <1>4, <1>5 DEF PlayerJoined, Heartbeat

\* The rest of the system ends sessions, puts them back before the game, or
\* takes players and commands away.
LEMMA PlayLifecycle == TypeOK /\ Lifecycle => \A s \in Sessions : Plays(s)
  <1> SUFFICES ASSUME TypeOK, Lifecycle PROVE \A s \in Sessions : Plays(s)
    OBVIOUS
  <1>1. pending' \subseteq pending /\ sState' = sState /\ pState' = pState
    BY DEF Lifecycle, MarkReady, FailInstance, PaperDrain, ReleaseIdle, ReconcileStop,
        FinishStop, CleanupReset, CloseTransfer, sessionVars, rosterVars
  <1> QED
    BY <1>1, PlayFrame

LEMMA PlayTick == TypeOK /\ TickStep => \A s \in Sessions : Plays(s)
  <1> SUFFICES ASSUME TypeOK, TickStep PROVE \A s \in Sessions : Plays(s)
    OBVIOUS
  <1> USE DEF sessionVars, rosterVars
  <1>1. CASE NextStage
    BY <1>1, PlayFrame DEF NextStage
  <1>2. ASSUME NEW u \in Sessions, NEW new \in {"CANCELLED", "FAILED", "WAITING"},
               \/ sState' = sState
               \/ sState' = [sState EXCEPT ![u] = new],
               pState' = pState, pending' \subseteq pending
        PROVE  \A s \in Sessions : Plays(s)
    <2>1. \A s \in Sessions :
            sState'[s] \in {sState[s]} \cup PreStart \cup (Terminal \ {"FINISHED"})
      BY <1>2 DEF TypeOK, PreStart, Terminal
    <2> QED
      BY <1>2, <2>1, PlayFrame
  <1>3. ASSUME NEW u \in Sessions, CancelRow(u)
        PROVE  \A s \in Sessions : Plays(s)
    BY <1>2, <1>3 DEF CancelRow, PendingWithout
  <1>4. ASSUME NEW u \in Sessions, WaitRow(u)
        PROVE  \A s \in Sessions : Plays(s)
    <2>1. sState' = sState \/ sState' = [sState EXCEPT ![u] = "WAITING"]
      BY <1>4 DEF WaitRow, TypeOK
    <2> QED
      BY <1>2, <1>4, <2>1 DEF WaitRow
  <1>5. ASSUME NEW u \in Sessions, NEW i \in Instances,
               RequeueRow(u, i) \/ CancelTransfersRow(u, i)
        PROVE  \A s \in Sessions : Plays(s)
    BY <1>5, PlayFrame DEF RequeueRow, CancelTransfersRow, PendingNotTo
  <1>6. ASSUME NEW u \in Sessions, NEW i \in Instances, ResetRow(u, i)
        PROVE  \A s \in Sessions : Plays(s)
    <2>1. /\ pending' = pending
          /\ sState' = [sState EXCEPT ![u] = "WAITING_FOR_INSTANCE"]
          /\ \A s \in Sessions \ {u} : pState'[s] = pState[s]
      BY <1>6 DEF ResetRow, TypeOK
    <2>2. \A s \in Sessions : \/ sState'[s] = "WAITING_FOR_INSTANCE"
                              \/ sState'[s] = sState[s] /\ pState'[s] = pState[s]
      BY <2>1 DEF TypeOK
    <2> QED
      BY <2>1, <2>2, PlayFrame DEF PreStart, Played, Started
  <1>7. ASSUME NEW u \in Sessions, NEW i \in Instances, FailRow(u, i)
        PROVE  \A s \in Sessions : Plays(s)
    BY <1>2, <1>7 DEF FailRow
  <1>8. ASSUME NEW i \in Instances, DrainRow(i) \/ StopRow(i)
        PROVE  \A s \in Sessions : Plays(s)
    BY <1>8, PlayFrame DEF DrainRow, StopRow
  <1> QED
    BY <1>1, <1>3, <1>4, <1>5, <1>6, <1>7, <1>8 DEF TickStep

LEMMA PlayEnvironment ==
    TypeOK /\ (Expiry \/ Time \/ Faults) => \A s \in Sessions : Plays(s)
  <1> SUFFICES ASSUME TypeOK, Expiry \/ Time \/ Faults
               PROVE  \A s \in Sessions : Plays(s)
    OBVIOUS
  <1> USE DEF sessionVars, rosterVars
  <1>1. ASSUME NEW u \in Sessions, NEW P,
               \/ pState' = pState
               \/ pState' = [pState EXCEPT ![u] = MarkLeft(@, P)],
               sState' = sState, pending' = pending
        PROVE  \A s \in Sessions : Plays(s)
    <2>1. \A s \in Sessions : \/ pState'[s] = pState[s]
                              \/ \E Q : pState'[s] = MarkLeft(pState[s], Q)
      BY <1>1 DEF TypeOK
    <2> QED
      BY <1>1, <2>1, PlayFrame
  <1>2. ASSUME NEW u \in Sessions, NEW P \in SUBSET Players, ExpireTransfers(u, P)
        PROVE  \A s \in Sessions : Plays(s)
    BY <1>1, <1>2 DEF ExpireTransfers
  <1>3. ASSUME NEW i \in Instances, NEW p \in Players, ExpirePresence(i, p)
        PROVE  \A s \in Sessions : Plays(s)
    <2>1. CASE pState' = pState
      BY <1>3, <2>1, PlayFrame DEF ExpirePresence
    <2>2. CASE pState' # pState
      <3>1. /\ iSession[i] \in Sessions
            /\ pState' = [pState EXCEPT ![iSession[i]] = MarkLeft(@, {p})]
            /\ sState' = sState /\ pending' = pending
        BY <1>3, <2>2 DEF ExpirePresence, TypeOK
      <3> QED
        BY <1>1, <3>1
    <2> QED
      BY <2>1, <2>2
  <1>4. CASE Time \/ Faults
    BY <1>4, PlayFrame DEF Time, AcquisitionDeadlinePasses, LobbyStaleDeadlinePasses,
        Faults, Crash, StageFails
  <1> QED
    BY <1>2, <1>3, <1>4 DEF Expiry

\* What any step may do to a session that is being played.
LEMMA PlayStep == TypeOK /\ [Next]_vars => \A s \in Sessions : Plays(s)
  <1> SUFFICES ASSUME TypeOK, [Next]_vars PROVE \A s \in Sessions : Plays(s)
    OBVIOUS
  <1>1. CASE UNCHANGED vars
    BY <1>1, PlayFrame DEF vars, sessionVars, rosterVars
  <1> QED
    BY <1>1, PlayQueue, PlayMatchmaker, PlayPaper, PlayLifecycle, PlayTick,
        PlayEnvironment DEF Next

\* Once GAME_STARTING was handled nobody is on the way to the game any more,
\* whatever joins, polls, expiries and recoveries come late.
THEOREM GamesAreClosed == Spec => []GameClosed
  <1>1. Init => GameClosed
    BY DEF Init, GameClosed, Started
  <1>2. TypeOK /\ GameClosed /\ [Next]_vars => GameClosed'
    <2> SUFFICES ASSUME TypeOK, GameClosed, [Next]_vars,
                        NEW s \in Sessions, sState'[s] \in Played
                 PROVE  Closed(s)'
      BY DEF GameClosed, Played, Closed
    <2>1. Plays(s)
      BY PlayStep
    <2>2. CASE sState[s] \in Played
      <3>1. Closed(s)
        BY <2>2 DEF GameClosed, Played, Closed
      <3> QED
        BY <2>1, <2>2, <3>1 DEF Plays, Closed
    <2> QED
      BY <2>1, <2>2 DEF Plays
  <1> QED
    BY <1>1, <1>2, TypeCorrect, PTL DEF Spec

\* Nobody comes back into a game that has begun.
THEOREM GamesOnlyShrink == Spec => GameOnlyShrinks
  <1>1. TypeOK /\ [Next]_vars =>
            [\A s \in Sessions :
                sState[s] \in Started /\ sState'[s] \in Started
                    => ActiveIn(pState'[s]) \subseteq Active(s)]_vars
    <2> SUFFICES ASSUME TypeOK, [Next]_vars, NEW s \in Sessions,
                        sState[s] \in Started, sState'[s] \in Started
                 PROVE  ActiveIn(pState'[s]) \subseteq Active(s)
      OBVIOUS
    <2>1. Plays(s)
      BY PlayStep
    <2> QED
      BY <2>1 DEF Plays, Played, Active, ActiveIn
  <1> QED
    BY <1>1, TypeCorrect, PTL DEF Spec, GameOnlyShrinks

\* reserveInstance gives an instance to one session for good, and a session
\* loses its instance only when that has failed.
ReservationsStick ==
    [][/\ \A i \in Instances : iSession[i] # 0 => iSession'[i] = iSession[i]
       /\ \A s \in Sessions :
            sInst[s] # NoInstance /\ ~ failed[sInst[s]] => sInst'[s] = sInst[s]]_vars

\* reserveInstance gives an instance away once, and a session leaves its
\* instance only by the recovery of one that failed.
THEOREM ReservationsAreKept == Spec => ReservationsStick
  <1>1. TypeOK /\ ReservationInv /\ [Next]_vars =>
            [/\ \A i \in Instances : iSession[i] # 0 => iSession'[i] = iSession[i]
             /\ \A s \in Sessions :
                  sInst[s] # NoInstance /\ ~ failed[sInst[s]] => sInst'[s] = sInst[s]]_vars
    <2> SUFFICES ASSUME TypeOK, ReservationInv, Next
                 PROVE  /\ \A i \in Instances : iSession[i] # 0 => iSession'[i] = iSession[i]
                        /\ \A s \in Sessions :
                             sInst[s] # NoInstance /\ ~ failed[sInst[s]]
                                => sInst'[s] = sInst[s]
      OBVIOUS
    <2> USE DEF sessionVars, instanceVars
    <2>1. ASSUME NEW s \in Sessions, NEW i \in Reservable,
                 NEW r, NEW states, NEW sessions, sInst[s] = NoInstance,
                 StartSessionTransfers(s, i, r, states, sessions)
          PROVE  /\ \A j \in Instances : iSession[j] # 0 => iSession'[j] = iSession[j]
                 /\ \A u \in Sessions : sInst[u] # NoInstance => sInst'[u] = sInst[u]
      BY <2>1 DEF StartSessionTransfers, Reservable, ReservationInv, ReservedTogether, TypeOK
    <2>2. CASE Matchmaker
      <3>1. ASSUME NEW s \in Sessions, NEW i \in Instances, AssignWaiting(s, i)
            PROVE  sInst[s] = NoInstance
        BY <3>1 DEF AssignWaiting, ReservationInv, AssignmentConsistent
      <3>2. \/ UNCHANGED <<sInst, iSession>>
            \/ \E s \in Sessions, i \in Reservable : \E r, states, sessions :
                    /\ sInst[s] = NoInstance
                    /\ StartSessionTransfers(s, i, r, states, sessions)
        <4>1. ASSUME NEW s \in Sessions, NEW i \in Instances, AssignWaiting(s, i)
              PROVE  i \in Reservable /\ StartSessionTransfers(s, i, pState[s], tState, tSession)
          BY <4>1 DEF AssignWaiting
        <4>2. ASSUME NEW s \in Sessions, ReturnToForming(s)
              PROVE  UNCHANGED <<sInst, iSession>>
          BY <4>2 DEF ReturnToForming
        <4>3. ASSUME NEW t \in Tickets, NEW s \in Sessions,
                     NEW reservation \in Instances \cup {NoInstance},
                     AttachTicket(t, s, reservation)
              PROVE  \/ UNCHANGED <<sInst, iSession>>
                     \/ /\ sInst[s] = NoInstance /\ reservation \in Reservable
                        /\ \E r, states, sessions :
                             StartSessionTransfers(s, reservation, r, states, sessions)
          BY <4>3 DEF AttachTicket
        <4> QED
          BY <2>2, <3>1, <4>1, <4>2, <4>3 DEF Matchmaker
      <3> QED
        BY <2>1, <3>2
    <2>3. ASSUME NEW s \in Sessions, NEW i \in Instances, ResetRow(s, i)
          PROVE  /\ iSession' = iSession
                 /\ \A u \in Sessions : ~ failed[sInst[u]] => sInst'[u] = sInst[u]
      <3>1. failed[i] /\ sInst[s] = i
        BY <2>3 DEF ResetRow, ReservationInv, RecoveryCurrent
      <3> QED
        BY <2>3, <3>1 DEF ResetRow, TypeOK
    <2>4. CASE /\ ~ Matchmaker
               /\ ~ \E s \in Sessions, i \in Instances : ResetRow(s, i)
      <3>1. Queue => UNCHANGED <<sInst, iSession>>
        BY DEF Queue, Enqueue, LeaveParty, NetworkDisconnected, CancelTicket
      <3>2. Paper => UNCHANGED <<sInst, iSession>>
        BY DEF Paper, PlayerJoined, Heartbeat, Observe, PlayerLeft, PlayerEliminated,
            GameStarting, GameStarted, GameCancelled, GameFinished
      <3>3. Lifecycle => UNCHANGED <<sInst, iSession>>
        BY DEF Lifecycle, MarkReady, FailInstance, PaperDrain, ReleaseIdle, BeginDrain,
            ReconcileStop, BeginStop, FinishStop, CleanupReset, CloseTransfer
      <3>4. TickStep => UNCHANGED <<sInst, iSession>>
        BY <2>4 DEF TickStep, NextStage, CancelRow, WaitRow, RequeueRow, FailRow,
            CancelTransfersRow, DrainRow, StopRow, BeginDrain, BeginStop
      <3>5. Expiry \/ Time \/ Faults => UNCHANGED <<sInst, iSession>>
        BY DEF Expiry, ExpireTransfers, ExpirePresence, Time, AcquisitionDeadlinePasses,
            LobbyStaleDeadlinePasses, Faults, Crash, StageFails
      <3> QED
        BY <2>4, <3>1, <3>2, <3>3, <3>4, <3>5 DEF Next
    <2> QED
      BY <2>2, <2>3, <2>4
  <1> QED
    BY <1>1, ReservationInvariant, PTL DEF Spec, ReservationsStick

-----------------------------------------------------------------------------
(* Reservations are implemented                                            *)

\* What a step is to a reservation: it does not touch it, ...
Stands == UNCHANGED <<sState, sInst, iSession, life, failed>>

\* ... settles a session, which does not come back when it was over, ...
Turns(s) ==
    /\ UNCHANGED <<sInst, iSession, life, failed>>
    /\ \E new : /\ sState' = [sState EXCEPT ![s] = new]
                /\ sState[s] \in Terminal => new \in Terminal

\* ... is one of the life of an instance, ...
Lives(i) ==
    /\ UNCHANGED <<sState, sInst, iSession>>
    /\ \/ /\ life[i] = "STARTING"
          /\ life' = [life EXCEPT ![i] = "RUNNING"] /\ failed' = failed
       \/ /\ life[i] \in {"STARTING", "RUNNING", "DRAINING"}
          /\ life' = [life EXCEPT ![i] = "FAILED"]
          /\ failed' = [failed EXCEPT ![i] = TRUE]
       \/ /\ MayDrain(i)
          /\ life' = [life EXCEPT ![i] = "DRAINING"] /\ failed' = failed
       \/ /\ life[i] \in {"DRAINING", "FAILED", "STOPPING"}
          /\ life' = [life EXCEPT ![i] = "STOPPING"] /\ failed' = failed
       \/ /\ life' = [life EXCEPT ![i] = "STOPPED"] /\ failed' = failed

\* ... gives a free instance to a session, ...
Takes(s, i) ==
    /\ i \in Reservable
    /\ sState[s] \notin Terminal /\ sInst[s] = NoInstance
    /\ sState' = [sState EXCEPT ![s] = "TRANSFERRING"]
    /\ sInst' = [sInst EXCEPT ![s] = i]
    /\ iSession' = [iSession EXCEPT ![i] = s]
    /\ UNCHANGED <<life, failed>>

\* ... or takes a session away from an instance that has failed.
Resets(s) ==
    /\ sInst[s] \in Instances /\ failed[sInst[s]]
    /\ sState' = [sState EXCEPT ![s] = "WAITING_FOR_INSTANCE"]
    /\ sInst' = [sInst EXCEPT ![s] = NoInstance]
    /\ UNCHANGED <<iSession, life, failed>>

Kinds ==
    \/ Stands
    \/ \E s \in Sessions : Turns(s) \/ Resets(s)
    \/ \E i \in Instances : Lives(i)
    \/ \E s \in Sessions, i \in Instances : Takes(s, i)

LEMMA KindsQueue == TypeOK /\ Queue => Kinds
  <1> SUFFICES ASSUME TypeOK, Queue PROVE Kinds
    OBVIOUS
  <1> USE DEF sessionVars, instanceVars
  <1>1. ASSUME NEW t \in Tickets, NEW g \in Parties, NEW P \in SUBSET Players,
               Enqueue(t, g, P)
        PROVE  Stands
    BY <1>1 DEF Enqueue, Stands
  <1>2. ASSUME NEW t \in Tickets, CancelTicket(t), OpenTicket(t) PROVE Kinds
    <2>1. UNCHANGED <<sInst, iSession, life, failed>>
      BY <1>2 DEF CancelTicket
    <2>2. CASE sState' = sState
      BY <2>1, <2>2 DEF Kinds, Stands
    <2>3. CASE sState' # sState
      <3>1. tSession[t] \in Sessions
        BY <1>2, <2>3 DEF CancelTicket, TypeOK
      <3>2. \/ sState' = [sState EXCEPT ![tSession[t]] = "CANCELLED"]
            \/ /\ sState[tSession[t]] = "WAITING_FOR_INSTANCE"
               /\ sState' = [sState EXCEPT ![tSession[t]] = "FORMING"]
        BY <1>2, <2>3 DEF CancelTicket, TypeOK
      <3>3. Turns(tSession[t])
        BY <2>1, <3>2 DEF Turns, Terminal
      <3> QED
        BY <3>1, <3>3 DEF Kinds
    <2> QED
      BY <2>2, <2>3
  <1>3. ASSUME NEW g \in Parties, LeaveParty(g) PROVE Kinds
    BY <1>2, <1>3 DEF LeaveParty, Found
  <1>4. ASSUME NEW p \in Players, NetworkDisconnected(p) PROVE Kinds
    <2>1. CASE \E t \in Tickets : OpenTicket(t) /\ CancelTicket(t)
      BY <1>2, <2>1
    <2>2. CASE ~ \E t \in Tickets : OpenTicket(t) /\ CancelTicket(t)
      <3>1. Stands
        BY <1>4, <2>2 DEF NetworkDisconnected, Found, Stands
      <3> QED
        BY <3>1 DEF Kinds
    <2> QED
      BY <2>1, <2>2
  <1> QED
    BY <1>1, <1>3, <1>4 DEF Queue, Kinds

LEMMA KindsStart ==
    ASSUME NEW s \in Sessions, NEW i \in Reservable, NEW r, NEW states, NEW sessions,
           sState[s] \notin Terminal, sInst[s] = NoInstance,
           StartSessionTransfers(s, i, r, states, sessions)
    PROVE  Kinds
  <1>1. i \in Instances
    BY DEF Reservable
  <1>2. Takes(s, i)
    BY DEF Takes, StartSessionTransfers
  <1> QED
    BY <1>1, <1>2 DEF Kinds

LEMMA KindsMatchmaker == TypeOK /\ ReservationInv /\ Matchmaker => Kinds
  <1> SUFFICES ASSUME TypeOK, ReservationInv, Matchmaker PROVE Kinds
    OBVIOUS
  <1> USE DEF sessionVars, instanceVars
  <1>1. ASSUME NEW s \in Sessions, NEW i \in Instances, AssignWaiting(s, i)
        PROVE  Kinds
    <2>1. /\ sState[s] \notin Terminal /\ sInst[s] = NoInstance
          /\ i \in Reservable
          /\ StartSessionTransfers(s, i, pState[s], tState, tSession)
      BY <1>1 DEF AssignWaiting, ReservationInv, AssignmentConsistent, Terminal
    <2> QED
      BY <2>1, KindsStart
  <1>2. ASSUME NEW s \in Sessions, ReturnToForming(s) PROVE Kinds
    <2>1. Turns(s)
      BY <1>2 DEF ReturnToForming, Turns, Terminal
    <2> QED
      BY <2>1 DEF Kinds
  <1>3. ASSUME NEW t \in Tickets, NEW s \in Sessions,
               NEW reservation \in Instances \cup {NoInstance},
               AttachTicket(t, s, reservation)
        PROVE  Kinds
    <2>1. sState[s] \notin Terminal
      BY <1>3 DEF AttachTicket, TakesTicket, AcceptsTickets, PreStart, Terminal
    <2>2. CASE sInst[s] # NoInstance
      <3>1. Stands
        BY <1>3, <2>2 DEF AttachTicket, Stands
      <3> QED
        BY <3>1 DEF Kinds
    <2>3. CASE sInst[s] = NoInstance
      <3>1. CASE \E roster, states, sessions :
                    StartSessionTransfers(s, reservation, roster, states, sessions)
                    /\ reservation \in Reservable
        BY <2>1, <2>3, <3>1, KindsStart
      <3>2. CASE /\ UNCHANGED <<sInst, instanceVars>>
                 /\ \E new : sState' = [sState EXCEPT ![s] = new]
        <4>1. Turns(s)
          BY <2>1, <3>2 DEF Turns
        <4> QED
          BY <4>1 DEF Kinds
      <3> QED
        BY <1>3, <2>3, <3>1, <3>2 DEF AttachTicket
    <2> QED
      BY <2>2, <2>3
  <1> QED
    BY <1>1, <1>2, <1>3 DEF Matchmaker

LEMMA KindsPaper == TypeOK /\ Paper => Kinds
  <1> SUFFICES ASSUME TypeOK, NEW i \in Instances,
                      \/ \E p \in Players : PlayerJoined(i, p)
                      \/ Heartbeat(i)
                      \/ \E p \in Players : PlayerLeft(i, p)
                      \/ \E p \in Players : PlayerEliminated(i, p)
                      \/ GameStarting(i)
                      \/ GameStarted(i)
                      \/ GameCancelled(i)
                      \/ GameFinished(i)
               PROVE  Kinds
    BY DEF Paper
  <1> USE DEF sessionVars, instanceVars, Kinds
  <1>1. ASSUME NEW P \in SUBSET Players, Observe(i, P) PROVE Stands
    BY <1>1 DEF Observe, Stands
  <1>2. ASSUME NEW p \in Players, PlayerLeft(i, p) \/ PlayerEliminated(i, p)
        PROVE  Stands
    BY <1>2 DEF PlayerLeft, PlayerEliminated, Stands
  <1>3. CASE GameStarting(i) \/ GameStarted(i) \/ GameCancelled(i) \/ GameFinished(i)
    <2>1. OwnSession(i, iSession[i]) /\ UNCHANGED <<sInst, iSession, life, failed>>
      BY <1>3 DEF GameStarting, GameStarted, GameCancelled, GameFinished
    <2>2. iSession[i] \in Sessions
      BY <2>1 DEF OwnSession, TypeOK
    <2>3. CASE sState' = sState
      BY <2>1, <2>3 DEF Stands
    <2>4. CASE sState' # sState
      <3>1. Turns(iSession[i])
        BY <1>3, <2>1, <2>4 DEF GameStarting, GameStarted, GameCancelled, GameFinished,
            Turns, Started, Terminal
      <3> QED
        BY <2>2, <3>1
    <2> QED
      BY <2>3, <2>4
  <1> QED
    BY <1>1, <1>2, <1>3 DEF PlayerJoined, Heartbeat

LEMMA KindsLifecycle == TypeOK /\ Lifecycle => Kinds
  <1> SUFFICES ASSUME TypeOK, Lifecycle PROVE Kinds
    OBVIOUS
  <1> USE DEF sessionVars, instanceVars
  <1>1. ASSUME NEW i \in Instances, \/ MarkReady(i) \/ FailInstance(i)
                              \/ FinishStop(i) \/ CleanupReset(i)
        PROVE  Lives(i)
    BY <1>1 DEF MarkReady, FailInstance, FinishStop, CleanupReset, Lives
  <1>2. ASSUME NEW i \in Instances, PaperDrain(i) \/ ReleaseIdle(i) \/ ReconcileStop(i)
        PROVE  Stands \/ Lives(i)
    BY <1>2 DEF PaperDrain, ReleaseIdle, BeginDrain, ReconcileStop, BeginStop, Lives, Stands
  <1>3. ASSUME NEW c \in pending, CloseTransfer(c) PROVE Stands
    BY <1>3 DEF CloseTransfer, Stands
  <1> QED
    BY <1>1, <1>2, <1>3 DEF Lifecycle, Kinds

LEMMA KindsTick == TypeOK /\ ReservationInv /\ TickStep => Kinds
  <1> SUFFICES ASSUME TypeOK, ReservationInv, TickStep PROVE Kinds
    OBVIOUS
  <1> USE DEF sessionVars, instanceVars
  <1>1. CASE NextStage
    BY <1>1 DEF NextStage, Stands, Kinds
  <1>2. ASSUME NEW s \in Sessions, CancelRow(s) \/ WaitRow(s)
        PROVE  Stands \/ Turns(s)
    BY <1>2 DEF CancelRow, WaitRow, Stands, Turns, TypeOK, Terminal
  <1>3. ASSUME NEW s \in Sessions, NEW i \in Instances,
               RequeueRow(s, i) \/ CancelTransfersRow(s, i)
        PROVE  Stands
    BY <1>3 DEF RequeueRow, CancelTransfersRow, Stands
  <1>4. ASSUME NEW s \in Sessions, NEW i \in Instances, FailRow(s, i) PROVE Turns(s)
    BY <1>4 DEF FailRow, Turns, Terminal
  <1>5. ASSUME NEW s \in Sessions, NEW i \in Instances, ResetRow(s, i) PROVE Resets(s)
    <2>1. failed[i] /\ sInst[s] = i
      BY <1>5 DEF ResetRow, ReservationInv, RecoveryCurrent
    <2> QED
      BY <1>5, <2>1 DEF ResetRow, Resets
  <1>6. ASSUME NEW i \in Instances, DrainRow(i) \/ StopRow(i)
        PROVE  Stands \/ Lives(i)
    BY <1>6 DEF DrainRow, StopRow, BeginDrain, BeginStop, Lives, Stands
  <1> QED
    BY <1>1, <1>2, <1>3, <1>4, <1>5, <1>6 DEF TickStep, Kinds

LEMMA KindsNext == TypeOK /\ ReservationInv /\ [Next]_vars => Kinds
  <1> SUFFICES ASSUME TypeOK, ReservationInv, [Next]_vars PROVE Kinds
    OBVIOUS
  <1>1. CASE Expiry \/ Time \/ Faults \/ UNCHANGED vars
    <2>1. Stands
      BY <1>1 DEF Expiry, ExpireTransfers, ExpirePresence, Time, AcquisitionDeadlinePasses,
          LobbyStaleDeadlinePasses, Faults, Crash, StageFails, vars, sessionVars,
          instanceVars, Stands
    <2> QED
      BY <2>1 DEF Kinds
  <1> QED
    BY <1>1, KindsQueue, KindsMatchmaker, KindsPaper, KindsLifecycle, KindsTick DEF Next

\* An instance that has failed does not serve any more.
FailedAreDown ==
    \A i \in Instances : failed[i] => life[i] \in {"FAILED", "STOPPING", "STOPPED"}

LEMMA DownStep == TypeOK /\ FailedAreDown /\ Kinds => FailedAreDown'
  <1> SUFFICES ASSUME TypeOK, FailedAreDown, Kinds, UNCHANGED <<life, failed>> => FailedAreDown',
                      NEW i \in Instances, Lives(i)
               PROVE  FailedAreDown'
    BY DEF Kinds, Stands, Turns, Resets, Takes, FailedAreDown
  <1> QED
    BY DEF Lives, MayDrain, FailedAreDown, TypeOK

\* The kinds of steps are those of Reservations.
LEMMA StandsIsNothing == Stands => UNCHANGED R!vars
  BY DEF Stands, R!vars, PhaseOf, Over

LEMMA TurnsEnds ==
    ASSUME TypeOK, NEW s \in Sessions, Turns(s)
    PROVE  R!Next \/ UNCHANGED R!vars
  <1>1. PICK new : /\ sState' = [sState EXCEPT ![s] = new]
                   /\ sState[s] \in Terminal => new \in Terminal
    BY DEF Turns
  <1>2. \A i \in Instances : PhaseOf(i)' = PhaseOf(i)
    BY DEF Turns, PhaseOf
  <1>3. CASE new \in Terminal
    <2>1. Over' = Over \cup {s}
      BY <1>1, <1>3 DEF Over, TypeOK
    <2>2. R!End(s)
      BY <1>2, <2>1 DEF R!End, Turns
    <2> QED
      BY <2>2 DEF R!Next
  <1>4. CASE new \notin Terminal
    <2>1. Over' = Over
      BY <1>1, <1>4 DEF Over, TypeOK
    <2> QED
      BY <1>2, <2>1 DEF R!vars, Turns
  <1> QED
    BY <1>3, <1>4

LEMMA ResetsGiveUp ==
    ASSUME TypeOK, NEW s \in Sessions, Resets(s) PROVE R!GiveUp(s)
  <1>1. \A i \in Instances : PhaseOf(i)' = PhaseOf(i)
    BY DEF Resets, PhaseOf
  <1>2. Over' = Over \ {s}
    BY DEF Resets, Over, TypeOK, Terminal
  <1>3. sInst[s] # NoInstance /\ PhaseOf(sInst[s]) = "failed"
    BY NoInstanceAssumption DEF Resets, PhaseOf
  <1> QED
    BY <1>1, <1>2, <1>3 DEF R!GiveUp, Resets

LEMMA TakesReserves ==
    ASSUME TypeOK, ReservedTogether, FailedAreDown,
           NEW s \in Sessions, NEW i \in Instances, Takes(s, i)
    PROVE  R!Reserve(s, i)
  <1>1. \A j \in Instances : PhaseOf(j)' = PhaseOf(j)
    BY DEF Takes, PhaseOf
  <1>2. Over' = Over /\ s \notin Over
    BY DEF Takes, Over, TypeOK, Terminal
  <1>3. PhaseOf(i) = "serving"
    BY DEF Takes, Reservable, PhaseOf, FailedAreDown
  <1>4. iSession[i] = 0
    BY DEF Takes, Reservable, ReservedTogether
  <1> QED
    BY <1>1, <1>2, <1>3, <1>4 DEF R!Reserve, Takes

LEMMA LivesGoOn ==
    ASSUME TypeOK, ReservationInv, FailedAreDown, NEW i \in Instances, Lives(i)
    PROVE  R!Next \/ UNCHANGED R!vars
  <1>1. UNCHANGED <<iSession, sInst, Over>>
    BY DEF Lives, Over
  <1>2. \A j \in Instances \ {i} : PhaseOf(j)' = PhaseOf(j)
    BY DEF Lives, PhaseOf, TypeOK
  <1>3. ASSUME NEW new, PhaseOf(i)' = new
        PROVE  [j \in Instances |-> PhaseOf(j)']
                = [[j \in Instances |-> PhaseOf(j)] EXCEPT ![i] = new]
    BY <1>2, <1>3
  <1>4. CASE PhaseOf(i)' = PhaseOf(i)
    BY <1>1, <1>2, <1>4 DEF R!vars
  <1>5. CASE /\ PhaseOf(i) = "starting" /\ PhaseOf(i)' = "serving"
    BY <1>1, <1>3, <1>5 DEF R!Ready, R!Next
  <1>6. CASE /\ PhaseOf(i) = "serving" /\ PhaseOf(i)' = "leaving"
             /\ iSession[i] = 0 \/ iSession[i] \in Over
    BY <1>1, <1>3, <1>6 DEF R!Leave, R!Next
  <1>7. CASE /\ PhaseOf(i) \in {"starting", "serving", "leaving"}
             /\ PhaseOf(i)' = "failed"
    BY <1>1, <1>3, <1>7 DEF R!Fail, R!Next
  <1>8. CASE /\ PhaseOf(i) \in {"starting", "serving", "leaving"}
             /\ PhaseOf(i)' = "gone"
    BY <1>1, <1>3, <1>8 DEF R!Remove, R!Next
  <1>9. MayDrain(i) => iSession[i] = 0 \/ iSession[i] \in Over
    BY DEF MayDrain, ReservationInv, ReservedTogether, Over, TypeOK
  <1> QED
    BY <1>4, <1>5, <1>6, <1>7, <1>8, <1>9
    DEF Lives, MayDrain, PhaseOf, FailedAreDown, ReservationInv, FailedHaveReason, TypeOK

LEMMA KindsAreReservations ==
    TypeOK /\ ReservationInv /\ FailedAreDown /\ Kinds => R!Next \/ UNCHANGED R!vars
  <1> SUFFICES ASSUME TypeOK, ReservationInv, FailedAreDown, Kinds
               PROVE  R!Next \/ UNCHANGED R!vars
    OBVIOUS
  <1>1. ASSUME NEW s \in Sessions, Resets(s) PROVE R!Next
    BY <1>1, ResetsGiveUp DEF R!Next
  <1>2. ASSUME NEW s \in Sessions, NEW i \in Instances, Takes(s, i) PROVE R!Next
    <2>1. R!Reserve(s, i)
      BY <1>2, TakesReserves DEF ReservationInv
    <2> QED
      BY <2>1 DEF R!Next
  <1> QED
    BY <1>1, <1>2, StandsIsNothing, TurnsEnds, LivesGoOn DEF Kinds

\* The rows, under every step of queue, matchmaker, games, drains, reconciler, session
\* tick and restarts, are reservations as Reservations has them.
THEOREM SessionsImplementReservations == Spec => ImplementsReservations
  <1>1. Init => R!Init /\ FailedAreDown
    BY DEF Init, R!Init, FailedAreDown, PhaseOf, Over, Terminal
  <1>2. TypeOK /\ ReservationInv /\ FailedAreDown /\ [Next]_vars
            => FailedAreDown' /\ [R!Next]_(R!vars)
    BY KindsNext, DownStep, KindsAreReservations
  <1> QED
    BY <1>1, <1>2, ReservationInvariant, PTL DEF Spec, ImplementsReservations, R!Spec
=============================================================================
