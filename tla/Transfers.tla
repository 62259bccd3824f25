------------------------------ MODULE Transfers ------------------------------
(***************************************************************************)
(* Moving players between servers: the durable commands of TransferService,*)
(* the capacity-aware HubRouter, the Redis publication and what the proxy  *)
(* does with it.  Players are on hubs or on the server of one session; the *)
(* session may be cancelled, and its server is evacuated from then on.     *)
(*                                                                         *)
(* A transaction is one action.  Redis delivers to a connected proxy or    *)
(* not at all; a connection the proxy has begun (flights) ends later,      *)
(* whatever became of its command.  A command that has ended leaves the    *)
(* model.  Time is abstract: a deadline may pass at any moment, and a      *)
(* command is always due: a tick that comes too early publishes nothing.   *)
(***************************************************************************)
EXTENDS Naturals, FiniteSets

CONSTANTS
    Players, Hubs,
    Parties,            \* tickets: sets of players that are sent together
    Game,               \* the instance of the session
    None,               \* not connected to the proxy
    MaxCommands,        \* bound: commands PENDING at one time
    Flaky,              \* bound: the hubs that may stop being routable
    Capacity,           \* maximumPlayersPerInstance of the hub group
    MaxFaults           \* bound: lost publications, failed connections, expiries

Places == Hubs \cup {Game}

ASSUME TransferBounds == Capacity \in Nat \ {0} /\ {MaxCommands, MaxFaults} \subseteq Nat
ASSUME PlayersAssumption == IsFiniteSet(Players)
ASSUME PartiesAssumption == Parties \subseteq (SUBSET Players) \ {{}}
ASSUME PlacesAssumption == Flaky \subseteq Hubs /\ Game \notin Hubs /\ None \notin Places

VARIABLES
    at,         \* the server each player is on, None when offline
    present,    \* instance_players: <<instance, player>>
    cmds,       \* transfer_commands that are PENDING, with their PENDING receipts
    up,         \* hubs that are RUNNING and OPEN on an ONLINE, ACTIVE host
    session,    \* "OPEN" (players may still be sent to it) or "CANCELLED"
    left,       \* session_players that are LEFT; of no use once it is CANCELLED
    flights,    \* the server each player is being connected to
    faults

world == <<at, present, up>>
game == <<session, left>>
vars == <<world, cmds, game, flights, faults>>

\* Not yet published, published at least once, expires_at <= now()
Ages == {"NEW", "TRIED", "LATE"}

TypeOK ==
    /\ at \in [Players -> Places \cup {None}]
    /\ present \subseteq Places \X Players
    /\ cmds \subseteq [target : Places, wait : SUBSET Players, age : Ages]
    /\ up \subseteq Hubs
    /\ session \in {"OPEN", "CANCELLED"} /\ left \subseteq Players
    /\ flights \in [Players -> Places \cup {None}]
    /\ faults \in 0..MaxFaults

Init ==
    /\ at \in [Players -> Hubs]
    /\ present = {<<at[p], p>> : p \in Players}
    /\ cmds = {}
    /\ up = Hubs
    /\ session = "OPEN" /\ left = {}
    /\ flights = [p \in Players |-> None]
    /\ faults = 0

Fault == faults < MaxFaults /\ faults' = faults + 1

-----------------------------------------------------------------------------
(* Reading the commands                                                    *)

\* Commands have no identity here: a player who is in two commands to one target
\* is in one that is LATE.  expires_at > now():
Live(cs) == {c \in cs : c.age # "LATE"}

\* The connected players and the players on their way, as the router counts them.
PlayerCount(h, rows) == Cardinality({p \in Players : <<h, p>> \in rows})

Expected(h, cs) ==
    Cardinality({cp \in Live(cs) \X Players : cp[1].target = h /\ cp[2] \in cp[1].wait})

EffectiveLoad(h, rows, cs) == PlayerCount(h, rows) + Expected(h, cs)

\* enqueue: a command with one receipt per player.
Command(target, ps) == [target |-> target, wait |-> ps, age |-> "NEW"]
Enqueue(new) == /\ Cardinality(cmds) + Cardinality(new) <= MaxCommands
                /\ cmds' = cmds \cup new

-----------------------------------------------------------------------------
(* HubRouter                                                               *)

\* MUTANT of OnHub: the type of the group is not tested
OnAnyServer == {p \in Players : \E i \in up \cup {Game} : <<i, p>> \in present}

\* alreadyOnHub
OnHub == {p \in Players : \E h \in up : <<h, p>> \in present}

\* MUTANT of PendingHubPlayers: the commands in flight are not looked at
NoPendingHubPlayers == {}

PendingHubPlayers == UNION {c.wait : c \in {d \in Live(cmds) : d.target \in up}}

\* allocateHubPlayers gives the players one after the other to the least loaded
\* target below its maximum, lowest id first.  These are the outcomes for all
\* orders of players and ids: nobody goes to a full target, nobody is rejected
\* while a target has room, and a target that was given a player was the least
\* loaded one when it got its last.
\* MUTANT of AllocateHubPlayers: load <= maximum
AllocateOneMore(ps, load) ==
    {to \in [ps -> DOMAIN load \cup {None}] :
       LET after(h) == load[h] + Cardinality({p \in ps : to[p] = h})
           Given == {h \in DOMAIN load : \E p \in ps : to[p] = h}
       IN /\ \A h \in Given : after(h) <= Capacity + 1
          /\ (\E p \in ps : to[p] = None) =>
                \A h \in DOMAIN load : after(h) > Capacity
          /\ \A h \in Given, k \in DOMAIN load : after(h) - 1 <= after(k)}

AllocateHubPlayers(ps, load) ==
    {to \in [ps -> DOMAIN load \cup {None}] :
       LET after(h) == load[h] + Cardinality({p \in ps : to[p] = h})
           Given == {h \in DOMAIN load : \E p \in ps : to[p] = h}
       IN /\ \A h \in Given : after(h) <= Capacity
          /\ (\E p \in ps : to[p] = None) =>
                \A h \in DOMAIN load : after(h) >= Capacity
          /\ \A h \in Given, k \in DOMAIN load : after(h) - 1 <= after(k)}

\* connectedIds: the requested players the source has reported.
Connected(source, requested) == {p \in requested : <<source, p>> \in present}

\* transferPlayers, one transaction under the advisory lock: of the connected
\* players, those on a hub or on their way to one are accepted as they are, the
\* others get one command per target.  Its four SELECTs (READ COMMITTED) are read at
\* one moment.  No other route can come between them, which is what decides about
\* competing commands: only routes make commands to hubs, the others end them.  What
\* can come between, a report or a hub's return, is taken as before or after; README
\* says what it adds.
TransferPlayers(source, requested) ==
    LET connected == Connected(source, requested)
        route == connected \ (OnHub \cup PendingHubPlayers)
        targets == up \ {source}
    IN /\ route # {}
       /\ \E to \in AllocateHubPlayers(route,
                          [h \in targets |-> EffectiveLoad(h, present, cmds)]) :
            /\ \E p \in route : to[p] # None
            /\ Enqueue({Command(to[p], {q \in route : to[q] = to[p]}) :
                          p \in {q \in route : to[q] # None}})
       /\ UNCHANGED <<world, game, flights, faults>>

TransferConnectedPlayers(source) == TransferPlayers(source, Connected(source, Players))

\* evacuateCancelledMinigame, at beginDrain and by every drain tick from then on.
EvacuateCancelledMinigame == session = "CANCELLED" /\ TransferConnectedPlayers(Game)

\* A plugin asks for some players of its server (POST .../hub), or a drained hub
\* is emptied at its deadline (evacuateHub).
RequestHub ==
    \E source \in Places, requested \in SUBSET Players :
        /\ source \in Hubs => source \notin up
        /\ TransferPlayers(source, requested)

-----------------------------------------------------------------------------
(* The session's commands                                                  *)

\* attachParty of the matchmaker: the members are told to go to the session.
SendToSession(ps) ==
    /\ session = "OPEN"
    /\ \A p \in ps : at[p] \in Hubs /\ p \notin left
    /\ \A c \in cmds : c.target = Game => c.wait \cap ps = {}
    /\ Enqueue({Command(Game, ps)})
    /\ UNCHANGED <<world, game, flights, faults>>

\* cancel of the session controller: its pending commands are CANCELLED in the
\* same transaction; cancelForInstance does so for a failed instance.
CancelForInstance(i) == cmds' = {c \in cmds : c.target # i}

CancelSession ==
    /\ session = "OPEN"
    /\ session' = "CANCELLED" /\ left' = {}
    /\ CancelForInstance(Game)
    /\ UNCHANGED <<world, flights, faults>>

-----------------------------------------------------------------------------
(* The tick of TransferService                                             *)

Observed(command, p) ==
    \/ <<command.target, p>> \in present
    \/ command.target = Game /\ p \in left

\* completeObservedTransfers: receipts of players who are there or LEFT, then the
\* commands without a PENDING receipt.
ObserveTransfers(cs) ==
    {[c EXCEPT !.wait = {p \in @ : ~Observed(c, p)}] : c \in cs}
CompleteTransfers(cs) == {c \in cs : c.wait # {}}

\* expireTransfers
ExpireTransfers(cs) == Live(cs)

\* transferPlayers of the proxy: every player of a message that is online and
\* elsewhere starts a connection.  Velocity refuses a second one while the first
\* is under way.
Deliver(cs) ==
    LET Offers(p) == {c.target : c \in {d \in cs : p \in d.wait}} \ {at[p]}
    IN {f \in [Players -> Places \cup {None}] :
          \A p \in Players :
             IF flights[p] # None \/ at[p] = None \/ Offers(p) = {}
             THEN f[p] = flights[p] ELSE f[p] \in Offers(p)}

\* publish: Redis takes the message of each command, with the receipts that are
\* still PENDING, or it refuses it, nobody listens or the orchestrator restarts
\* before (lost).  Either way the command stays PENDING and is tried again.
Publish(due, lost) ==
    /\ cmds' = {[c EXCEPT !.age = "TRIED"] : c \in due}
    /\ flights' \in Deliver({c \in due : c.target \notin lost})
    /\ IF lost = {} THEN UNCHANGED faults ELSE Fault

\* The tick: completes, expires and publishes.  What others do between two
\* statements has the effect it has before the first or after the last, and a
\* publication that is delayed is a connection that takes long.
TransferTick(lost) ==
    LET due == ExpireTransfers(CompleteTransfers(ObserveTransfers(cmds)))
    IN /\ \A i \in lost : \E c \in due : c.target = i
       /\ Publish(due, lost)
       /\ UNCHANGED <<world, game>>

-----------------------------------------------------------------------------
(* The proxy, the servers and their reports                                *)

\* The connection succeeds, or the server is gone or refuses the player.
Arrive(p) ==
    /\ flights[p] # None
    /\ flights' = [flights EXCEPT ![p] = None]
    /\ \/ at' = [at EXCEPT ![p] = flights[p]] /\ UNCHANGED faults
       \/ Fault /\ UNCHANGED at
    /\ UNCHANGED <<present, up, cmds, game>>

\* recordTransferArrival
RecordTransferArrival(i, p) ==
    cmds' = {IF c.target = i THEN [c EXCEPT !.wait = @ \ {p}] ELSE c : c \in cmds}

\* playerJoined, or the heartbeat that lists the player.
PlayerJoined(i, p) ==
    /\ at[p] = i /\ <<i, p>> \notin present
    /\ present' = present \cup {<<i, p>>}
    /\ RecordTransferArrival(i, p)
    /\ left' = IF i = Game THEN left \ {p} ELSE left
    /\ UNCHANGED <<at, up, session, flights, faults>>

\* playerLeft, or the row has become stale.
PlayerLeft(i, p) ==
    /\ at[p] # i /\ <<i, p>> \in present
    /\ present' = present \ {<<i, p>>}
    /\ left' = IF i = Game /\ session = "OPEN" THEN left \cup {p} ELSE left
    /\ UNCHANGED <<at, up, cmds, session, flights, faults>>

\* onDisconnect: the orchestrator marks the player LEFT in sessions.
Disconnect(p) ==
    /\ at[p] # None /\ Fault
    /\ at' = [at EXCEPT ![p] = None] /\ flights' = [flights EXCEPT ![p] = None]
    /\ left' = IF session = "OPEN" THEN left \cup {p} ELSE left
    /\ UNCHANGED <<present, up, cmds, session>>

\* onInitialServer: the proxy picks a hub by its own figures, which may be old and
\* leave out the players on their way.
InitialServer(p, h) ==
    /\ at[p] = None /\ h \in up
    /\ at' = [at EXCEPT ![p] = h]
    /\ UNCHANGED <<present, up, cmds, game, flights, faults>>

\* A hub stops being routable (drained, its host OFFLINE or DRAINING); a host
\* comes back.
HubDown(h) ==
    /\ h \in up \cap Flaky /\ Fault
    /\ up' = up \ {h}
    /\ UNCHANGED <<at, present, cmds, game, flights>>
HubUp(h) ==
    /\ h \in Hubs \ up
    /\ up' = up \cup {h}
    /\ UNCHANGED <<at, present, cmds, game, flights, faults>>

\* expires_at passes.  The timeout is many ticks long: only a fault keeps the tick
\* from publishing the command before.
Deadline(i) ==
    \E c \in Live(cmds) :
        /\ c.target = i
        /\ IF c.age = "NEW" THEN Fault ELSE UNCHANGED faults
        /\ cmds' = (cmds \ {c}) \cup {[c EXCEPT !.age = "LATE"]}
        /\ UNCHANGED <<world, game, flights>>

-----------------------------------------------------------------------------
Report(i) == \E p \in Players : PlayerJoined(i, p) \/ PlayerLeft(i, p)

Next ==
    \/ (\E lost \in SUBSET {c.target : c \in cmds} : TransferTick(lost)) \/ EvacuateCancelledMinigame \/ RequestHub
    \/ \E ps \in Parties : SendToSession(ps)
    \/ \E i \in Places : Report(i)
    \/ CancelSession
    \/ \E p \in Players : Arrive(p) \/ Disconnect(p) \/ \E h \in Hubs : InitialServer(p, h)
    \/ \E h \in Hubs : HubDown(h) \/ HubUp(h)
    \/ \E i \in Places : Deadline(i)

\* The loops keep ticking, the plugins keep reporting, connections end and a
\* host that went away comes back.
Fairness ==
    /\ WF_vars(TransferTick({})) /\ WF_vars(EvacuateCancelledMinigame)
    /\ \A i \in Places : WF_vars(Report(i))
    /\ WF_vars(\E p \in Players : Arrive(p))
    /\ WF_vars(\E h \in Hubs : HubUp(h))
    /\ WF_vars(\E i \in Places : Deadline(i) /\ UNCHANGED faults)

Spec == Init /\ [][Next]_vars /\ Fairness

-----------------------------------------------------------------------------
(* Properties                                                              *)

\* Only a hub that comes back can leave a player on the way to two hubs: a
\* repeated request creates no command that competes with one to a routable hub
\* (hub-router.ts:103).
Competing(p, cs, hubs) ==
    \E c, d \in Live(cs) : c # d /\ {c.target, d.target} \subseteq hubs
                                 /\ p \in c.wait \cap d.wait
NoCompetingCommand ==
    [][\A p \in Players :
          Competing(p, cmds', up') => Competing(p, cmds, up) \/ up' # up]_vars

\* A hub is filled beyond its maximum only by players the router has not sent:
\* whoever raises the load of a hub above the maximum appears on it without a
\* command that waits for him.
Uninvited(h) ==
    \E p \in Players : /\ <<h, p>> \in present' \ present
                       /\ \A c \in Live(cmds) : c.target = h => p \notin c.wait
NeverOverbooked ==
    [][\A h \in Hubs :
          LET load == EffectiveLoad(h, present, cmds)
              next == EffectiveLoad(h, present', cmds')
          IN next > load => next <= Capacity \/ Uninvited(h)]_vars

\* The server of a cancelled session is empty in the end, although publications
\* are lost, commands expire, connections fail, hubs come and go and the
\* orchestrator restarts.
Evacuated == <>[](session = "CANCELLED" => \A p \in Players : at[p] # Game)
=============================================================================
