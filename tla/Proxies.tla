------------------------------ MODULE Proxies ------------------------------
(***************************************************************************)
(* A managed Velocity proxy: the registry of backend servers it keeps from *)
(* Redis events and from the snapshot of GET /proxy/servers, and the       *)
(* permission to admit players it gets with every heartbeat                *)
(* (EnderCloudVelocityPlugin, RegistryReconciliation, ProxyAdmission;      *)
(* ProxyService and the registry events of InstanceController).            *)
(*                                                                         *)
(* The events of concurrent handlers are published in any order, each      *)
(* after the row it tells of was read.  The plugin handles them on the     *)
(* Redis thread, reloads on the HTTP threads: a reload is four steps, with *)
(* events handled between them.  Two reloads may overlap, one of them      *)
(* under synchronizationInProgress, the other one for a transfer or an     *)
(* unreadable message.  Players come and go; load figures are left out.    *)
(* A heartbeat the client has given up may be stored all the same, later   *)
(* and after newer ones.                                                   *)
(***************************************************************************)
EXTENDS Naturals

CONSTANTS
    Backends,           \* hub and minigame instances
    MaxPlayers,         \* bound: players on the proxy
    MaxFaults           \* bound: lost connections, messages, failed requests, and
                        \* heartbeats that are stored late

ASSUME ProxyBounds == {MaxPlayers, MaxFaults} \subseteq Nat

VARIABLES
    life,       \* lifecycle_state of the backends
    msgs,       \* registry events that are not handled yet: <<type, backend>>
    reg,        \* the servers registered with the proxy
    snaps,      \* the keys of snapshots
    sub,        \* the Redis subscription is open
    ready,      \* ready
    sync,       \* the reload under synchronizationInProgress
    extra,      \* the reload without
    plife,      \* lifecycle_state of the proxy itself
    listener,   \* listenerBound
    admission,  \* ProxyAdmission: "open" (permitted, expiresAt > now), "closed", or
                \* "draining"
    hb,         \* the heartbeat request or its reply in flight
    late,       \* heartbeat requests given up by the client, not by the server
    row,        \* the heartbeat stored last, as the reconciler reads it: closed (no
                \* players, not accepting, since the drain), ready, and (history)
                \* whether the client had given it up
    players,    \* players on the proxy
    faults

backends == <<life, msgs>>
registry == <<reg, snaps, sub, ready, sync, extra>>
proxy == <<plife, listener, admission, hb, late, row, players>>
vars == <<backends, registry, proxy, faults>>

Idle == [kind |-> "none", step |-> "idle", got |-> {}]
NoHeartbeat == [step |-> "idle", ready |-> FALSE, empty |-> FALSE]
NotClosed == [closed |-> FALSE, ready |-> FALSE, late |-> FALSE]
Reports == [ready : BOOLEAN, empty : BOOLEAN]

Reloads == [kind : {"none", "sync", "refresh", "extra"},
            step : {"idle", "asked", "got", "applied", "cleared"},
            got : SUBSET Backends]

TypeOK ==
    /\ life \in [Backends -> {"STARTING", "RUNNING", "DRAINING", "STOPPED"}]
    /\ msgs \subseteq {"UPDATED", "UNREGISTERED"} \X Backends
    /\ reg \subseteq Backends /\ snaps \subseteq Backends
    /\ sub \in BOOLEAN /\ ready \in BOOLEAN
    /\ sync \in Reloads /\ extra \in Reloads
    /\ plife \in {"STARTING", "RUNNING", "DRAINING", "STOPPED"}
    /\ listener \in BOOLEAN
    /\ admission \in {"closed", "open", "draining"}
    /\ hb \in [step : {"idle", "sent", "RUNNING", "DRAINING"},
               ready : BOOLEAN, empty : BOOLEAN]
    /\ late \subseteq Reports
    /\ row \in [closed : BOOLEAN, ready : BOOLEAN, late : BOOLEAN]
    /\ players \in 0..MaxPlayers /\ faults \in 0..MaxFaults

\* onInitialize has subscribed and asked for the first snapshot.
Init ==
    /\ life = [b \in Backends |-> "STARTING"]
    /\ msgs = {} /\ reg = {} /\ snaps = {}
    /\ sub = TRUE /\ ready = FALSE
    /\ sync = [kind |-> "sync", step |-> "asked", got |-> {}] /\ extra = Idle
    /\ plife = "STARTING" /\ listener = FALSE
    /\ admission = "closed"
    /\ hb = NoHeartbeat /\ late = {} /\ row = NotClosed /\ players = 0
    /\ faults = 0

Fault == faults < MaxFaults /\ faults' = faults + 1
Alive == plife # "STOPPED"

-----------------------------------------------------------------------------
(* The orchestrator: backends and their events                             *)

\* listProxyServers
ListProxyServers == {b \in Backends : life[b] = "RUNNING"}

Publish(type, b) == msgs' = msgs \cup {<<type, b>>}

\* markReady; SERVER_REGISTERED and SERVER_UPDATED are handled alike.
MarkReady(b) ==
    /\ life[b] = "STARTING"
    /\ life' = [life EXCEPT ![b] = "RUNNING"]
    /\ Publish("UPDATED", b)
    /\ UNCHANGED <<registry, proxy, faults>>

\* publishRoutingUpdate: after every join, leave and heartbeat, of a row that is
\* RUNNING when it is read.
PublishRoutingUpdate(b) ==
    /\ life[b] = "RUNNING"
    /\ Publish("UPDATED", b)
    /\ UNCHANGED <<life, registry, proxy, faults>>

\* beginDrain (or failInstance), and later stopAndDelete, call unregisterBackend.
UnregisterBackend(b) ==
    /\ life[b] \in {"RUNNING", "DRAINING"}
    /\ life' = [life EXCEPT ![b] = IF @ = "RUNNING" THEN "DRAINING" ELSE "STOPPED"]
    /\ Publish("UNREGISTERED", b)
    /\ UNCHANGED <<registry, proxy, faults>>

-----------------------------------------------------------------------------
(* The plugin: events                                                      *)

\* handleRedisMessage with update, register and unregister: unregister only
\* knows the servers that are in snapshots.
HandleRedisMessage(type, b) ==
    /\ Alive /\ sub /\ <<type, b>> \in msgs
    /\ msgs' = msgs \ {<<type, b>>}
    /\ IF type = "UPDATED"
       THEN snaps' = snaps \cup {b} /\ reg' = reg \cup {b}
       ELSE snaps' = snaps \ {b} /\ reg' = IF b \in snaps THEN reg \ {b} ELSE reg
    /\ UNCHANGED <<life, sub, ready, sync, extra, proxy, faults>>

\* selectHub: what onInitialServer and onKicked choose from.
SelectHub == snaps \cap reg

\* Redis keeps nothing for a subscriber that is away.
MessageLost ==
    /\ msgs # {}
    /\ \/ ~sub /\ msgs' = {} /\ UNCHANGED faults
       \/ sub /\ Fault /\ \E m \in msgs : msgs' = msgs \ {m}
    /\ UNCHANGED <<life, registry, proxy>>

-----------------------------------------------------------------------------
(* The plugin: reloads                                                     *)

Ask(kind) == [kind |-> kind, step |-> "asked", got |-> {}]

\* MUTANT of RefreshRegistry: only a proxy that is not ready asks again
RefreshOnlyUnready ==
    /\ Alive /\ sync = Idle /\ ~ready /\ sub
    /\ sync' = Ask("sync")
    /\ UNCHANGED <<backends, reg, snaps, sub, ready, extra, proxy, faults>>

\* refreshRegistry, every 30 seconds: a proxy that is not ready subscribes again
\* (synchronizeRegistry), if the connection is open.
RefreshRegistry ==
    /\ Alive /\ sync = Idle
    /\ \/ ready /\ sync' = Ask("refresh")
       \/ ~ready /\ sub /\ sync' = Ask("sync")
    /\ UNCHANGED <<backends, reg, snaps, sub, ready, extra, proxy, faults>>

\* transferPlayers finds no target, or a message cannot be read.
ReloadForTransfer ==
    /\ Alive /\ sub /\ extra = Idle
    /\ extra' = Ask("extra")
    /\ UNCHANGED <<backends, reg, snaps, sub, ready, sync, proxy, faults>>

\* onRedisDisconnected
RedisDisconnected ==
    /\ Alive /\ sub /\ Fault
    /\ sub' = FALSE /\ ready' = FALSE
    /\ UNCHANGED <<backends, reg, snaps, sync, extra, proxy>>

\* onRedisConnected: synchronizeRegistry, which does nothing if a reload is under
\* way.
RedisConnected ==
    /\ Alive /\ ~sub
    /\ sub' = TRUE
    /\ sync' = IF sync = Idle THEN Ask("sync") ELSE sync
    /\ UNCHANGED <<backends, reg, snaps, ready, extra, proxy, faults>>

\* RegistryReconciliation.plan and its application: what is not in the snapshot
\* goes, what is missing comes, what is there with its address stays.
Reloaded(r) == reg' = r.got

\* One step of a reload: the orchestrator reads, the proxy's servers are
\* reconciled, snapshots is cleared, snapshots is filled.
ReloadStep(r) ==
    CASE r.step = "asked" -> [r EXCEPT !.step = "got", !.got = ListProxyServers]
      [] r.step = "got" -> [r EXCEPT !.step = "applied"]
      [] r.step = "applied" -> [r EXCEPT !.step = "cleared"]
      [] r.step = "cleared" -> Idle

Effect(r) ==
    /\ IF r.step = "got" THEN Reloaded(r) ELSE UNCHANGED reg
    /\ CASE r.step = "applied" -> snaps' = {}
         [] r.step = "cleared" -> snaps' = snaps \cup r.got
         [] OTHER -> UNCHANGED snaps

SyncStep ==
    /\ Alive /\ sync # Idle
    /\ sync' = ReloadStep(sync)
    /\ Effect(sync)
    /\ ready' = (ready \/ (sync.step = "cleared" /\ sync.kind = "sync"))
    /\ UNCHANGED <<backends, sub, extra, proxy, faults>>

ExtraStep ==
    /\ Alive /\ extra # Idle
    /\ extra' = ReloadStep(extra)
    /\ Effect(extra)
    /\ UNCHANGED <<backends, sub, ready, sync, proxy, faults>>

\* The subscription or the request fails.
ReloadFails ==
    /\ Alive /\ Fault
    /\ \/ sync.step = "asked" /\ sync' = Idle /\ ready' = FALSE /\ UNCHANGED extra
       \/ extra.step = "asked" /\ extra' = Idle /\ UNCHANGED <<sync, ready>>
    /\ UNCHANGED <<backends, reg, snaps, sub, proxy>>

-----------------------------------------------------------------------------
(* Admission                                                               *)

\* acceptingConnections
AcceptingConnections == Alive /\ listener /\ ready /\ admission = "open"

ListenerBound ==
    /\ Alive /\ ~listener
    /\ listener' = TRUE
    /\ UNCHANGED <<backends, registry, plife, admission, hb, late, row, players, faults>>

\* onPreLogin, onLogin
Login ==
    /\ AcceptingConnections /\ players < MaxPlayers
    /\ players' = players + 1
    /\ UNCHANGED <<backends, registry, plife, listener, admission, hb, late, row, faults>>

Logout ==
    /\ players > 0
    /\ players' = players - 1
    /\ UNCHANGED <<backends, registry, plife, listener, admission, hb, late, row, faults>>

\* sendHeartbeat, one at a time
SendHeartbeat ==
    /\ Alive /\ hb.step = "idle"
    /\ hb' = [step |-> "sent", ready |-> listener /\ ready,
              empty |-> players = 0 /\ ~AcceptingConnections]
    /\ UNCHANGED <<backends, registry, plife, listener, admission, late, row, players, faults>>

Report == [ready |-> hb.ready, empty |-> hb.empty]

\* MUTANT of Stored: a heartbeat from before the drain is as good
StoredEver(h, givenUp) ==
    IF h.empty THEN [closed |-> TRUE, ready |-> h.ready, late |-> givenUp] ELSE NotClosed

\* The row of proxy_heartbeats, as the reconciler reads it: last_seen_at, the time
\* of storing, must not be before draining_at.
Stored(h, givenUp) ==
    IF plife = "DRAINING" /\ h.empty
    THEN [closed |-> TRUE, ready |-> h.ready, late |-> givenUp] ELSE NotClosed

\* heartbeat of ProxyService: a STARTING proxy that is ready becomes RUNNING;
\* then, with the row locked, the heartbeat is stored.
StoreHeartbeat(h, givenUp) ==
    /\ plife' = IF plife = "STARTING" /\ h.ready THEN "RUNNING" ELSE plife
    /\ row' = Stored(h, givenUp)

\* It is answered with the lifecycle state and the permission of a proxy that is
\* RUNNING and ready.
ProxyHeartbeat ==
    /\ hb.step = "sent"
    /\ StoreHeartbeat(Report, FALSE)
    /\ hb' = IF plife' = "STARTING" THEN NoHeartbeat
             ELSE [step |-> plife', empty |-> FALSE,
                   ready |-> plife' = "RUNNING" /\ hb.ready]
    /\ UNCHANGED <<backends, registry, listener, admission, late, players, faults>>

\* Nobody waits for the answer any more; a newer heartbeat may have been stored.
LateHeartbeat(h) ==
    /\ Alive /\ h \in late
    /\ StoreHeartbeat(h, TRUE)
    /\ late' = late \ {h}
    /\ UNCHANGED <<backends, registry, listener, admission, hb, players, faults>>

\* apply of ProxyAdmission; draining is never taken back.
ApplyControl ==
    /\ hb.step \in {"RUNNING", "DRAINING"}
    /\ admission' = IF admission = "draining" \/ hb.step = "DRAINING" THEN "draining"
                    ELSE IF hb.ready THEN "open" ELSE "closed"
    /\ hb' = NoHeartbeat
    /\ UNCHANGED <<backends, registry, plife, listener, late, row, players, faults>>

\* The request or the reply is lost, as often as it likes, or the client gives up
\* after its 10 seconds a request that the server is still to store.
HeartbeatFails ==
    /\ hb.step # "idle"
    /\ hb' = NoHeartbeat
    /\ \/ UNCHANGED <<late, faults>>
       \/ hb.step = "sent" /\ Fault /\ late' = late \cup {Report}
    /\ UNCHANGED <<backends, registry, plife, listener, admission, row, players>>

\* MUTANT of LeaseExpires: only a reply ends a permission
LeaseNeverExpires ==
    /\ admission = "open" /\ hb.step = "DRAINING"
    /\ admission' = "closed"
    /\ UNCHANGED <<backends, registry, plife, listener, hb, late, row, players, faults>>

\* controlLeaseMs pass without a reply: allows is false from then on.
LeaseExpires ==
    /\ admission = "open"
    /\ admission' = "closed"
    /\ UNCHANGED <<backends, registry, plife, listener, hb, late, row, players, faults>>

\* beginDrain of the proxy
BeginDrain ==
    /\ plife = "RUNNING"
    /\ plife' = "DRAINING"
    /\ UNCHANGED <<backends, registry, listener, admission, hb, late, row, players, faults>>

\* stopAndDelete of the proxy: its heartbeat says empty and closed (nothing is asked
\* of ready), or drain_deadline has passed.
StopProxy(deadline) ==
    /\ plife = "DRAINING" /\ (row.closed \/ deadline)
    /\ plife' = "STOPPED"
    /\ listener' = FALSE /\ hb' = NoHeartbeat /\ players' = 0
    /\ late' = {} /\ row' = NotClosed
    /\ admission' = "closed"
    /\ reg' = {} /\ snaps' = {} /\ sub' = FALSE /\ ready' = FALSE
    /\ sync' = Idle /\ extra' = Idle /\ msgs' = {}
    /\ UNCHANGED <<life, faults>>

-----------------------------------------------------------------------------
HandleMessages == \E type \in {"UPDATED", "UNREGISTERED"}, b \in Backends :
                      HandleRedisMessage(type, b)

Next ==
    \/ \E b \in Backends : MarkReady(b) \/ PublishRoutingUpdate(b) \/ UnregisterBackend(b)
    \/ HandleMessages \/ MessageLost
    \/ RefreshRegistry \/ ReloadForTransfer \/ RedisDisconnected \/ RedisConnected
    \/ SyncStep \/ ExtraStep \/ ReloadFails
    \/ ListenerBound \/ Login \/ Logout
    \/ SendHeartbeat \/ ProxyHeartbeat \/ ApplyControl \/ HeartbeatFails
    \/ \E h \in Reports : LateHeartbeat(h)
    \/ LeaseExpires \/ BeginDrain \/ \E deadline \in BOOLEAN : StopProxy(deadline)

\* The refresh is scheduled, requests and connections come to an end, events are
\* handled and time passes; heartbeats need not get through.
Fairness ==
    /\ WF_vars(RefreshRegistry) /\ WF_vars(SyncStep) /\ WF_vars(ExtraStep)
    /\ WF_vars(RedisConnected) /\ WF_vars(HandleMessages)
    /\ WF_vars(LeaseExpires)

Spec == Init /\ [][Next]_vars /\ Fairness

-----------------------------------------------------------------------------
(* Properties                                                              *)

\* The servers registered with the proxy are in the end the RUNNING ones, and the
\* proxy is ready, whatever events were lost, reordered or handled in the middle
\* of a reload; they are also the ones selectHub sees, except in the moment a
\* reload empties snapshots (reloadSnapshot, handleRedisMessage, unregister).
RegistryConverges ==
    <>[](Alive => /\ ready /\ reg = ListProxyServers
                  /\ \/ SelectHub = ListProxyServers
                     \/ "cleared" \in {sync.step, extra.step})

\* A draining proxy stops admitting players, even if no heartbeat ever gets
\* through again (ProxyAdmission.allows).
AdmissionEnds == <>[](plife \in {"DRAINING", "STOPPED"} => ~AcceptingConnections)

\* Whom a stop before drain_deadline may cut off (reconciler.ts:166).  A proxy that
\* was ready when it reported itself empty and closed, in a request it did not give
\* up, has nobody on it when it is stopped, although players log in between the
\* reading and the storing of heartbeats.  Of the other two reports, which stop a
\* proxy as well, it is false: one that is not ready gets ready again while its
\* permission lasts, and one stored late tells of a time before newer ones.
StoppedEmpty ==
    [][plife = "DRAINING" /\ plife' = "STOPPED" /\ row.closed
         => players = 0 \/ ~row.ready \/ row.late]_vars
=============================================================================
