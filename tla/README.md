# EnderCloud: a verification project

EnderCloud runs a Minecraft network. Players sit in hub servers, queue for
minigames, are matched into sessions, and are moved to warm Paper servers that
the orchestrator starts, watches, drains and stops on a set of execution hosts.
This directory models the control plane in TLA+, checks the models with TLC and
proves most of the checked safety properties with TLAPS. Sources are named relative to the
repository; line numbers are in `PROJECT.json`.

## The system

All durable state is in PostgreSQL. One orchestrator process runs HTTP handlers
(Paper and Velocity plugins, agents, dashboard) and a scheduler of periodic
controllers in one event loop. Every `await` is a point where any other handler
or controller may run, and a transaction is atomic towards the others. Nothing
in the process survives a restart.

| Component (orchestrator/src) | State it keeps | Operations | Talks to |
|---|---|---|---|
| `domain/matchmaking.ts` | none | feasible team profiles, ranking, eligibility | Matchmaker, QueueService, InstanceController |
| `services/queue-service.ts` | `queue_entries`, `queue_entry_players` | enqueue, leaveParty, networkDisconnected, cancelTicket | sessions' rosters |
| `services/matchmaker.ts` | `game_sessions`, `session_players` | one pass per group: assign waiting sessions, attach tickets, reserve instances, start transfers | TransferService (command rows) |
| `services/session-controller.ts` | no rows of its own | six stages of a tick: transfer and presence expiry, lobby deadlines, recovery of failed instances, release of consumed ones, end of drains | InstanceController, TransferService |
| `services/instance-controller.ts` | `server_instances`, `instance_players` | create, ready, fail, drain, stop, Paper events, assignment and acknowledgement | executor, every controller |
| `services/transfer-service.ts` | `transfer_commands`, receipts | enqueue, publish, complete, expire, cancel | Redis, Velocity |
| `services/hub-router.ts`, `domain/hub-routing.ts` | transfer commands | least-loaded hub under an advisory lock | TransferService |
| `services/instance-start-worker.ts` | `commands` | claim, execute and recover CREATE commands | InstanceController, VariantStartController |
| `services/variant-start-controller.ts` | `variant_start_states` | back-off, probe, block and reset of a variant | start worker, dashboard |
| `services/capacity-controller.ts`, `domain/capacity.ts` | none | warm pools, hub renewal | InstanceController |
| `services/reconciler.ts` | none | host probes, startup timeouts, missing runtimes, orphans | executor, HostService |
| `services/host-service.ts`, `domain/host-placement.ts` | `execution_hosts` | heartbeat, online, offline, drain, activate, placement | Reconciler, createWarm |
| `services/host-maintenance-controller.ts` | none | empty a draining host, replace its hubs | InstanceController |
| `services/proxy-service.ts`, `plugins/velocity` | `proxy_heartbeats`; registry and admission lease in the proxy | heartbeats, registry snapshots and events, admission | Redis, HTTP |
| `services/incident-controller.ts` | `operational_incidents` | detect, aggregate, resolve | dashboard |
| `services/variant-selector.ts`, `domain/variant-selection.ts` | selection state | weighted round of variants | createWarm |
| `configuration/sync.ts` | groups, variants, layers | load and reconcile the configuration at start | database |
| `agent/`, `executor/`, `services/template-archive-service.ts` | containers, template cache | create, stop, delete, list runtimes | Docker |
| `api/app.ts`, `scheduler.ts`, `index.ts` | none | routing, non-overlapping periodic tasks | all |
| `services/dashboard-service.ts`, `services/monitoring-service.ts`, `dashboard/` | none | read-only views | - |

### What is hard here

* A controller reads rows, awaits, and acts on them later: the session may have
  been cancelled, finished or moved meanwhile.
* Events of plugins are delivered late, twice or never, and an instance keeps
  sending events about a session that has left it.
* A handler commits and then makes a further call (a drain, the cancellation of
  commands); the process may die in between, and another controller has to
  finish the job.
* The two halves of a reservation (`game_sessions.instance_id`,
  `server_instances.session_id`) are written by five services.
* Deadlines race with the thing they wait for.

### What makes each part correct

* Queue, matchmaker and sessions: a reservation has two halves that agree; no
  stale decision drains or resets somebody else's instance; a game that has
  begun is closed; lobbies, consumed instances and lost sessions do not hang.
* Team arithmetic: the profiles are those of real assignments of whole tickets.
* Starts: at most one probe at a time of a failing revision, a failure count
  that means something, commands that are RUNNING only while somebody runs
  them, instances and runtimes that do not outlive each other, resets that end.
* Hosts and capacity: a host in maintenance is empty, one replacement comes up
  at a time, the last hub in service is not drained.
* Assignments: a roster that is acknowledged was delivered, whoever is
  connected has a presence row, and both tables settle on what is the case.
* Transfers and hubs: commands to routable hubs do not compete, the router does
  not overbook, a cancelled game is evacuated.
* Proxies: the registry converges to the running servers, admission ends
  without anybody saying so, and a proxy that is stopped before its drain
  deadline, on a report of a ready proxy that came in time, has nobody on it. (On
  other reports it may have: see Observed while modelling.)
* Files: what is mounted in a container is the overlay of the layers frozen in
  its CREATE command; ports are distinct; what a boot leaves is usable.
* Incidents: what lasts is listed, what is over is resolved.
* Console: a payload is true of one moment, the clock does not go back, a retry
  hits the revision it was asked for.

## Modules

| Module | Models | Role |
|---|---|---|
| `Teams` | `domain/matchmaking.ts` and the eligibility tests of its callers | pure operators |
| `GameSessions` | QueueService, Matchmaker, SessionController, Paper events and the lifecycle of instances, of one minigame group; uses `Teams` | implements `Reservations` |
| `Reservations` | what matchmaker, games, drains and recovery promise each other about the instances of a group | abstract specification |
| `InstanceStarts` | createWarm, executeCreate, failInstance, stopAndDelete, InstanceStartWorker, VariantStartController, Reconciler, for one revision of a variant | state machine |
| `Fleet` | HostService, placement, CapacityController, HostMaintenanceController, hub renewal, the host part of the Reconciler | state machine |
| `Transfers` | TransferService, HubRouter, evacuation, the connections of the Velocity plugin | state machine |
| `Proxies` | ProxyService, registry events, EnderCloudVelocityPlugin, RegistryReconciliation, ProxyAdmission | state machine |
| `Deployments` | what the execution side promises about the files of an instance | abstract specification |
| `Agents` | configuration/sync.ts, CREATE and DELETE requests, TemplateCache, archives, LocalDockerExecutor | implements `Deployments` |
| `Incidents` | IncidentController and the Scheduler that reports to it | state machine |
| `Assignments` | the Paper plugin's events, polls and acknowledgements and their handlers | state machine |
| `Console` | DashboardService, MonitoringService, the pages' queries, the shared clock, the retry of a variant; uses `Teams` | state machine |
| `MCTeams`, `MC...` | - | the same for TLC: values of constants, symmetry; `MCTeams` also enumerates policies and tickets and defines what the profiles should be |
| `GameSessionsProofs`, `InstanceStartsProofs`, `FleetProofs`, `TransfersProofs`, `AgentsProofs`, `IncidentsProofs`, `AssignmentsProofs`, `ConsoleProofs` | - | TLAPS proofs about the module they are named after; `TransfersProofs` also about `Proxies`, `ConsoleProofs` also about `Teams` and `MCTeams` |

The machines meet at the rows they share, and each takes what the others do to
those rows as coarse steps of its environment. `GameSessions` takes instances as
they come out of a start (`STARTING`) and has what happens to them later as
`MarkReady`, `FailInstance`, `ReconcileStop`, `FinishStop`, `CleanupReset`;
`InstanceStarts` has the same operations statement by statement and leaves
sessions out (`BeginDrain` may happen to any running instance). `Fleet` follows
the instances of a hub group across hosts and replacements and has a start as
two steps. `Transfers` starts where a session or a hub has been chosen;
`Assignments` looks at one instance and one session message by message;
`Proxies` takes the lifecycle of backends as a source of registry events;
`Agents` refines the one step in which `InstanceStarts` lets an agent create a
runtime into downloads, staging, renaming and starting.

### Conventions

* A database transaction, or a single statement outside one, is one action. Row
  locks and advisory locks are what makes a transaction one step; where the code
  has several statements without a transaction they are several actions. `now()`
  is the moment of the step, though PostgreSQL's is that of the transaction's start.
  Two things are one step that are more in the code. `TransferPlayers` reads at one
  moment what `transferPlayers` reads with four SELECTs (READ COMMITTED) under the
  advisory lock: no other route can come between them, so nobody enqueues a
  command to a hub; what can come between is listed under Observed. And
  `ExpirePlayerPresence` of `Assignments` leaves out the SELECT that names the rows,
  since the transaction of each tests its deadline again.
* What a method has yet to do after an `await` is part of the state: `stage`,
  `rows` and `drainCalls` in `GameSessions`, `calls`, `seen` and `reset` in
  `InstanceStarts`, `rec`, `cap`, `maint` and `handoffs` in `Fleet`, `tick` and
  `loop` in `Incidents`, `fetches` in `Console`. A restart empties them and
  leaves the tables alone.
* Time is abstract, except in `Console`, where instants are numbers. A deadline
  may pass before, after or between any two other steps, which is more than the
  durations of a configuration allow.
* Events of plugins may be delivered at any time the server could have sent
  them, again, or never. Agents may finish a request nobody waits for.
* Operators that begin with MUTANT in their comment are plausible faults of the
  definition after them. No specification uses one; each property is known to be
  violated when its mutant takes the place of the definition.
* Logs, audit events and wording are left out.

### GameSessions

| State | Column or variable |
|---|---|
| `tState`, `tParty`, `tMembers`, `tSession`, `tStarted` | `queue_entries` (state, party, session_id, transfer_started_at IS NOT NULL) and `queue_entry_players` |
| `sState`, `sInst`, `sAcq`, `sStale` | `game_sessions` state, instance_id and its two deadlines |
| `pState`, `pTicket` | `session_players` |
| `life`, `avail`, `iSession`, `failed` | `server_instances` |
| `present`, `pending` | `instance_players`, PENDING `transfer_commands` |
| `stage`, `rows` | the stage `SessionController.tick` is in and the rows of its SELECT it has yet to handle |
| `drainCalls` | event handlers between their commit and `beginDrain` |

`Enqueue`, `LeaveParty`, `NetworkDisconnected` are the QueueService operations
(`CancelTicket` is what they share). `AssignWaiting`, `ReturnToForming` and
`AttachTicket` are what one pass of the matchmaker does for one session or one
ticket; the ranking of sessions and the tests of eligibility are those of
`Teams`. `PlayerJoined` ... `GameFinished` are the Paper events. The six stages
of the session tick are `ExpireTransfers`, `ExpirePresence`, and for the four
that loop over a snapshot `NextStage` (the SELECT) and the `...Row` actions (one
per row). `StageFails` and `Crash` are a thrown stage and a restart.

`Reservations` has an instance's `phase`, the session it was reserved for
(`holder`), the instance of each session (`lease`) and the sessions that are
`over`. `GameSessions` implements it with session_id as `holder`, instance_id as
`lease`, and a phase that is *failed* once there is a failure_reason, whatever the
instance's lifecycle goes on to. That a session whose instance failed gives it up
although it is over is what the code does (see below), so `GiveUp` allows it.

### InstanceStarts

| State | Column or variable |
|---|---|
| `life`, `ready`, `retained`, `due` | `server_instances` lifecycle_state, running_at, runtime_retained, startup_deadline |
| `cmd` | state of the CREATE row in `commands` |
| `row`, `probes` | the `variant_start_states` row; a history of the probes it granted |
| `revised` | whether the configuration has a newer revision |
| `runtime`, `agent` | the containers on the hosts and the requests agents work on |
| `calls` | `<<caller, next step, instance>>` for every call under way |
| `seen` | what the reconciler's first SELECT said of each instance |
| `reset` | where `cleanupReset` is and what it has left to do |

A start is `CreateWarm` (the transaction), `Claim` (the worker), `AskAgent`,
`AgentCreates`, `CommitCreate`, `ServerReady`, `ClearPolicy`; or it goes wrong
through `RefuseCreate`, `ObsoleteCreate`, `CreateThrows`, `FailInstance` and
`RecordFailure`. An instance is removed by `BeginStop`, `DeleteRuntime`,
`MarkStopped`, on behalf of the worker (after a counted failure) or of the
reconciler. The reconciler is `ReconcilerReads`, `ReconcilerLists` (the
inventories come after the rows), then one call per row, awaited one after the
other, and `DeleteOrphan`. A reset is one action per statement of
`cleanupReset`.

### Fleet

| State | Column or variable |
|---|---|
| `admin`, `health`, `alloc` | `execution_hosts` admin_state, health_state, allocatable resources |
| `life`, `host`, `replaces`, `due` | `server_instances` lifecycle_state, host_id, replaces_instance_id, renewal_deadline passed |
| `reach`, `enabled` | the agent answers; the group is enabled |
| `rec`, `cap`, `maint`, `handoffs` | rows of a lost host to fail, the decision of a capacity tick, what a maintenance tick has read, `completeReplacement` calls about to drain |

`CapTick` is the tick up to its first write, `CapRenew`, `CapCreate` and
`CapDrain` its writes; `MaintTick`, `DrainHost`, `MarkMaintenance`, `MaintFail`
and `MaintReplace` are the maintenance tick; `Heartbeat`, `RecordControlFailure`,
`RequestDrain`, `Activate`, `MarkOnline`, `MarkOffline` the operations on a host.
`CreateWarm` is one transaction with placement in it (`SelectForPlacement`), as
the group and host rows are locked until it commits.

### Transfers

`cmds` are the PENDING `transfer_commands` with the players whose receipt is
PENDING and an age (new, published, late); `present` is `instance_players`; `at`
and `flights` are where players are and where the proxy is connecting them.
`RequestHub`, `EvacuateCancelledMinigame` and `SendToSession` enqueue;
`TransferTick` observes arrivals, completes, expires and publishes, and any of
the publications may be lost; `Arrive`, `Disconnect`, `InitialServer` and
`Report` are proxy and Paper; `HubDown` and `HubUp` change which hubs can be
routed to.

### Proxies

`life` and `msgs` are the backends and the registry events on the bus; `reg`,
`snaps`, `sub`, `ready` the plugin's registry; `sync` and `extra` the two
reloads that may overlap, each in four steps (asked, got, applied, cleared);
`admission`, `listener`, `plife`, `players` are the control lease, the listener, the
row of the proxy and who is on it. `hb` is the heartbeat in flight, `late` those
whose client gave up after ten seconds and which the server stores all the same
(`LateHeartbeat`), `row` the one stored last: `closed` is all the reconciler asks of it,
`ready` and `late` (a history) say what kind of report it was. Equal reports that are
late count as one.

### Agents and Deployments

| State | Code |
|---|---|
| `doc`, `files` | descriptors and template files on disk, edited at any time |
| `boot`, `db` | what `configuration/sync.ts` has read so far, and has committed |
| `life`, `cmd`, `frozen`, `awaits` | the instance, its CREATE command, the checksums frozen in it, the request the orchestrator waits for |
| `req`, `del` | create requests (two at a time) and the delete request in the agent, at their step |
| `downloads`, `cache` | `TemplateCache`: what has been read, what was verified |
| `dir`, `container` | the runtime directory and the container with its port and mount |

A checksum is the content it is the hash of. `Deployments` has two variables,
the layers planned for an instance and its directory, and says that the
directory, when there is one, is the overlay of exactly those layers. `Agents`
implements it with `plan` the contents the frozen checksums stand for and `data`
the directory; downloads, staging, retries and restarts are stuttering steps.

### Incidents

`row` and `count` are the unresolved incident of each fingerprint, `resolved`
those with a RESOLVED row; `tick` is where `IncidentController.tick` is and what
it has yet to write, `loop` where each scheduled task is, `healthy` the set in
memory. `Detect` is the six detectors on the cluster as it is at the SELECT. What they
look at is the host (`health`, `admin`), the enabled `variants` of the group, how many of
its instances are pending, open, busy or only holding resources (`inst`), and the
policies and counters of failures. `DetectCapacity` counts each instance once per
enabled variant, as the join does, takes the greater of the deficits of instances
and of warm instances, and reports it when the group is at its maximum or the host
has no room. `Present` says of the cluster itself what each detector is after.

### Assignments

`roster`, `current`, `present` are `session_players`, `assignment_revision` and
`instance_players`; the revision only grows, so the state keeps who holds the
current one (`current`) in place of a number. `view` and `readyAcked` are the
plugin's, `events`, `polls` and `ack` the messages under way. `getAssignment` is
`ReadSession` and `ReadPlayers`.

### Console

`db` has the rows the open page reads, `fetches` the page's request and one it
has given up, at their statement; `screen`, `anchor`, `published` are the query
cache and `lib/clock.ts`; `posts` the retries under way. A behaviour has one page
open. `Get...` are the queries of each page, with and without a transaction as in
the code.

## Runs

| Run | Constants | Shows |
|---|---|---|
| `teams` | up to 3 teams of 3, 5 tickets, every policy of that size | `ProfilesAreAssignments`, `RostersPlayable` |
| `parties` | 2 players, 2 tickets, 2 sessions, 1 instance | `AssignmentConsistent`, `GameClosed`, `CommandsStayHome`, `GameOnlyShrinks`, `ImplementsReservations` |
| `recovery` | 1 player, 1 ticket, 1 session, 2 instances, 1 fault | `DrainOnlyTerminal`, `RecoveryCurrent`, `LobbiesEnd`, `NothingLeftBehind` |
| `starts` | 2 instances, 1 retry, 1 create at a time, 1 fault | `RunningCommandsOwned`, `FailuresAreProbes`, `RuntimesDeletedOnPurpose`, `ResetsComplete` |
| `removal` | 1 instance, no retry, 3 faults | `FailedInstancesReaped`, `StoppedHaveNoRuntime` |
| `fleet` | 2 hosts with room for 2, 3 instances, 1 fault, 1 drain | `MaintenanceEmpty`, `OneReplacement`, `ServiceKept` |
| `transfers` | 2 players (one party), 2 hubs with room for 1, a game, 2 commands, 1 fault | `NoCompetingCommand`, `NeverOverbooked`, `Evacuated` |
| `proxies` | 1 backend, 1 player, 1 fault | `RegistryConverges`, `AdmissionEnds`, `StoppedEmpty` |
| `agents` | 2 instances, 1 port, 2 layers, 4 descriptors, 2 edits, 1 fault | `PortsDistinct`, `SnapshotUsable`, `RetriesKeepData`, `ImplementsDeployments` |
| `incidents` | 1 task beside the incident loop, threshold 2, a group of at most 2 instances (minimum 2, 1 of them warm) with 1 or 2 variants, a host for 3, 3 changes, 1 fault | `HealthyMeansResolved`, `LastingConditionsListed`, `PastConditionsResolved` |
| `assignments` | 1 player, 2 polls, 1 event in flight, 2 moves, 1 fault | `AckedWasDelivered`, `ConnectedIsPresent`, `RosterSettles`, `PresenceSettles` |
| `console` | 2 tickets, 2 revisions, 4 instants, 3 samples | `PayloadsAdd`, `ClockForward`, `RetryHitsItsRevision` |

### Bounds and why they are enough

The bounds on rows say how many are ever inserted or exist at once; `MaxFaults`
says how many restarts, thrown calls, lost messages, lost hosts or servers
happen, and every fault may fall between any two steps.

* `parties`, `recovery`: two sessions and one instance are what competing for an
  instance takes; one session and two instances what failing over and being
  overtaken by a stale recovery takes; two players and two tickets what a party,
  a backfill and a late join take.
* `starts`, `removal`: two instances are a probe or first failure and a sibling in
  flight; one retry separates BACKING_OFF, PROBING and BLOCKED; three faults
  interrupt the removal of one instance three times. One create at a time leaves the
  sibling's command queued, and makes a second one in hand exceed the limit. A reset
  that begins when the configuration has a new revision meets the sibling anywhere
  on its way: its command PENDING (`ResetCancels`, `ResetMarks`) or RUNNING, for which
  it waits. The reset an operator asks for needs a BLOCKED revision, hence with one
  retry both instances' failures, and meets no running command at these bounds; the
  steps from there on are the same.
* `fleet`: three instances are a source, its replacement and a bystander; two
  hosts, one of which may be drained while the other one is full. The group keeps
  at least one warm instance. `configuration/sync.ts` also accepts a maximum of 0
  warm instances; then `ServiceKept` is false, because `decideCapacity` counts
  DRAINING instances toward the floor while it drains RUNNING ones.
* `transfers`: two hubs with one place each, so that the second player of the party
  has to go elsewhere; two commands to compete.
* `agents`: one port for two instances; two edits, so that a layer changes
  between boot and download and again during it; two create requests of one
  instance in the agent, and one call given up.
* `proxies`, `assignments`: servers and players are treated by themselves; two
  polls overtake each other; one fault is a lost event, answer or connection, or a
  heartbeat that is stored after it was given up.
* `incidents`: three changes make a condition come, go and come back; a
  threshold of 2 is the first that counts. A minimum of 2 with 1 warm tells the two
  deficits apart, a maximum of 2 on a host for 3 the two reasons to be blocked, and
  two variants make the detector count double. What it does then is wrong both ways
  (see Observed), so both liveness properties suppose, for capacity only, that the
  group keeps to one variant in the end (`Judged`); until then it may have two, and
  what the detector got wrong meanwhile must be put right.
* `console`: two tickets show a page half old and half new; two revisions a stale
  retry; four instants cross the boundary of a point and the end of retention.

Symmetry is used in `parties`, `fleet` and `agents`, which check no liveness, and
whose symmetric sets are never compared or chosen among by identity. Deadlock is
checked wherever the system cannot stop by itself; with faults, players or edits
used up some of the machines may.

### Fairness

All fairness is weak.

* `GameSessions`, `InstanceStarts`: of what the scheduler calls periodically and
  skips only while the last call runs, of calls under way, which the event loop
  continues unless the process dies, of deadlines, and of agents, whose requests
  have a timeout. Steps of one task share one condition (`WorkerStep`,
  `ReconcilerStep`, `ResetStep`) where the code awaits them in turn.
* `Transfers`: the tick and the evacuation run again and again, a plugin reports
  its players, a connection ends, a hub that went away comes back.
* `Proxies`: the refresh is scheduled, reloads and messages are handled, a lease
  expires. Nothing is assumed of heartbeats.
* `Incidents`: timers fire, each run ends, time passes.
* `Assignments`: the plugin's timers and the orchestrator's loops run, and a request
  that is not lost is handled.

Nothing is assumed of players, games, servers becoming ready, operators, edits,
faults, capacity or the matchmaker.

## What is proved

| Theorem | Property | For all values of | Argument |
|---|---|---|---|
| `GameSessionsProofs!TypeCorrect` | types | all constants | a lemma per group of actions |
| `AssignmentsAgree` | `AssignmentConsistent` | all constants | `ReservationInv` |
| `DrainsAreSafe` | `DrainOnlyTerminal` | " | `ReservationInv` |
| `CommandsTargetOwnInstance` | `CommandsStayHome` | " | `ReservationInv` |
| `RecoveryIsCurrent` | `RecoveryCurrent` | " | `ReservationInv` |
| `SessionsImplementReservations` | `ImplementsReservations` | " | `ReservationInv`, `FailedAreDown`, `Kinds` |
| `ReservationsAreKept` | `ReservationsStick`, stated with it | " | one step, from `ReservationInv` |
| `GamesAreClosed` | `GameClosed` | " | `GameClosed` is inductive over the types, by `Plays` |
| `GamesOnlyShrink` | `GameOnlyShrinks` | " | one step, by `Plays` |
| `InstanceStartsProofs!TypeCorrect` | types | all constants | `CountInv` |
| `FailuresCountProbes` | `FailuresAreProbes` | " | `CountInv` |
| `RunningAreOwned` | `RunningCommandsOwned` | " | types and the calls of the worker |
| `DeletionsAreMeant` | `RuntimesDeletedOnPurpose` | " | `PurposeInv` |
| `FleetProofs!TypeCorrect` | types | finite instances | `TypeParts` |
| `MaintenanceIsEmpty` | `MaintenanceEmpty` | " | `MaintInv` |
| `ReplacementIsSingle` | `OneReplacement` | " | `ReplInv` |
| `ServiceIsKept` | `ServiceKept` | " and a maximum of warm instances of at least 1 | `CalmInv` |
| `TransfersProofs!TypeCorrect` | types, finitely many commands | finite players | `Typed` |
| `CommandsDoNotCompete` | `NoCompetingCommand` | " | `Descends` |
| `HubsAreNotOverbooked` | `NeverOverbooked` | " | `Descends`, `AllocationFits` |
| `StoppedProxiesAreEmpty` | `StoppedEmpty` of `Proxies` (ready, in-time reports only) | all constants | `ReportsHold` |
| `AgentsProofs!TypeCorrect` | types | all constants | `TypeInv`, `BootInv` |
| `PortsAreDistinct` | `PortsDistinct` | " | inductive over the types |
| `SnapshotIsUsable` | `SnapshotUsable` | " | `BootInv` |
| `RetriesKeepTheData` | `RetriesKeepData` | " | `RetryInv` |
| `AgentsImplementDeployments` | `ImplementsDeployments` | " | `DeployInv`, `CopyIsOverlay` |
| `IncidentsProofs!Invariant` | types, detectors' own rows, `HealthyMeansResolved` | all constants | `IInv` |
| `HealthyAreResolved` | `HealthyMeansResolved` | " | `IInv` |
| `AssignmentsProofs!TypeCorrect` | types | all constants | a lemma per group of actions |
| `ConnectedArePresent` | `ConnectedIsPresent` | " | inductive over the types |
| `AckedAreDelivered` | `AckedWasDelivered` | " | `DeliveryInv` |
| `ConsoleProofs!Invariant` | what is known of requests, clock and rows | all constants | `Inv` |
| `ClockGoesForward` | `ClockForward` | " | `ClockInv`, `FetchInv` |
| `RetriesHitTheirRevision` | `RetryHitsItsRevision` | " | `RowsInv` |
| `PagesShowOneMoment` | `PayloadsAdd` | " | `PagesInv`, `Seats`, `SamplesInv` |
| `TeamsAssignments` | `ProfilesAreAssignments` | all constants | `FeasibleProfiles` |
| `TeamsPlayable` | `RostersPlayable` | " | `Seated` |

The assumptions are those the modules declare: bounds are naturals, limits the
code validates are positive, NULL is none of the rows. Two are about sets:
`Fleet` has finitely many instances and `Transfers` finitely many players, since
they count them and a number is all that `Cardinality` yields of a finite set.
The strengthenings named in the last column were given to TLC as invariants
before they were proved. Type invariants are theorems and not part of a run.

**Reservations.** `ReservationInv` is the conjunction of the four invariants and
two small ones (`ReservedTogether`: availability and session_id are written
together; `FailedHaveReason`). None of them is inductive alone. The recovery's
UPDATE names only the session, so that it resets the right assignment needs
`RecoveryCurrent`; that no other step can take the session away from a failed
instance between the snapshot and the UPDATE needs that its state fits having an
instance (`AssignmentConsistent`); that a drain meets a terminal session needs
the two halves to agree; and that `reserveInstance` cannot give an instance away
twice needs `ReservedTogether`. Most actions go through one frame lemma
(`Frame`). Closed games go through another (`PlayFrame`): a session that is played
after a step was played before it, with only players who left, or its roster was
closed in this step.

Every step is one of five kinds to a reservation (`Kinds`): it does not touch it,
it settles a session, it is one of an instance's life, it gives a free
instance away or it takes a session away from a failed one. Each kind is an action
of `Reservations` or none. That needs `ReservationInv`, for what the recovery
knows of its session, what a drain may assume of the instance, and that an OPEN
instance was never reserved; and `FailedAreDown`, that an instance with a
failure_reason is not RUNNING again, so that it cannot be given away.

**Starts.** `TypeOK` of `InstanceStarts` includes `failures <= RetryLimit + 1`,
which needs that a revision in PROBING is still within its limit, and that only
the first failure and the probe's are counted; so type and count are proved
together. That deletions are meant needs `PurposeInv`: whoever is about to delete
has marked the row, nobody takes the mark back, and an instance without a row has
no runtime, so that an orphan in an inventory that is newer than the rows cannot
be one that was created in between.

**Fleet.** `MaintInv` says that what a maintenance tick remembers is still so: a
host it will drain is DRAINING, a host it found empty is DRAINING and has stayed
empty, because placement takes ACTIVE hosts only. It makes the test of
admin_state in `markMaintenance` redundant. `ReplInv` adds to `OneReplacement`
that the source of a replacement has been RUNNING and never starts again.
`CalmInv` is about behaviours without faults and drains: hosts are ACTIVE and
reachable, at most one replacement is under way and its source is not FAILED, so
the replacement is neither replaced nor drained; what the capacity tick has yet
to drain has no source, and there is a RUNNING instance besides
(`DecisionLeaves`, by counting: warm - MaxWarm are drained at most). The steps
that count as fault or drain are treated apart (`DisturbancesDrainNothing`).

**Transfers.** A step of anything but the router leaves commands that `Descend`
from the ones before: each live command is what remains of one of them, of
another one each. So competition and load cannot have grown, but for a player who
appears on a hub without a command for it. The router's steps add commands to
players who have none to a routable hub, and not more than fit
(`AllocationFits`).

**Proxies.** The theorem about the drain of a proxy is at the end of
`TransfersProofs`, through an INSTANCE of `Proxies`. It is conditional: the stop is on
a heartbeat that said ready and whose client was still waiting. `ReportsHold`: such a
heartbeat on its way that says empty is still true of the proxy, because admission
opens only with a reply and there is one heartbeat at a time; so is the one stored
since the drain, and the reply under way does not permit admission any more. Neither
condition can be dropped: an unready proxy still has a lease that may admit once it is
ready, and a late heartbeat has newer ones before it.

**Agents.** `RetryInv`: unless two requests for an instance have ever been in the
agent at once, at most one is, none together with a delete, and a container that
exists has its directory. `DeployInv`: layers are frozen before there is a command,
the cache holds what its keys say, and what is staged is the overlay. That the
copy loop of `materializeLayers` computes the overlay (`CopyIsOverlay`) is an
induction over the layers, carried out by taking the least layer at which the two
would differ.

**Teams.** What `computeFeasibleProfiles` and the dashboard compute are folds over
sequences of tickets. No induction theorem of the library can be used about them
(they take an operator), so each induction is carried out on sets: the lengths,
or the subsets of a domain, for which a statement holds form a set that contains
the first and with every one the next, hence all. On that rest, in the order of
`ConsoleProofs`: sums over finite sets do not depend on the order in which they are
taken; the folds of the community modules are such sums (`ChosenFold`); two
profiles are the same when they have as many teams of each size (`SortAlike`); placing a ticket in one of two teams of equal size yields the same
profile, so that merging duplicates loses nothing; and the profiles after each
ticket are those of the assignments of the tickets so far (`FeasibleProfiles`).
`RostersPlayable` needs besides that players who have not arrived only make room,
and that a profile carries as many players as the tickets it was made from.
`Seated` is the invariant that makes it one about sessions: the matchmaker attaches
a ticket only where it fits (`CanPlace`), so the tickets attached so far always have
an assignment.

**Incidents, assignments, console.** A loop in `healthy` has no row because the
tick writes the rows of detectors only (`OwnRows`) and because recording a failure
takes the loop out of the set, whether or not the row can be written. An acknowledgement that is valid
implies delivery because the players are read after the revision (`DeliveryInv`).
The clock cannot run ahead because every request's stamp, the anchor and the
projected time are in the orchestrator's past (`FetchInv`, `ClockInv`).
A page shows one moment because every commit leaves the tables as `Agrees` says (a
session that has an instance holds its reservation, a reserved instance that
lives has its session, nobody is on the way to a session without an instance), because a
transaction reads the tables as they were at its first statement (`ReadInv`), and
because a bucket that was read with samples has not been pruned (`SamplesInv`).
Its sums need more. The players listed for a session are those its recommended
profiles seat because whoever is left of its tickets can be seated (`Seats`, kept by
every commit by the lemmas about teams). A series counts every
sample of a minute that is over because a bucket loses its samples only after its
retention, and nothing is added to a minute that is over: while the payload is
under way its lower bound can only shrink, and its upper bound only grow
(`SeriesKept`).

### Only model-checked

* Liveness (it needs fairness and ENABLED, which the prover cannot treat):
  `LobbiesEnd`, `NothingLeftBehind`, `FailedInstancesReaped`,
  `StoppedHaveNoRuntime`, `ResetsComplete`, `Evacuated`, `RegistryConverges`,
  `AdmissionEnds`, `LastingConditionsListed`, `PastConditionsResolved`,
  `RosterSettles`, `PresenceSettles`.

Every safety invariant and action property of a run is the subject of a theorem
above, each for all values of the constants.

## Observed while modelling

The models show these; none of them is a property of a run.

Sessions and players
* `recoverFailedInstances` resets a session by id only (session-controller.ts:243),
  so one that became terminal after the SELECT goes back to
  WAITING_FOR_INSTANCE, which `domain/state-machines.ts:21` does not allow; it
  keeps an acquisition deadline that has passed (:247). The assertion functions of
  `state-machines.ts` are called by tests only.
* After a late join the reset leaves CONNECTED players in a session without an
  instance, against the comment at session-controller.ts:241.
* A late PLAYER_JOINED (instance-controller.ts:1053) makes a player active in a
  session he left, although he is queued or plays elsewhere (CONCEPTS.md:148),
  and can exceed the maximum of a full lobby.
* A party may have several SELECTED entries (queue-service.ts:189); attachParty
  throwing for one of them repeats every pass (matchmaker.ts:409).
* A failed instance keeps its session_id, so its plugin still gets and
  acknowledges the session's assignment.

Starts, hosts and files
* FAILED is committed before `runtime_retained`, so the reconciler may remove a
  runtime that was to be kept (reconciler.ts:184, CONCEPTS.md:250). A runtime
  that is kept may be left without an owner (variant-start-controller.ts:255), and an
  instance kept FAILED keeps its DRAINING host from MAINTENANCE.
* A probe lost with its host leaves the revision in PROBING
  (instance-controller.ts:140, CONCEPTS.md:245).
* A crash between closing a failed CREATE command and failing its instance
  (instance-controller.ts:506) leaves the instance in CREATING, against
  ARCHITECTURE.md:73.
* `SERVER_READY` of a sibling deletes a BLOCKED policy. A reset cancels queued
  commands by the ids it has read (variant-start-controller.ts:429).
* `decideCapacity` counts DRAINING instances toward the minimum floor.
* CREATE requests of one instance that overlap in the agent delete the directory
  a container has mounted, against the comment at local-docker.ts:113; the
  directory of a late create without a container is never deleted.

Transfers, proxies, views
* A hub that goes away and comes back leaves a player in two PENDING commands
  until one expires, against hub-router.ts:103. A hub command that is PENDING is
  published again and pulls a player out of the game he is in by then; arrivals
  after expiry and a proxy's initial server may overfill a hub.
* `transferPlayers` looks for players on a hub (hub-router.ts:79) before it looks for
  those on their way (:105), and for loads (:145) before it writes. A player who
  arrives between the first two is found by neither and sent on to another hub; a
  hub that comes back after the second may be the target of a command that then
  competes; and whoever appears on a hub after the third is not in the load. These are
  the exceptions `NoCompetingCommand` and `NeverOverbooked` name, stretched over the
  transaction; the model has them before or after it.
* docs/PROXIES.md:136-139 says that a draining proxy "stops when a fresh heartbeat
  confirms zero players and closed admissions after drain started". The query
  (reconciler.ts:166-178) tests player_count, NOT accepting_connections and that
  last_seen_at is not before draining_at. Two reports pass that are no such
  confirmation, and in the model players are cut off in both ways long before the
  deadline. A proxy whose registry was not ready (Redis away) when it reported, under
  a lease that is still open, gets ready again and admits a player before it is told of
  the drain. And a report the client gave up after 10 seconds
  (EnderCloudClient.java:37, :151) is stored whenever the server gets to it
  (proxy-service.ts:26-44) with last_seen_at = now(): sent by a closed, empty
  proxy, stored in the drain, after the proxy has been opened by a newer one. (:138-139:
  "A stale heartbeat ... cannot authorize early shutdown".)
* A reload empties `snapshots` before it fills them; no hub can be selected in
  between.
* The join of the capacity detector (incident-controller.ts:280-283) counts each
  instance once per enabled variant of the group. With two variants a deficit that
  lasts is never listed (one instance of a minimum of two counts as two), and one that
  the host has room for is listed as GROUP_MAXIMUM_REACHED, against the comment at
  :325-326. Without `Judged` the `incidents` run fails both ways. Even with one variant
  GROUP_MAXIMUM_REACHED is listed while the host has room, when busy instances fill the
  group and none is warm.
* The session page shows the expiry of a PENDING transfer although
  lobby_stale_deadline may be earlier. The variants page does not poll, and a
  retry refreshes the cluster query only. `getGroupSeries` opens no transaction
  and takes its stamp before it reads. A retry posted twice may, when the second
  is late, reset a second block of the same revision.

## Plan

The modules, runs and theorems planned are there. What would come next is an abstract
specification of the life of a runtime, which `InstanceStarts` would implement by
`PurposeInv`, and one of the seats of a hub, which `Transfers` would by `Descends`.

## Not modelled

The public web site, mock data, layout and charts of the dashboard, the install
script, logging, authentication and routing of the HTTP API (I/O without state of
its own), the startup averages of monitoring, the weighted choice among several
variants (no property tells its outcomes apart), YAML syntax, and Docker itself,
whose answers are environment steps. In what is modelled: `candidate_window`,
several groups and several revisions at once (they share no rows but the hosts),
durations, the exponent of the backoff, and `resumeCreate`, which nothing calls.
