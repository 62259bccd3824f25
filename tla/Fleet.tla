------------------------------- MODULE Fleet -------------------------------
(***************************************************************************)
(* The execution hosts and the instances of one hub group on them:         *)
(* HostService (heartbeats, health, administration, placement),            *)
(* CapacityController, HostMaintenanceController, the host part of the     *)
(* Reconciler, and the replacement of instances (createWarm,               *)
(* completeReplacement, beginDrain of InstanceController).                 *)
(*                                                                         *)
(* A transaction or statement is one action.  The three loops keep what    *)
(* they have read (rec, cap, maint) and act on it later, one row at a      *)
(* time; a restart forgets it.  Time is abstract: startup and drain        *)
(* deadlines, offlineAfterMs and the grace period after a restart only say *)
(* that something may happen from some moment on, and it may happen at any *)
(* moment here.  The start policy and the retained runtimes are in module  *)
(* InstanceStarts.                                                         *)
(* A row that is STOPPED leaves the model and its place is used again: no  *)
(* statement of these services tells such a row from one that never was.   *)
(***************************************************************************)
EXTENDS Integers, FiniteSets

CONSTANTS
    Hosts, Instances,           \* execution hosts, instances at one time (bound)
    None,                       \* NULL
    Minimum, Maximum,           \* minimumInstances, maximumInstances
    MinWarm, MaxWarm,           \* minimumWarmInstances, maximumWarmInstances
    Target,                     \* targetPlayersPerInstance
    MaxDemand,                  \* bound: players on the hubs or on their way
    Request,                    \* runtime spec of the variant: [cpu, memory]
    Sizes,                      \* what an agent may report as allocatable
    MaxFaults,                  \* bound: restarts, lost hosts, dead servers
    MaxDrains                   \* bound: hosts an operator drains

ASSUME PolicyAssumption ==
    /\ {Minimum, Maximum, MinWarm, MaxWarm, MaxDemand} \subseteq Nat
    /\ Target \in Nat \ {0}
    /\ Request \in [cpu : Nat, memory : Nat]
    /\ \A s \in Sizes : s \in [cpu : Nat \ {0}, memory : Nat \ {0}]
ASSUME FleetBounds == {MaxFaults, MaxDrains} \subseteq Nat
ASSUME NoneAssumption == None \notin Hosts \cup Instances
ASSUME InstancesAssumption == IsFiniteSet(Instances)

VARIABLES
    \* execution_hosts: admin_state, health_state, the allocatable resources
    admin, health, alloc,
    \* server_instances: lifecycle_state, host_id, replaces_instance_id,
    \* renewal_deadline <= now()
    life, host, replaces, due,
    enabled,            \* server_groups.enabled
    reach,              \* the agent of the host answers
    \* what the loops still have to do: the rows of an OFFLINE host to fail, the
    \* decision of the capacity tick, the hosts and rows to drain
    rec, cap, maint,
    handoffs,           \* completeReplacement calls that are about to drain
    faults, drains

hostVars == <<admin, health, alloc, reach>>
instVars == <<life, host, replaces, due>>
loopVars == <<rec, cap, maint, handoffs>>
bounds == <<faults, drains>>
vars == <<hostVars, instVars, enabled, loopVars, bounds>>

-----------------------------------------------------------------------------
(* Rows                                                                    *)

Lives == {"NONE", "CREATING", "STARTING", "RUNNING", "DRAINING", "STOPPING",
          "FAILED"}
ActiveLives == {"CREATING", "STARTING", "RUNNING", "DRAINING"}

NoCap == [renew |-> None, create |-> 0, drain |-> {}]
NoMaint == [hosts |-> {}, empty |-> None, todo |-> {}]

TypeOK ==
    /\ admin \in [Hosts -> {"ACTIVE", "DRAINING", "MAINTENANCE"}]
    /\ health \in [Hosts -> {"RECOVERING", "ONLINE", "OFFLINE"}]
    /\ alloc \in [Hosts -> Sizes]
    /\ reach \in [Hosts -> BOOLEAN]
    /\ life \in [Instances -> Lives]
    /\ host \in [Instances -> Hosts \cup {None}]
    /\ replaces \in [Instances -> Instances \cup {None}]
    /\ due \in [Instances -> BOOLEAN]
    /\ enabled \in BOOLEAN
    /\ rec \subseteq Instances
    /\ cap \in [renew : Instances \cup {None}, create : 0..Maximum,
                drain : SUBSET Instances]
    /\ maint \in [hosts : SUBSET Hosts, empty : Hosts \cup {None},
                  todo : SUBSET (Instances \X {"fail", "replace"})]
    /\ handoffs \subseteq Instances
    /\ faults \in 0..MaxFaults /\ drains \in 0..MaxDrains

Init ==
    /\ admin = [h \in Hosts |-> "ACTIVE"]
    /\ health = [h \in Hosts |-> "RECOVERING"]
    /\ alloc \in [Hosts -> Sizes]
    /\ reach = [h \in Hosts |-> TRUE]
    /\ life = [i \in Instances |-> "NONE"]
    /\ host = [i \in Instances |-> None]
    /\ replaces = [i \in Instances |-> None]
    /\ due = [i \in Instances |-> FALSE]
    /\ enabled = TRUE
    /\ rec = {} /\ cap = NoCap /\ maint = NoMaint /\ handoffs = {}
    /\ faults = 0 /\ drains = 0

In(L) == {i \in Instances : life[i] \in L}
On(h) == {i \in Instances : host[i] = h}

-----------------------------------------------------------------------------
(* Placement                                                               *)

\* Reservations of every instance that is not STOPPED, failed ones included.
Reserved(h) ==
    [cpu |-> Cardinality(On(h)) * Request.cpu,
     memory |-> Cardinality(On(h)) * Request.memory]

Free(h) ==
    [cpu |-> alloc[h].cpu - Reserved(h).cpu,
     memory |-> alloc[h].memory - Reserved(h).memory]

Fits(h) == Free(h).cpu >= Request.cpu /\ Free(h).memory >= Request.memory

\* a/b <= c/d for the dominant reserved share of two hosts, as integers.
LessLoaded(g, h) ==
    LET below(a, b, c, d) == a * d <= c * b
    IN  \A f \in {"cpu", "memory"} : \E k \in {"cpu", "memory"} :
            below(Reserved(g)[f], alloc[g][f], Reserved(h)[k], alloc[h][k])

\* selectExecutionHost: a feasible host of the least dominant share; which of
\* several is decided by their ids and left open.
SelectExecutionHost(candidates) ==
    LET feasible == {h \in candidates : Fits(h)}
    IN  {h \in feasible : \A g \in feasible : LessLoaded(h, g)}

Candidates(excluded) ==
    {h \in Hosts \ {excluded} : health[h] = "ONLINE" /\ admin[h] = "ACTIVE"}

\* selectForPlacement: the group's maximum is tested first, under the lock of
\* the group row; the host rows are locked until the insert commits.
SelectForPlacement(excluded, limit) ==
    IF Cardinality(In(ActiveLives)) >= limit
    THEN {}
    ELSE SelectExecutionHost(Candidates(excluded))

-----------------------------------------------------------------------------
(* InstanceController: creation, readiness, replacement, failure, removal  *)

\* MUTANT of ReplacementActive: a replacement counts once it is RUNNING.
ForgetsStarting ==
    \E r \in In({"RUNNING"}) : replaces[r] # None /\ life[replaces[r]] # "FAILED"

\* Another replacement of the group is under way.
ReplacementActive ==
    \E r \in In({"CREATING", "STARTING", "RUNNING"}) :
        /\ replaces[r] # None
        /\ life[replaces[r]] # "FAILED"

\* The source may be replaced for this reason.
Replaceable(s, reason) ==
    /\ life[s] = "RUNNING"
    /\ reason = "HUB_RENEWAL" => due[s]
    /\ reason = "HOST_MAINTENANCE" => admin[host[s]] = "DRAINING"
    /\ ~ ReplacementActive

Limit(reason) == IF reason = "HOST_MAINTENANCE" THEN Maximum + 1 ELSE Maximum

\* The hosts createWarm may place a new or a replacement instance on.
Placement(s, reason) ==
    IF enabled /\ (s # None => Replaceable(s, reason))
    THEN SelectForPlacement(IF reason = "HOST_MAINTENANCE" THEN host[s] ELSE None,
                            Limit(reason))
    ELSE {}

\* createWarm as one transaction; nothing changes when no host is found.
CreateWarm(s, reason) ==
    \/ Placement(s, reason) = {} /\ UNCHANGED instVars
    \/ \E h \in Placement(s, reason), i \in In({"NONE"}) :
        /\ life' = [life EXCEPT ![i] = "CREATING"]
        /\ host' = [host EXCEPT ![i] = h]
        /\ replaces' = [replaces EXCEPT ![i] = s]
        /\ UNCHANGED due

\* InstanceStartWorker and the agent: CREATING -> STARTING with its deadline.
Start(i) ==
    /\ life[i] = "CREATING" /\ reach[host[i]]
    /\ life' = [life EXCEPT ![i] = "STARTING"]
    /\ UNCHANGED <<hostVars, host, replaces, due, enabled, loopVars, bounds>>

\* The reads of completeReplacement: both ends are RUNNING.
SourceRuns(r) == replaces[r] # None /\ life[replaces[r]] = "RUNNING"

\* MUTANT of Completes: the state of the replacement is not read.
CompletesUnready(r) == SourceRuns(r)

Completes(r) == life[r] = "RUNNING" /\ SourceRuns(r)

\* SERVER_READY: STARTING -> RUNNING with a renewal deadline, then
\* completeReplacement; a repeated SERVER_READY only does the latter.
MarkReady(i) ==
    /\ life[i] = "STARTING"
    /\ life' = [life EXCEPT ![i] = "RUNNING"]
    /\ due' = [due EXCEPT ![i] = FALSE]
    /\ handoffs' = IF SourceRuns(i) THEN handoffs \cup {i} ELSE handoffs
    /\ UNCHANGED <<hostVars, host, replaces, enabled, rec, cap, maint,
                   bounds>>

ReadyAgain(i) ==
    /\ life[i] = "RUNNING" /\ Completes(i)
    /\ handoffs' = handoffs \cup {i}
    /\ UNCHANGED <<hostVars, instVars, enabled, rec, cap, maint, bounds>>

\* beginDrain of an OPEN instance; nothing when it is no longer RUNNING.
Drained(i) ==
    IF life[i] = "RUNNING"
    THEN /\ life' = [life EXCEPT ![i] = "DRAINING"]
         /\ due' = [due EXCEPT ![i] = FALSE]
         /\ UNCHANGED <<host, replaces>>
    ELSE UNCHANGED instVars

\* The end of completeReplacement: beginDrain of the source.
CompleteReplacement(r) ==
    /\ r \in handoffs
    /\ handoffs' = handoffs \ {r}
    /\ Drained(replaces[r])
    /\ UNCHANGED <<hostVars, enabled, rec, cap, maint, bounds>>

\* failInstance; nothing when the instance is no longer active.
Failed(i) ==
    IF life[i] \in ActiveLives
    THEN /\ life' = [life EXCEPT ![i] = "FAILED"]
         /\ due' = [due EXCEPT ![i] = FALSE]
         /\ UNCHANGED <<host, replaces>>
    ELSE UNCHANGED instVars

\* stopAndDelete up to the calls of the agent ...
Stopping(i) ==
    IF life[i] \in {"DRAINING", "FAILED", "STOPPING"}
    THEN /\ life' = [life EXCEPT ![i] = "STOPPING"]
         /\ due' = [due EXCEPT ![i] = FALSE]
         /\ UNCHANGED <<host, replaces>>
    ELSE UNCHANGED instVars

\* ... and from their answer; without one the DELETE command fails and the
\* reconciler calls again.  The row is STOPPED: what the loops still wanted of
\* it, and the replacement that names it, find nothing any more.
FinishStop(i) ==
    /\ life[i] = "STOPPING" /\ reach[host[i]]
    /\ life' = [life EXCEPT ![i] = "NONE"]
    /\ host' = [host EXCEPT ![i] = None]
    /\ replaces' = [j \in Instances |-> IF i \in {j, replaces[j]} THEN None ELSE replaces[j]]
    /\ rec' = rec \ {i}
    /\ cap' = [cap EXCEPT !.renew = IF @ = i THEN None ELSE @, !.drain = @ \ {i}]
    /\ maint' = [maint EXCEPT !.todo = {t \in @ : t[1] # i}]
    /\ handoffs' = {r \in handoffs : i \notin {r, replaces[r]}}
    /\ UNCHANGED <<hostVars, due, enabled, bounds>>

-----------------------------------------------------------------------------
(* HostService: heartbeats, health, administration                         *)

\* heartbeat: an OFFLINE host becomes RECOVERING, never ONLINE.
Heartbeat(h) ==
    /\ reach[h] /\ health[h] = "OFFLINE"
    /\ health' = [health EXCEPT ![h] = "RECOVERING"]
    /\ UNCHANGED <<admin, alloc, reach, instVars, enabled, loopVars, bounds>>

\* recordControlFailure, from any call of the agent that gets no answer.
RecordControlFailure(h) ==
    /\ ~ reach[h] /\ health[h] = "ONLINE"
    /\ health' = [health EXCEPT ![h] = "RECOVERING"]
    /\ UNCHANGED <<admin, alloc, reach, instVars, enabled, loopVars, bounds>>

RequestDrain(h) ==
    /\ drains < MaxDrains /\ drains' = drains + 1
    /\ admin[h] = "ACTIVE"
    /\ admin' = [admin EXCEPT ![h] = "DRAINING"]
    /\ UNCHANGED <<health, alloc, reach, instVars, enabled, loopVars, faults>>

\* activate: the host must be reconciled again before it takes instances.
Activate(h) ==
    /\ admin[h] = "MAINTENANCE"
    /\ admin' = [admin EXCEPT ![h] = "ACTIVE"]
    /\ health' = [health EXCEPT ![h] = "RECOVERING"]
    /\ UNCHANGED <<alloc, reach, instVars, enabled, loopVars, bounds>>

-----------------------------------------------------------------------------
(* HostMaintenanceController                                               *)

\* tick: the hosts to drain are read once.
MaintTick ==
    /\ maint = NoMaint
    /\ \E h \in Hosts : admin[h] = "DRAINING"
    /\ maint' = [maint EXCEPT !.hosts = {h \in Hosts : admin[h] = "DRAINING"}]
    /\ UNCHANGED <<hostVars, instVars, enabled, rec, cap, handoffs, bounds>>

\* MUTANT of DrainHost: only the active instances keep the host from maintenance.
DrainHostActiveOnly(h) ==
    /\ h \in maint.hosts /\ maint.empty = None /\ maint.todo = {}
    /\ maint' =
        [hosts |-> maint.hosts \ {h},
         empty |-> IF On(h) \cap In(ActiveLives) = {} THEN h ELSE None,
         todo |-> {<<i, "fail">> : i \in On(h) \cap In({"CREATING", "STARTING"})}
                  \cup {<<i, "replace">> : i \in On(h) \cap In({"RUNNING"})}]
    /\ UNCHANGED <<hostVars, instVars, enabled, rec, cap, handoffs, bounds>>

\* drainHost: what is to be done with each assigned instance, from one read.
DrainHost(h) ==
    /\ h \in maint.hosts /\ maint.empty = None /\ maint.todo = {}
    /\ maint' =
        [hosts |-> maint.hosts \ {h},
         empty |-> IF On(h) = {} THEN h ELSE None,
         todo |-> {<<i, "fail">> : i \in On(h) \cap In({"CREATING", "STARTING"})}
                  \cup {<<i, "replace">> : i \in On(h) \cap In({"RUNNING"})}]
    /\ UNCHANGED <<hostVars, instVars, enabled, rec, cap, handoffs, bounds>>

\* markMaintenance, some time after the host was found empty.
MarkMaintenance ==
    /\ maint.empty # None
    /\ admin' = IF admin[maint.empty] = "DRAINING"
                THEN [admin EXCEPT ![maint.empty] = "MAINTENANCE"] ELSE admin
    /\ maint' = [maint EXCEPT !.empty = None]
    /\ UNCHANGED <<health, alloc, reach, instVars, enabled, rec, cap,
                   handoffs, bounds>>

\* The row of an instance that was starting.
MaintFail(i) ==
    /\ <<i, "fail">> \in maint.todo
    /\ maint' = [maint EXCEPT !.todo = @ \ {<<i, "fail">>}]
    /\ Failed(i)
    /\ UNCHANGED <<hostVars, enabled, rec, cap, handoffs, bounds>>

\* The row of an instance that was RUNNING and OPEN: its replacement, if it
\* has one that is not STOPPED, is completed; without one it is created.
MaintReplace(i) ==
    LET rs == {r \in Instances : replaces[r] = i}
    IN  /\ <<i, "replace">> \in maint.todo
        /\ maint' = [maint EXCEPT !.todo = @ \ {<<i, "replace">>}]
        /\ IF rs = {}
           THEN CreateWarm(i, "HOST_MAINTENANCE") /\ UNCHANGED handoffs
           ELSE \E r \in rs :
                    /\ handoffs' = IF Completes(r) THEN handoffs \cup {r} ELSE handoffs
                    /\ UNCHANGED instVars
        /\ UNCHANGED <<hostVars, enabled, rec, cap, bounds>>

-----------------------------------------------------------------------------
(* CapacityController                                                      *)

Max0(n) == IF n > 0 THEN n ELSE 0
Smaller(a, b) == IF a < b THEN a ELSE b
Larger(a, b) == IF a > b THEN a ELSE b

\* requiredHubInstances: one more than the players on the hubs, or on their
\* way to one, fill.
RequiredHubInstances(demand) ==
    IF demand = 0 THEN 0 ELSE (demand \div Target) + 1

\* decideCapacity for the rows of the group.
DecideCapacity(required) ==
    LET active == Cardinality(In(ActiveLives))
        warm == Cardinality(In({"RUNNING"}))
        pending == Cardinality(In({"CREATING", "STARTING"}))
        room == Max0(Maximum - active)
        floor == Larger(Minimum, required)
        deficit == Larger(Max0(floor - active), Max0(MinWarm - warm - pending))
    IN  IF enabled
        THEN [create |-> Smaller(room, deficit),
              drain |-> Max0(Smaller(warm - MaxWarm, active - floor))]
        ELSE [create |-> 0, drain |-> warm]

\* Replacements whose source is still in the pool, and their sources.
ActiveRenewals ==
    {r \in Instances : /\ life[r] \notin {"NONE", "FAILED"}
                       /\ replaces[r] # None
                       /\ life[replaces[r]] # "FAILED"}

DrainCandidates ==
    {i \in In({"RUNNING"}) :
        i \notin ActiveRenewals \cup {replaces[r] : r \in ActiveRenewals}}

\* The tick of the group, up to its first write: a ready replacement is
\* completed and ends it; otherwise a due hub is to be renewed when there is
\* room, and the decision is made on the same rows.  Of the candidates, which
\* are empty while the group is enabled, and of the order of running_at nothing
\* is assumed.
CapTick ==
    /\ cap = NoCap
    /\ \E demand \in 0..MaxDemand :
       LET ready == {r \in ActiveRenewals : Completes(r)}
           current == {i \in Instances : life[i] \notin {"NONE", "FAILED"}}
           dueHubs == {i \in In({"RUNNING"}) : due[i]}
           d == DecideCapacity(RequiredHubInstances(demand))
       IN  \/ \E r \in ready : handoffs' = handoffs \cup {r} /\ UNCHANGED cap
           \/ /\ ready = {}
              /\ \E renew \in IF /\ enabled /\ ActiveRenewals = {} /\ dueHubs # {}
                                 /\ Cardinality(current) < Maximum
                              THEN dueHubs ELSE {None} :
                 \E D \in SUBSET DrainCandidates :
                    /\ Cardinality(D) <= d.drain
                    /\ ~ enabled => D = DrainCandidates
                    /\ cap' = [renew |-> renew, create |-> d.create, drain |-> D]
              /\ cap' # cap
              /\ UNCHANGED handoffs
    /\ UNCHANGED <<hostVars, instVars, enabled, rec, maint, bounds>>

\* The renewal, when it creates its replacement, ends the tick.
CapRenew ==
    /\ cap.renew # None
    /\ cap' = IF Placement(cap.renew, "HUB_RENEWAL") # {}
              THEN NoCap ELSE [cap EXCEPT !.renew = None]
    /\ CreateWarm(cap.renew, "HUB_RENEWAL")
    /\ UNCHANGED <<hostVars, enabled, rec, maint, handoffs, bounds>>

CapCreate ==
    /\ cap.renew = None /\ cap.create > 0
    /\ cap' = [cap EXCEPT !.create = @ - 1]
    /\ CreateWarm(None, "none")
    /\ UNCHANGED <<hostVars, enabled, rec, maint, handoffs, bounds>>

CapDrain(i) ==
    /\ cap.renew = None /\ cap.create = 0 /\ i \in cap.drain
    /\ cap' = [cap EXCEPT !.drain = @ \ {i}]
    /\ Drained(i)
    /\ UNCHANGED <<hostVars, enabled, rec, maint, handoffs, bounds>>

-----------------------------------------------------------------------------
(* Reconciler                                                              *)

\* reconcileHost for one row of a host that answers the probe: a start that
\* timed out or whose runtime is missing fails, an instance that is drained,
\* failed or being stopped is stopped.  The races of its snapshot with the start
\* worker and with resets are the subject of InstanceStarts; here it is one step.
ReconcileRow(i) ==
    /\ life[i] # "NONE" /\ reach[host[i]]
    /\ \/ life[i] = "STARTING" /\ Failed(i)
       \/ life[i] \in {"DRAINING", "FAILED"} /\ Stopping(i)
    /\ UNCHANGED <<hostVars, enabled, loopVars, bounds>>

\* The container of a RUNNING instance is gone and the reconciler notices.
RuntimeMissing(i) ==
    /\ faults < MaxFaults /\ faults' = faults + 1
    /\ life[i] = "RUNNING" /\ reach[host[i]]
    /\ Failed(i)
    /\ UNCHANGED <<hostVars, enabled, loopVars, drains>>

\* markOnline of a host all whose rows went through.
MarkOnline(h) ==
    /\ reach[h] /\ health[h] # "ONLINE"
    /\ \A i \in On(h) : life[i] # "FAILED"
    /\ health' = [health EXCEPT ![h] = "ONLINE"]
    /\ UNCHANGED <<admin, alloc, reach, instVars, enabled, loopVars, bounds>>

\* A host neither heard of nor answering for offlineAfterMs: markOffline, and
\* only the call that changed the state goes on to fail the rows of the tick.
\* Those that are no longer active stay so: failInstance leaves them alone.
MarkOffline(h) ==
    /\ ~ reach[h] /\ health[h] # "OFFLINE"
    /\ rec = {}
    /\ health' = [health EXCEPT ![h] = "OFFLINE"]
    /\ rec' = On(h) \cap In(ActiveLives)
    /\ UNCHANGED <<admin, alloc, reach, instVars, enabled, cap, maint,
                   handoffs, bounds>>

\* failHostInstances, one row after the other; one that throws is skipped.
FailHostInstance(i) ==
    /\ i \in rec
    /\ rec' = rec \ {i}
    /\ Failed(i) \/ UNCHANGED instVars
    /\ UNCHANGED <<hostVars, enabled, cap, maint, handoffs, bounds>>

-----------------------------------------------------------------------------
(* Time, players, agents, faults                                           *)

Fault == faults < MaxFaults /\ faults' = faults + 1

\* The lifetime of a hub ends.
RenewalDue(i) ==
    /\ life[i] = "RUNNING" /\ ~ due[i]
    /\ due' = [due EXCEPT ![i] = TRUE]
    /\ UNCHANGED <<hostVars, life, host, replaces, enabled, loopVars, bounds>>

\* The orchestrator stops and starts again; only then it reads the group's
\* configuration, which may have been disabled or enabled.
Restart ==
    /\ Fault
    /\ enabled' \in BOOLEAN
    /\ rec' = {} /\ cap' = NoCap /\ maint' = NoMaint /\ handoffs' = {}
    /\ UNCHANGED <<hostVars, instVars, drains>>

\* A host is cut off, or comes back with the resources it is configured with.
HostLost(h) ==
    /\ Fault
    /\ reach[h]
    /\ reach' = [reach EXCEPT ![h] = FALSE]
    /\ UNCHANGED <<admin, health, alloc, instVars, enabled, loopVars, drains>>

HostBack(h) ==
    /\ ~ reach[h]
    /\ reach' = [reach EXCEPT ![h] = TRUE]
    /\ \E s \in Sizes : alloc' = [alloc EXCEPT ![h] = s]
    /\ UNCHANGED <<admin, health, instVars, enabled, loopVars, bounds>>

-----------------------------------------------------------------------------
Instance(i) ==
    \/ Start(i) \/ MarkReady(i) \/ ReadyAgain(i) \/ CompleteReplacement(i)
    \/ FinishStop(i) \/ RenewalDue(i) \/ ReconcileRow(i) \/ RuntimeMissing(i)
    \/ FailHostInstance(i)

Maintenance ==
    \/ MaintTick \/ MarkMaintenance
    \/ \E h \in Hosts : DrainHost(h)
    \/ \E i \in Instances : MaintFail(i) \/ MaintReplace(i)

Capacity ==
    CapTick \/ CapRenew \/ CapCreate \/ \E i \in Instances : CapDrain(i)

Host(h) ==
    \/ Heartbeat(h) \/ RecordControlFailure(h) \/ RequestDrain(h) \/ Activate(h)
    \/ MarkOnline(h) \/ MarkOffline(h) \/ HostLost(h) \/ HostBack(h)

Next ==
    \/ Maintenance \/ Capacity
    \/ \E i \in Instances : Instance(i)
    \/ \E h \in Hosts : Host(h)
    \/ Restart

Spec == Init /\ [][Next]_vars

-----------------------------------------------------------------------------
(* Properties                                                              *)

\* A host in MAINTENANCE carries no instance that is not STOPPED, although it
\* is marked some time after it was found empty and placement, failures and
\* removals go on meanwhile.
MaintenanceEmpty == \A h \in Hosts : admin[h] = "MAINTENANCE" => On(h) = {}

\* Renewal, maintenance and their decisions on rows read earlier never start a
\* second replacement while one is coming up for a source still in service.
OneReplacement ==
    \A r, q \in In({"CREATING", "STARTING"}) :
        {replaces[r], replaces[q]} \subseteq In({"RUNNING", "DRAINING"}) => r = q

\* As long as no fault has happened and no host was drained (drainHost fails an
\* instance it has read as STARTING, even when it is RUNNING by then), scaling
\* down and renewing, whichever rows they were decided on, leave a RUNNING hub in
\* service.  That is said of groups with MaxWarm >= 1: sync.ts:148 accepts 0 too, and
\* for 0 it is false.
ServiceKept ==
    [][\A i \in Instances :
            (faults = 0 /\ drains = 0 /\ life[i] = "RUNNING" /\ life'[i] = "DRAINING")
                => \E j \in Instances : life'[j] = "RUNNING"]_vars
=============================================================================
