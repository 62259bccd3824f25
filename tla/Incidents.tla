----------------------------- MODULE Incidents -----------------------------
(***************************************************************************)
(* How a condition of the cluster becomes an operational incident and is   *)
(* resolved again: IncidentController over the operational_incidents rows, *)
(* and the Scheduler, which reports the loops that fail and the loops that *)
(* work again.  One transaction is one action; the database may fail at    *)
(* any of them and the orchestrator may restart between any two.           *)
(*                                                                         *)
(* The cluster is one group, whose instances take one unit each of the one *)
(* host; it changes at any moment.  Time is abstract: a pending incident   *)
(* grows old enough to be opened at any moment.                            *)
(***************************************************************************)
EXTENDS Integers, FiniteSets

CONSTANTS
    OtherTasks,     \* scheduled loops beside the loop "incidents"
    Threshold,      \* incidentFailureThreshold
    Minimum,        \* minimum_instances
    MinimumWarm,    \* minimum_warm_instances
    Maximum,        \* maximum_instances
    HostUnits,      \* instances the host has room for
    NumVariants,    \* variants of the group
    MaxChanges,     \* bound: changes of the cluster
    MaxFaults       \* bound: restarts and database errors

ASSUME ConfigAssumption ==
    /\ Threshold \in Nat \ {0} /\ HostUnits \in Nat /\ NumVariants \in Nat \ {0}
    /\ Maximum \in Nat /\ {Minimum, MinimumWarm} \subseteq 0..Maximum
ASSUME BoundsAssumption == MaxChanges \in Nat /\ MaxFaults \in Nat

\* A fingerprint is the detector and its scope, or the task of a loop.
Aged == {"capacity", "host", "maintenance"}     \* those that wait openAfterMs
Windows == {"transfer", "command"}              \* those counted in a window
Detected == Aged \cup Windows \cup {"startup"}
Tasks == OtherTasks \cup {"incidents"}
Fingerprints == Detected \cup Tasks

\* A loop has a fingerprint of its own, "loop:" and its name.
ASSUME TasksAssumption == Tasks \cap Detected = {}

VARIABLES
    \* the cluster: execution_hosts, the enabled variants of the group, its
    \* instances of each kind, variant_start_states, failed and expired commands
    \* in the window, loops whose task throws
    health, admin, variants, inst, replaced, start, recent, failing,
    \* the unresolved row of each fingerprint: its state, DUE when it is
    \* PENDING and old enough, and occurrence_count of a loop
    row, count,
    resolved,       \* fingerprints with a RESOLVED row
    tick,           \* IncidentController.tick: step, observations, to do
    loop,           \* Scheduler: what is left of the run of each task
    healthy,        \* IncidentController.healthyLoops
    changes, faults

clusterVars == <<health, admin, variants, inst, replaced, start, recent, failing>>
rowVars == <<row, count, resolved>>
vars == <<clusterVars, rowVars, tick, loop, healthy, changes, faults>>

Idle == [pc |-> "idle", seen |-> {}, todo |-> {}]

\* Instances that are CREATING or STARTING, RUNNING and OPEN, RUNNING and reserved
\* or DRAINING, and those that only keep what they reserved on the host.
Kinds == {"pending", "open", "busy", "held"}

\* Every value stays within its columns and counters.
TypeOK ==
    /\ health \in {"RECOVERING", "ONLINE", "OFFLINE"}
    /\ admin \in {"ACTIVE", "DRAINING", "MAINTENANCE"}
    /\ variants \in 1..NumVariants /\ inst \in [Kinds -> Nat]
    /\ row \in [Fingerprints -> {"NONE", "PENDING", "DUE", "ACTIVE"}]
    /\ count \in [Tasks -> 0..Threshold]
    /\ loop \in [Tasks -> {"idle", "succeeded", "failed"}]
    /\ healthy \subseteq Tasks

Init ==
    /\ health = "ONLINE" /\ admin = "ACTIVE" /\ variants = 1
    /\ inst = [k \in Kinds |-> IF k = "open" /\ Minimum <= HostUnits THEN Minimum ELSE 0]
    /\ replaced = FALSE
    /\ start = FALSE
    /\ recent = [w \in Windows |-> 0]
    /\ failing = {}
    /\ row = [f \in Fingerprints |-> "NONE"]
    /\ count = [t \in Tasks |-> 0]
    /\ resolved = {}
    /\ tick = Idle
    /\ loop = [t \in Tasks |-> "idle"]
    /\ healthy = {}
    /\ changes = 0 /\ faults = 0

Fault == faults < MaxFaults /\ faults' = faults + 1

-----------------------------------------------------------------------------
(* The cluster changes                                                     *)

Change == /\ changes < MaxChanges
          /\ changes' = changes + 1
          /\ UNCHANGED <<rowVars, tick, loop, healthy, faults>>

Active == inst["pending"] + inst["open"] + inst["busy"]

HostFree == IF health = "ONLINE" /\ admin = "ACTIVE"
            THEN HostUnits - Active - inst["held"] ELSE 0

\* A host is lost, comes back or recovers; an operator drains it, or enables or
\* disables variants.
ConfigurationChanges ==
    /\ Change
    /\ \/ health' \in {"RECOVERING", "ONLINE", "OFFLINE"} \ {health}
          /\ UNCHANGED <<admin, variants>>
       \/ admin' \in {"ACTIVE", "DRAINING", "MAINTENANCE"} \ {admin}
          /\ UNCHANGED <<health, variants>>
       \/ variants' \in (1..NumVariants) \ {variants}
          /\ UNCHANGED <<health, admin>>
    /\ UNCHANGED <<inst, replaced, start, recent, failing>>

\* An instance gets ready, is reserved, or fails and keeps its reservation.
Moves == {<<"pending", "open">>, <<"open", "busy">>}
            \cup {"pending", "open", "busy"} \X {"held"}

\* An instance is created, goes on or is removed; a replacement for the open
\* instances of a draining host is created or lost.
InstancesChange ==
    /\ Change
    /\ \/ HostFree > 0 /\ Active < Maximum
          /\ inst' = [inst EXCEPT !["pending"] = @ + 1] /\ UNCHANGED replaced
       \/ \E m \in Moves :
             /\ inst[m[1]] > 0
             /\ inst' = [inst EXCEPT ![m[1]] = @ - 1, ![m[2]] = @ + 1]
             /\ UNCHANGED replaced
       \/ inst["held"] > 0
          /\ inst' = [inst EXCEPT !["held"] = @ - 1] /\ UNCHANGED replaced
       \/ replaced' = ~replaced /\ UNCHANGED inst
    /\ UNCHANGED <<health, admin, variants, start, recent, failing>>

\* The start policy of a revision, the commands in the window, the loops.
FailuresChange ==
    /\ Change
    /\ \/ start' = ~start /\ UNCHANGED <<recent, failing>>
       \/ \E w \in Windows, n \in {0, Threshold} :
             recent' = [recent EXCEPT ![w] = n] /\ UNCHANGED <<start, failing>>
       \/ \E t \in OtherTasks :
             /\ failing' = IF t \in failing THEN failing \ {t}
                                            ELSE failing \cup {t}
             /\ UNCHANGED <<start, recent>>
    /\ UNCHANGED <<health, admin, variants, inst, replaced>>

-----------------------------------------------------------------------------
(* Detectors                                                               *)

\* An observation: its fingerprint and when it opens the incident, at once
\* or once the row is old enough.
Observation(f, opens) == [fingerprint |-> f, opens |-> opens]

\* What the group lacks when each instance is counted n times: instances, or those
\* that are open or about to be.
Deficit(n) ==
    LET instances == Minimum - n * Active
        warm == MinimumWarm - n * (inst["open"] + inst["pending"])
    IN  IF instances > warm THEN instances ELSE warm

\* The group has reached its maximum or the host has no room.  A deficit that can be
\* placed (PLACEMENT_CONFLICT) is normal convergence.
CapacityBlocked(n) ==
    Deficit(n) > 0 /\ (n * Active >= Maximum \/ HostFree < Deficit(n))

\* group_state joins the enabled variants and the instances of a group, so
\* that an instance is counted once for each variant.
DetectCapacity ==
    IF CapacityBlocked(variants) THEN {Observation("capacity", "later")} ELSE {}

DetectInstanceFailures ==
    IF start THEN {Observation("startup", "now")} ELSE {}

DetectHosts ==
    IF admin # "MAINTENANCE" /\ health # "ONLINE"
    THEN {Observation("host", IF health = "OFFLINE" THEN "now" ELSE "later")}
    ELSE {}

DetectMaintenance ==
    IF admin = "DRAINING" /\ inst["open"] > 0 /\ ~replaced
    THEN {Observation("maintenance", "later")} ELSE {}

DetectTransferFailures ==
    IF recent["transfer"] >= Threshold
    THEN {Observation("transfer", "now")} ELSE {}

DetectCommandFailures ==
    IF recent["command"] >= Threshold
    THEN {Observation("command", "now")} ELSE {}

\* Six queries side by side; each feeds fingerprints of its own, so reading
\* them in one step hides no interleaving.
Detect ==
    DetectCapacity \cup DetectInstanceFailures \cup DetectHosts
        \cup DetectMaintenance \cup DetectTransferFailures
        \cup DetectCommandFailures

Fingerprint(o) == o.fingerprint

-----------------------------------------------------------------------------
(* observe and resolve                                                     *)

\* observe of a detector: the row is inserted or opened.
Observe(o) ==
    LET f == o.fingerprint
    IN  /\ row' = [row EXCEPT ![f] =
                      IF @ \in {"ACTIVE", "DUE"} \/ o.opens = "now"
                      THEN "ACTIVE" ELSE "PENDING"]
        /\ UNCHANGED <<count, resolved>>

\* observe of a loop: one occurrence more; it opens at the threshold.
ObserveLoop(t) ==
    LET occurrences == IF row[t] = "NONE" THEN 1
                       ELSE IF count[t] < Threshold THEN count[t] + 1
                       ELSE count[t]
    IN  /\ count' = [count EXCEPT ![t] = occurrences]
        /\ row' = [row EXCEPT ![t] =
                      IF @ = "ACTIVE" \/ occurrences >= Threshold
                      THEN "ACTIVE" ELSE "PENDING"]
        /\ UNCHANGED resolved

\* resolve: a pending row is deleted, an active one resolved.
Resolve(f) ==
    /\ row' = [row EXCEPT ![f] = "NONE"]
    /\ count' = IF f \in Tasks THEN [count EXCEPT ![f] = 0] ELSE count
    /\ resolved' = IF row[f] = "ACTIVE" THEN resolved \cup {f} ELSE resolved

\* A pending incident reaches its openAfterMs.
Age(f) ==
    /\ row[f] = "PENDING"
    /\ row' = [row EXCEPT ![f] = "DUE"]
    /\ UNCHANGED <<clusterVars, count, resolved, tick, loop, healthy, changes,
                   faults>>

\* prune: resolved rows are deleted after the retention time.
Prune ==
    /\ resolved # {}
    /\ resolved' = {}
    /\ UNCHANGED <<clusterVars, row, count, tick, loop, healthy, changes, faults>>

-----------------------------------------------------------------------------
(* IncidentController.tick, the task of the loop "incidents"               *)

TickEnds(outcome) ==
    /\ tick' = Idle
    /\ loop' = [loop EXCEPT !["incidents"] = outcome]

TickDetect ==
    /\ tick.pc = "idle" /\ loop["incidents"] = "idle"
    /\ tick' = [pc |-> "observe", todo |-> Detect,
                seen |-> {Fingerprint(o) : o \in Detect}]
    /\ UNCHANGED <<clusterVars, rowVars, loop, healthy, changes, faults>>

\* One observation after the other; they concern different rows.
TickObserve ==
    /\ tick.pc = "observe" /\ tick.todo # {}
    /\ LET o == CHOOSE o \in tick.todo : TRUE
       IN  /\ Observe(o)
           /\ tick' = [tick EXCEPT !.todo = @ \ {o}]
    /\ UNCHANGED <<clusterVars, loop, healthy, changes, faults>>

\* MUTANT of Unresolved: the rows of the control loops are included.
UnresolvedAll == {f \in Fingerprints : row[f] # "NONE"}

\* The unresolved rows of the detectors' kinds.
Unresolved == {f \in Detected : row[f] # "NONE"}

TickSelect ==
    /\ tick.pc = "observe" /\ tick.todo = {}
    /\ tick' = [tick EXCEPT !.pc = "resolve", !.todo = Unresolved \ tick.seen]
    /\ UNCHANGED <<clusterVars, rowVars, loop, healthy, changes, faults>>

TickResolve ==
    /\ tick.pc = "resolve" /\ tick.todo # {}
    /\ LET f == CHOOSE f \in tick.todo : TRUE
       IN  /\ Resolve(f)
           /\ tick' = [tick EXCEPT !.todo = @ \ {f}]
    /\ UNCHANGED <<clusterVars, loop, healthy, changes, faults>>

TickDone ==
    /\ tick.pc = "resolve" /\ tick.todo = {}
    /\ TickEnds("succeeded")
    /\ UNCHANGED <<clusterVars, rowVars, healthy, changes, faults>>

\* Any query of the tick throws; what it has written stays.
TickFails ==
    /\ Fault
    /\ tick.pc # "idle"
    /\ TickEnds("failed")
    /\ UNCHANGED <<clusterVars, rowVars, healthy, changes>>

-----------------------------------------------------------------------------
(* Scheduler.every                                                         *)

\* Another task runs to its end.
RunTask(t) ==
    /\ t \in OtherTasks /\ loop[t] = "idle"
    /\ loop' = [loop EXCEPT ![t] = IF t \in failing THEN "failed"
                                                    ELSE "succeeded"]
    /\ UNCHANGED <<clusterVars, rowVars, tick, healthy, changes, faults>>

\* MUTANT of RecordLoopSuccess: nothing is done for a loop that works again.
SuccessIgnored(t) ==
    /\ loop[t] = "succeeded"
    /\ loop' = [loop EXCEPT ![t] = "idle"]
    /\ UNCHANGED <<clusterVars, rowVars, tick, healthy, changes, faults>>

RecordLoopSuccess(t) ==
    /\ loop[t] = "succeeded"
    /\ loop' = [loop EXCEPT ![t] = "idle"]
    /\ IF t \in healthy THEN UNCHANGED rowVars ELSE Resolve(t)
    /\ healthy' = healthy \cup {t}
    /\ UNCHANGED <<clusterVars, tick, changes, faults>>

\* recordLoopSuccess throws inside the try: the run counts as failed.
SuccessNotRecorded(t) ==
    /\ Fault
    /\ loop[t] = "succeeded" /\ t \notin healthy
    /\ loop' = [loop EXCEPT ![t] = "failed"]
    /\ UNCHANGED <<clusterVars, rowVars, tick, healthy, changes>>

\* MUTANT of RecordLoopFailure: the loop stays among the healthy ones.
RecordFailureOnly(t) ==
    /\ loop[t] = "failed"
    /\ loop' = [loop EXCEPT ![t] = "idle"]
    /\ ObserveLoop(t)
    /\ UNCHANGED <<clusterVars, tick, healthy, changes, faults>>

RecordLoopFailure(t) ==
    /\ loop[t] = "failed"
    /\ loop' = [loop EXCEPT ![t] = "idle"]
    /\ healthy' = healthy \ {t}
    /\ ObserveLoop(t)
    /\ UNCHANGED <<clusterVars, tick, changes, faults>>

\* The failure cannot be written; the loop is no longer healthy all the same.
FailureNotRecorded(t) ==
    /\ Fault
    /\ loop[t] = "failed"
    /\ loop' = [loop EXCEPT ![t] = "idle"]
    /\ healthy' = healthy \ {t}
    /\ UNCHANGED <<clusterVars, rowVars, tick, changes>>

\* The orchestrator stops and boots: Scheduler.stop, index.ts.
Restart ==
    /\ Fault
    /\ tick' = Idle
    /\ loop' = [t \in Tasks |-> "idle"]
    /\ healthy' = {}
    /\ UNCHANGED <<clusterVars, rowVars, changes>>

-----------------------------------------------------------------------------
TickStep == TickDetect \/ TickObserve \/ TickSelect \/ TickResolve \/ TickDone

LoopStep(t) == RunTask(t) \/ RecordLoopSuccess(t) \/ RecordLoopFailure(t)

Next ==
    \/ ConfigurationChanges \/ InstancesChange \/ FailuresChange
    \/ TickStep \/ TickFails \/ Restart \/ Prune
    \/ \E f \in Aged : Age(f)
    \/ \E t \in Tasks :
          LoopStep(t) \/ SuccessNotRecorded(t) \/ FailureNotRecorded(t)

Spec == Init /\ [][Next]_vars

\* The timers of the scheduler fire again and again, each run ends, and time
\* passes; the cluster and the faults owe nothing.
FairSpec ==
    /\ Spec
    /\ WF_vars(TickStep)
    /\ \A t \in Tasks : WF_vars(LoopStep(t))
    /\ \A f \in Aged : WF_vars(Age(f))

-----------------------------------------------------------------------------
(* Properties                                                              *)

\* IncidentController.list shows these as active.
Listed == {f \in Fingerprints : row[f] = "ACTIVE"}

\* What each incident is about, said of the cluster itself.
Present(f) ==
    CASE f = "capacity" -> CapacityBlocked(1)
      [] f = "host" -> admin # "MAINTENANCE" /\ health # "ONLINE"
      [] f = "maintenance" -> admin = "DRAINING" /\ inst["open"] > 0 /\ ~replaced
      [] f = "startup" -> start
      [] f \in Windows -> recent[f] >= Threshold
      [] OTHER -> f \in failing

Watched == Detected \cup OtherTasks

\* The capacity of a group with several enabled variants is misjudged both ways,
\* for each of its instances counts once for each variant (DetectCapacity).
Judged(f) == f = "capacity" => variants = 1

\* A condition that lasts is listed in the end and stays listed, whichever
\* checks failed and whenever the orchestrator was restarted (observe); a blocked
\* capacity only of a group that keeps to one enabled variant.
LastingConditionsListed ==
    \A f \in Watched : <>[](Present(f) /\ Judged(f)) => <>[](f \in Listed)

\* A condition that is over leaves the list in the end, with the same reserve, and
\* an incident of a loop that was recorded by mistake does too (resolve,
\* recordLoopSuccess).
PastConditionsResolved ==
    /\ \A f \in Watched : <>[](~Present(f) /\ Judged(f)) => <>[](row[f] = "NONE")
    /\ <>[](row["incidents"] = "NONE")

\* recordLoopSuccess skips the database for a loop it takes for healthy: such
\* a loop has no unresolved row, or nobody would ever resolve it.
HealthyMeansResolved == \A t \in healthy : row[t] = "NONE"
=============================================================================
