--------------------------- MODULE InstanceStarts ---------------------------
(***************************************************************************)
(* How instances of one revision of a variant are started, retried, failed *)
(* and removed: InstanceController (createWarm, executeCreate, markReady,  *)
(* failInstance, stopAndDelete), InstanceStartWorker, the start policy of  *)
(* VariantStartController and the Reconciler, over the rows of             *)
(* server_instances, commands (CREATE) and variant_start_states and the    *)
(* runtimes on the execution hosts.                                        *)
(*                                                                         *)
(* One statement or transaction is one action.  What a method still has to *)
(* do after an await is an element <<caller, step, instance>> of calls:    *)
(* other callers run in between, and a restart forgets it.  Time is        *)
(* abstract: a deadline that is set may pass at any moment.                *)
(***************************************************************************)
EXTENDS Integers, FiniteSets

CONSTANTS
    NumInstances,   \* bound: instances ever created
    RetryLimit,     \* instanceStartRetryLimit
    Concurrency,    \* instanceStartConcurrency
    MaxFaults       \* bound: restarts, calls that throw, hosts and servers lost

ASSUME LimitAssumption == RetryLimit \in Nat /\ Concurrency \in Nat \ {0}
ASSUME BoundsAssumption == NumInstances \in Nat /\ MaxFaults \in Nat

Instances == 1..NumInstances    \* in the order createWarm draws their ids
NoInstance == 0                 \* NULL

VARIABLES
    \* server_instances: lifecycle_state, running_at IS NOT NULL,
    \* runtime_retained, startup_deadline <= now()
    life, ready, retained, due,
    \* state of the CREATE command of the instance
    cmd,
    \* the variant_start_states row of the revision, and how many probes it
    \* has granted since it was inserted (history)
    row, probes,
    \* a newer revision of the variant has been synchronized
    revised,
    \* execution hosts: the runtime, and the create request an agent works on
    runtime, agent,
    \* memory of the orchestrator: calls under way, the rows the reconciler
    \* has read, and the reset VariantStartController is carrying out
    calls, seen, reset,
    faults

instanceVars == <<life, ready, retained, due>>
policyVars == <<row, probes, revised>>
hostVars == <<runtime, agent>>
vars == <<instanceVars, cmd, policyVars, hostVars, calls, seen, reset, faults>>

-----------------------------------------------------------------------------
(* Rows and calls                                                          *)

Lives == {"NONE", "CREATING", "STARTING", "RUNNING", "DRAINING", "STOPPING",
          "STOPPED", "FAILED"}

NoRow == [state |-> "NONE", failures |-> 0, retry |-> "none",
          probe |-> NoInstance, last |-> NoInstance]

RowType == [state : {"NONE", "BACKING_OFF", "PROBING", "BLOCKED", "RESETTING"},
            failures : 0..(RetryLimit + 1), retry : {"none", "set", "due"},
            probe : Instances \cup {NoInstance},
            last : Instances \cup {NoInstance}]

\* What is left of failInstance and stopAndDelete once they have begun.
Tail == {"record", "retain", "halt", "stop", "delete", "stopped"}

Steps == Tail \cup {"begin", "create", "failed", "unavailable", "clear",
                    "timeout", "missing", "reap", "orphan"}

Verdicts == {"idle", "gone", "keep", "timeout", "live", "drain", "reap"}

NotReading == [i \in Instances |-> "idle"]
NoReset == [pc |-> "idle", todo |-> {}, batch |-> {}]

TypeOK ==
    /\ life \in [Instances -> Lives]
    /\ ready \in [Instances -> BOOLEAN]
    /\ retained \in [Instances -> BOOLEAN]
    /\ due \in [Instances -> BOOLEAN]
    /\ cmd \in [Instances -> {"NONE", "PENDING", "RUNNING", "SUCCEEDED",
                              "FAILED", "CANCELLED"}]
    /\ row \in RowType
    /\ probes \in Nat
    /\ revised \in BOOLEAN
    /\ runtime \in [Instances -> {"none", "up", "down"}]
    /\ agent \in [Instances -> {"none", "asked", "done"}]
    /\ calls \subseteq {"worker", "reconciler", "paper"} \X Steps \X Instances
    /\ seen \in [Instances -> Verdicts]
    /\ reset \in [pc : {"idle", "select", "cancel", "mark", "check", "stop", "stopped"},
                  todo : SUBSET Instances, batch : SUBSET Instances]
    /\ faults \in 0..MaxFaults

Init ==
    /\ life = [i \in Instances |-> "NONE"]
    /\ ready = [i \in Instances |-> FALSE]
    /\ retained = [i \in Instances |-> FALSE]
    /\ due = [i \in Instances |-> FALSE]
    /\ cmd = [i \in Instances |-> "NONE"]
    /\ row = NoRow
    /\ probes = 0
    /\ revised = FALSE
    /\ runtime = [i \in Instances |-> "none"]
    /\ agent = [i \in Instances |-> "none"]
    /\ calls = {}
    /\ seen = NotReading
    /\ reset = NoReset
    /\ faults = 0

\* The call w makes about i goes from step a to step b, or ends.
Goes(w, a, b, i) == calls' = (calls \ {<<w, a, i>>}) \cup {<<w, b, i>>}
Ends(w, a, i) == calls' = calls \ {<<w, a, i>>}

\* A call may take its next step.  The reconciler awaits every call in full
\* before it turns to its next row; the start worker runs its commands side by
\* side.
Awaited(w, a, i) ==
    /\ <<w, a, i>> \in calls
    /\ w = "reconciler" /\ a \notin Tail
            => \A c \in calls : c[1] = "reconciler" => c[2] \notin Tail

Fault == faults < MaxFaults /\ faults' = faults + 1

-----------------------------------------------------------------------------
(* createWarm and the start policy                                         *)

\* reserveAttempt, after VariantSelector.select made the same test: a revision
\* without failures starts freely, one whose delay has passed gets one probe.
MayAttempt ==
    row.state = "NONE" \/ (row.state = "BACKING_OFF" /\ row.retry = "due")

\* createWarm: the instance, its CREATE command and the reservation of the
\* attempt are one transaction.  Placement on a host is left out.
CreateWarm(i) ==
    /\ life[i] = "NONE" /\ \A j \in 1..(i - 1) : life[j] # "NONE"
    /\ ~ revised
    /\ MayAttempt
    /\ life' = [life EXCEPT ![i] = "CREATING"]
    /\ cmd' = [cmd EXCEPT ![i] = "PENDING"]
    /\ IF row.state = "NONE"
       THEN UNCHANGED <<row, probes>>
       ELSE /\ row' = [row EXCEPT !.state = "PROBING", !.probe = i, !.retry = "none"]
            /\ probes' = probes + 1
    /\ UNCHANGED <<ready, retained, due, revised, hostVars, calls, seen, reset, faults>>

\* MUTANT of Counted: every failure before SERVER_READY counts.
CountedAlways(i) == TRUE

\* recordFailure: what advances the policy is the first failure of a revision
\* and the failure of its probe, not one of a start that was already under way.
Counted(i) == row.state = "NONE" \/ (row.state = "PROBING" /\ row.probe = i)

\* decideStartupFailure.
StateAfter(failures) == IF failures > RetryLimit THEN "BLOCKED" ELSE "BACKING_OFF"

\* The starts recordFailure(i) takes off the queue.
PendingSiblings(i) ==
    { j \in Instances \ {i} : cmd[j] = "PENDING" /\ life[j] = "CREATING" }

RecordFailure(w, i) ==
    /\ Awaited(w, "record", i)
    /\ IF Counted(i)
       THEN LET failures == row.failures + 1
                state == StateAfter(failures)
            IN  /\ row' = [state |-> state, failures |-> failures,
                           retry |-> IF state = "BLOCKED" THEN "none" ELSE "set",
                           probe |-> NoInstance, last |-> i]
                /\ probes' = IF row.state = "NONE" THEN 0 ELSE probes
                /\ cmd' = [j \in Instances |->
                            IF j \in PendingSiblings(i) THEN "CANCELLED" ELSE cmd[j]]
                /\ life' = [j \in Instances |->
                            IF j \in PendingSiblings(i) THEN "STOPPED" ELSE life[j]]
                /\ Goes(w, "record", IF state = "BLOCKED" THEN "retain" ELSE "stop", i)
       ELSE /\ IF row.state = "BLOCKED" /\ row.last = i
               THEN Ends(w, "record", i) ELSE Goes(w, "record", "stop", i)
            /\ UNCHANGED <<row, probes, cmd, life>>
    /\ UNCHANGED <<ready, retained, due, revised, hostVars, seen, reset, faults>>

\* retainFinalRuntime: the flag, whatever state the instance has by now ...
RetainFinalRuntime(w, i) ==
    /\ Awaited(w, "retain", i)
    /\ retained' = [retained EXCEPT ![i] = TRUE]
    /\ Goes(w, "retain", "halt", i)
    /\ UNCHANGED <<life, ready, due, cmd, policyVars, hostVars, seen, reset, faults>>

\* ... then, after the logs are copied, the runtime is stopped and kept.
HaltRetained(w, i) ==
    /\ Awaited(w, "halt", i)
    /\ runtime' = [runtime EXCEPT ![i] = IF @ = "up" THEN "down" ELSE @]
    /\ Ends(w, "halt", i)
    /\ UNCHANGED <<instanceVars, cmd, policyVars, agent, seen, reset, faults>>

RetryDelayPasses ==
    /\ row.retry = "set"
    /\ row' = [row EXCEPT !.retry = "due"]
    /\ UNCHANGED <<instanceVars, cmd, probes, revised, hostVars, calls, seen, reset, faults>>

-----------------------------------------------------------------------------
(* InstanceStartWorker and executeCreate                                   *)

\* The commands in InstanceStartWorker.active: until executeCreate has
\* returned, failInstance and all.
Active == { c[3] : c \in { c \in calls : c[1] = "worker" } }

\* claim: one row at a time, which only adds interleavings.
Claim(i) ==
    /\ Cardinality(Active) < Concurrency
    /\ i \notin Active
    /\ cmd[i] = "PENDING"
    /\ life[i] \in {"CREATING", "STARTING"}
    /\ row.state = "NONE" \/ (row.state = "PROBING" /\ row.probe = i)
    /\ cmd' = [cmd EXCEPT ![i] = "RUNNING"]
    /\ calls' = calls \cup {<<"worker", "begin", i>>}
    /\ UNCHANGED <<instanceVars, policyVars, hostVars, seen, reset, faults>>

\* executeCreate finds the instance no longer eligible, ...
RefuseCreate(i) ==
    /\ Awaited("worker", "begin", i)
    /\ life[i] \notin {"CREATING", "STARTING"}
    /\ cmd' = [cmd EXCEPT ![i] = "FAILED"]
    /\ Ends("worker", "begin", i)
    /\ UNCHANGED <<instanceVars, policyVars, hostVars, seen, reset, faults>>

\* ... or its layers have changed with the revision: OBSOLETE_CREATE, which
\* does not go through failInstance, ...
ObsoleteCreate(i) ==
    /\ Awaited("worker", "begin", i)
    /\ life[i] \in {"CREATING", "STARTING"}
    /\ revised
    /\ cmd' = [cmd EXCEPT ![i] = "CANCELLED"]
    /\ life' = [life EXCEPT ![i] = "FAILED"]
    /\ Ends("worker", "begin", i)
    /\ UNCHANGED <<ready, retained, due, policyVars, hostVars, seen, reset, faults>>

\* ... or asks the agent.
AskAgent(i) ==
    /\ Awaited("worker", "begin", i)
    /\ life[i] \in {"CREATING", "STARTING"}
    /\ agent' = [agent EXCEPT ![i] = "asked"]
    /\ Goes("worker", "begin", "create", i)
    /\ UNCHANGED <<instanceVars, cmd, policyVars, runtime, seen, reset, faults>>

\* The agent creates and starts the container, also when nobody waits for it
\* any more.
AgentCreates(i) ==
    /\ agent[i] = "asked"
    /\ agent' = [agent EXCEPT ![i] =
                    IF <<"worker", "create", i>> \in calls THEN "done" ELSE "none"]
    /\ runtime' = [runtime EXCEPT ![i] = "up"]
    /\ UNCHANGED <<instanceVars, cmd, policyVars, calls, seen, reset, faults>>

AgentGivesUp(i) ==
    /\ agent[i] = "asked"
    /\ agent' = [agent EXCEPT ![i] = "none"]
    /\ UNCHANGED <<instanceVars, cmd, policyVars, runtime, calls, seen, reset, faults>>

\* The transaction after the agent's answer: the command succeeds whatever has
\* become of the instance.
CommitCreate(i) ==
    /\ Awaited("worker", "create", i)
    /\ agent[i] = "done"
    /\ agent' = [agent EXCEPT ![i] = "none"]
    /\ cmd' = [cmd EXCEPT ![i] = "SUCCEEDED"]
    /\ IF life[i] \in {"CREATING", "STARTING"}
       THEN /\ life' = [life EXCEPT ![i] = "STARTING"]
            /\ due' = [due EXCEPT ![i] = FALSE]
       ELSE UNCHANGED <<life, due>>
    /\ Ends("worker", "create", i)
    /\ UNCHANGED <<ready, retained, policyVars, runtime, seen, reset, faults>>

\* createInstance throws: CREATE_FAILED, or HOST_OFFLINE when the agent cannot
\* be reached.  Whatever the agent was asked to do it may still do.
CreateThrows(i) ==
    /\ Awaited("worker", "create", i)
    /\ agent' = [agent EXCEPT ![i] = IF @ = "done" THEN "none" ELSE @]
    /\ cmd' = [cmd EXCEPT ![i] = "FAILED"]
    /\ \E reason \in {"failed", "unavailable"} : Goes("worker", "create", reason, i)
    /\ UNCHANGED <<instanceVars, policyVars, runtime, seen, reset, faults>>

-----------------------------------------------------------------------------
(* failInstance, stopAndDelete and SERVER_READY                            *)

Failable == {"CREATING", "STARTING", "RUNNING", "DRAINING"}

\* failInstance with the reason that made the call.  countsAsStartupFailure:
\* not for want of the host, and not once the instance had been ready.
FailInstance(w, a, i) ==
    /\ a \in {"failed", "unavailable", "timeout", "missing"}
    /\ Awaited(w, a, i)
    /\ life' = [life EXCEPT ![i] = IF @ \in Failable THEN "FAILED" ELSE @]
    /\ IF life[i] \in Failable /\ ~ ready[i] /\ a # "unavailable"
       THEN Goes(w, a, "record", i) ELSE Ends(w, a, i)
    /\ UNCHANGED <<ready, retained, due, cmd, policyVars, hostVars, seen, reset, faults>>

\* failInstance for HOST_OFFLINE (failHostInstances) and HOST_MAINTENANCE
\* (drainHost): not counted, so nothing is left to do after its commit.
HostLost(i) ==
    /\ life[i] \in Failable
    /\ Fault
    /\ life' = [life EXCEPT ![i] = "FAILED"]
    /\ UNCHANGED <<ready, retained, due, cmd, policyVars, hostVars, calls, seen, reset>>

\* stopAndDelete: the state, if it allows, ...
BeginStop(w, a, i) ==
    /\ a \in {"stop", "reap"}
    /\ Awaited(w, a, i)
    /\ IF life[i] \in {"DRAINING", "FAILED", "STOPPING"}
       THEN life' = [life EXCEPT ![i] = "STOPPING"] /\ Goes(w, a, "delete", i)
       ELSE life' = life /\ Ends(w, a, i)
    /\ UNCHANGED <<ready, retained, due, cmd, policyVars, hostVars, seen, reset, faults>>

\* ... stop and delete on the host, ...
DeleteRuntime(w, i) ==
    /\ Awaited(w, "delete", i)
    /\ runtime' = [runtime EXCEPT ![i] = "none"]
    /\ Goes(w, "delete", "stopped", i)
    /\ UNCHANGED <<instanceVars, cmd, policyVars, agent, seen, reset, faults>>

\* ... and the final state.
MarkStopped(w, i) ==
    /\ Awaited(w, "stopped", i)
    /\ life' = [life EXCEPT ![i] = "STOPPED"]
    /\ Ends(w, "stopped", i)
    /\ UNCHANGED <<ready, retained, due, cmd, policyVars, hostVars, seen, reset, faults>>

\* InstanceController.markReady on SERVER_READY ...
ServerReady(i) ==
    /\ life[i] = "STARTING"
    /\ life' = [life EXCEPT ![i] = "RUNNING"]
    /\ ready' = [ready EXCEPT ![i] = TRUE]
    /\ calls' = calls \cup {<<"paper", "clear", i>>}
    /\ UNCHANGED <<retained, due, cmd, policyVars, hostVars, seen, reset, faults>>

\* ... and VariantStartController.markReady after it, which deletes the row of
\* the revision in whatever state it is.
ClearPolicy(i) ==
    /\ Awaited("paper", "clear", i)
    /\ row' = NoRow
    /\ probes' = 0
    /\ Ends("paper", "clear", i)
    /\ UNCHANGED <<instanceVars, cmd, revised, hostVars, seen, reset, faults>>

\* beginDrain, by whoever has no use for the instance any more.
BeginDrain(i) ==
    /\ life[i] = "RUNNING"
    /\ life' = [life EXCEPT ![i] = "DRAINING"]
    /\ UNCHANGED <<ready, retained, due, cmd, policyVars, hostVars, calls, seen,
                   reset, faults>>

StartupDeadlinePasses(i) ==
    /\ life[i] = "STARTING" /\ ~ due[i]
    /\ due' = [due EXCEPT ![i] = TRUE]
    /\ UNCHANGED <<life, ready, retained, cmd, policyVars, hostVars, calls, seen,
                   reset, faults>>

\* The server process ends by itself.
RuntimeDies(i) ==
    /\ runtime[i] = "up"
    /\ Fault
    /\ runtime' = [runtime EXCEPT ![i] = "down"]
    /\ UNCHANGED <<instanceVars, cmd, policyVars, agent, calls, seen, reset>>

-----------------------------------------------------------------------------
(* Reconciler.tick: the rows, then the inventories of the hosts, then one  *)
(* row after the other                                                     *)

\* MUTANT of Verdict: failed instances are not looked at.
VerdictNotFailed(i) ==
    CASE life[i] \in {"NONE", "STOPPED"} -> "gone"
      [] life[i] = "STARTING" /\ due[i] -> "timeout"
      [] life[i] \in {"STARTING", "RUNNING"} -> "live"
      [] life[i] = "DRAINING" -> "drain"
      [] life[i] = "STOPPING" -> "reap"
      [] OTHER -> "keep"

\* What reconcileHost does with a row of its first SELECT.
Verdict(i) ==
    CASE life[i] \in {"NONE", "STOPPED"} -> "gone"
      [] life[i] = "STARTING" /\ due[i] -> "timeout"
      [] life[i] \in {"STARTING", "RUNNING"} -> "live"
      [] life[i] = "DRAINING" -> "drain"
      [] life[i] = "STOPPING" \/ (life[i] = "FAILED" /\ ~ retained[i]) -> "reap"
      [] OTHER -> "keep"

ReconcilerReads ==
    /\ seen = NotReading
    /\ \A c \in calls : c[1] # "reconciler"
    /\ seen' = [i \in Instances |-> Verdict(i)]
    /\ UNCHANGED <<instanceVars, cmd, policyVars, hostVars, calls, reset, faults>>

\* MUTANT of Orphans: what the snapshot does not have is left alone.
OrphansNone == {}

\* The runtimes the inventory has and the snapshot has not.
Orphans == { i \in Instances : seen[i] = "gone" /\ runtime[i] # "none" }

\* listManagedInstances.  empty: draining instances that turn out to be due.
ReconcilerLists ==
    /\ seen # NotReading
    /\ \E empty \in SUBSET { i \in Instances : seen[i] = "drain" } :
        LET step(i) == CASE seen[i] = "timeout" -> {"timeout"}
                         [] seen[i] = "live" /\ runtime[i] # "up" -> {"missing"}
                         [] seen[i] = "drain" /\ (runtime[i] # "up" \/ i \in empty)
                                -> {"reap"}
                         [] seen[i] = "reap" -> {"reap"}
                         [] i \in Orphans -> {"orphan"}
                         [] OTHER -> {}
        IN  calls' = calls \cup UNION { {<<"reconciler", a, i>> : a \in step(i)} :
                                        i \in Instances }
    /\ seen' = NotReading
    /\ UNCHANGED <<instanceVars, cmd, policyVars, hostVars, reset, faults>>

\* MUTANT of DeleteOrphan: the row is not read again.
DeleteOrphanUnchecked(i) ==
    /\ Awaited("reconciler", "orphan", i)
    /\ runtime' = [runtime EXCEPT ![i] = "none"]
    /\ Ends("reconciler", "orphan", i)
    /\ UNCHANGED <<instanceVars, cmd, policyVars, agent, seen, reset, faults>>

\* A runtime without a row: unless a second look finds the row after all.
DeleteOrphan(i) ==
    /\ Awaited("reconciler", "orphan", i)
    /\ runtime' = [runtime EXCEPT ![i] =
                    IF life[i] \in {"NONE", "STOPPED"} THEN "none" ELSE @]
    /\ Ends("reconciler", "orphan", i)
    /\ UNCHANGED <<instanceVars, cmd, policyVars, agent, seen, reset, faults>>

-----------------------------------------------------------------------------
(* Reset of the policy: requestReset, reconcile and cleanupReset           *)

RequestReset ==
    /\ ~ revised
    /\ row.state = "BLOCKED"
    /\ row' = [row EXCEPT !.state = "RESETTING"]
    /\ UNCHANGED <<instanceVars, cmd, probes, revised, hostVars, calls, seen, reset,
                   faults>>

\* reconcile: the policy of a revision that is not the current one.
ResetObsolete ==
    /\ reset.pc = "idle" /\ revised
    /\ row.state \notin {"NONE", "RESETTING"}
    /\ row' = [row EXCEPT !.state = "RESETTING"]
    /\ UNCHANGED <<instanceVars, cmd, probes, revised, hostVars, calls, seen, reset,
                   faults>>

\* cleanupReset: every instance of the revision that is not STOPPED, ...
ResetReads ==
    /\ reset.pc = "idle" /\ row.state = "RESETTING"
    /\ reset' = [pc |-> "select", batch |-> {},
                 todo |-> { i \in Instances : life[i] \notin {"NONE", "STOPPED"} }
                          \cup ({row.probe, row.last} \ {NoInstance})]
    /\ UNCHANGED <<instanceVars, cmd, policyVars, hostVars, calls, seen, faults>>

\* ... its queued commands, ...
ResetSelects ==
    /\ reset.pc = "select"
    /\ LET queued == { i \in reset.todo : cmd[i] = "PENDING" }
       IN  reset' = [reset EXCEPT !.batch = queued,
                                  !.pc = IF queued = {} THEN "check" ELSE "cancel"]
    /\ UNCHANGED <<instanceVars, cmd, policyVars, hostVars, calls, seen, faults>>

ResetCancels ==
    /\ reset.pc = "cancel"
    /\ cmd' = [i \in Instances |-> IF i \in reset.batch THEN "CANCELLED" ELSE cmd[i]]
    /\ reset' = [reset EXCEPT !.pc = "mark"]
    /\ UNCHANGED <<instanceVars, policyVars, hostVars, calls, seen, faults>>

ResetMarks ==
    /\ reset.pc = "mark"
    /\ life' = [i \in Instances |->
                    IF i \in reset.batch /\ life[i] = "CREATING" THEN "STOPPED"
                    ELSE life[i]]
    /\ reset' = [reset EXCEPT !.pc = "check", !.batch = {}]
    /\ UNCHANGED <<ready, retained, due, cmd, policyVars, hostVars, calls, seen, faults>>

\* ... and, when no command is being executed, the instances one by one.
ResetChecks ==
    /\ reset.pc = "check"
    /\ reset' = IF \E i \in reset.todo : cmd[i] = "RUNNING"
                THEN NoReset ELSE [reset EXCEPT !.pc = "stop"]
    /\ UNCHANGED <<instanceVars, cmd, policyVars, hostVars, calls, seen, faults>>

ResetDeletes(i) ==
    /\ reset.pc = "stop" /\ i \in reset.todo
    /\ runtime' = [runtime EXCEPT ![i] = IF life[i] = "STOPPED" THEN @ ELSE "none"]
    /\ reset' = [pc |-> "stopped", todo |-> reset.todo \ {i}, batch |-> {i}]
    /\ UNCHANGED <<instanceVars, cmd, policyVars, agent, calls, seen, faults>>

ResetStops ==
    /\ reset.pc = "stopped"
    /\ life' = [i \in Instances |-> IF i \in reset.batch THEN "STOPPED" ELSE life[i]]
    /\ retained' = [i \in Instances |-> retained[i] /\ i \notin reset.batch]
    /\ reset' = [reset EXCEPT !.pc = "stop", !.batch = {}]
    /\ UNCHANGED <<ready, due, cmd, policyVars, hostVars, calls, seen, faults>>

\* The row, unless it has been deleted or has got another state meanwhile.
ResetCompletes ==
    /\ reset.pc = "stop" /\ reset.todo = {}
    /\ IF row.state = "RESETTING" THEN row' = NoRow /\ probes' = 0
                                  ELSE UNCHANGED <<row, probes>>
    /\ reset' = NoReset
    /\ UNCHANGED <<instanceVars, cmd, revised, hostVars, calls, seen, faults>>

-----------------------------------------------------------------------------
(* Faults                                                                  *)

\* MUTANT of Interrupted: a restart leaves the commands alone.
InterruptedKept == cmd

\* recoverInterrupted.
Interrupted == [i \in Instances |-> IF cmd[i] = "RUNNING" THEN "PENDING" ELSE cmd[i]]

\* The process stops or dies and starts again, maybe with changed files: the
\* tables stay, what it was about to do is lost, what agents are doing goes on.
Restart ==
    /\ Fault
    /\ cmd' = Interrupted
    /\ agent' = [i \in Instances |-> IF agent[i] = "done" THEN "none" ELSE agent[i]]
    /\ calls' = {}
    /\ seen' = NotReading
    /\ reset' = NoReset
    /\ revised' \in {revised, TRUE}
    /\ UNCHANGED <<instanceVars, row, probes, runtime>>

\* A call of the reconciler or of a Paper event throws, or the executor does
\* under stopAndDelete or retainFinalRuntime.  Anything else that throws under
\* the start worker ends the process.
CallThrows(c) ==
    /\ c \in calls
    /\ Fault
    /\ c[1] # "worker" \/ c[2] \in {"delete", "halt"}
    /\ calls' = calls \ {c}
    /\ UNCHANGED <<instanceVars, cmd, policyVars, hostVars, seen, reset>>

ResetThrows ==
    /\ reset.pc # "idle"
    /\ Fault
    /\ reset' = NoReset
    /\ UNCHANGED <<instanceVars, cmd, policyVars, hostVars, calls, seen>>

-----------------------------------------------------------------------------

\* What failInstance and stopAndDelete do on behalf of w.
Proceed(w, i) ==
    \/ \E a \in Steps : FailInstance(w, a, i) \/ BeginStop(w, a, i)
    \/ RecordFailure(w, i)
    \/ RetainFinalRuntime(w, i)
    \/ HaltRetained(w, i)
    \/ DeleteRuntime(w, i)
    \/ MarkStopped(w, i)

WorkerStep(i) ==
    \/ Claim(i)
    \/ RefuseCreate(i)
    \/ ObsoleteCreate(i)
    \/ AskAgent(i)
    \/ CommitCreate(i)
    \/ CreateThrows(i)
    \/ Proceed("worker", i)

ReconcilerStep ==
    \/ ReconcilerReads
    \/ ReconcilerLists
    \/ \E i \in Instances : DeleteOrphan(i) \/ Proceed("reconciler", i)

ResetStep ==
    \/ ResetObsolete
    \/ ResetReads
    \/ ResetSelects
    \/ ResetCancels
    \/ ResetMarks
    \/ ResetChecks
    \/ \E i \in Instances : ResetDeletes(i)
    \/ ResetStops
    \/ ResetCompletes

Environment(i) ==
    \/ CreateWarm(i)
    \/ HostLost(i)
    \/ ServerReady(i)
    \/ BeginDrain(i)
    \/ RuntimeDies(i)
    \/ StartupDeadlinePasses(i)
    \/ AgentCreates(i)
    \/ AgentGivesUp(i)

Faults == Restart \/ ResetThrows \/ \E c \in calls : CallThrows(c)

Next ==
    \/ \E i \in Instances : WorkerStep(i) \/ ClearPolicy(i) \/ Environment(i)
    \/ ReconcilerStep
    \/ ResetStep
    \/ RequestReset
    \/ RetryDelayPasses
    \/ Faults

Spec == Init /\ [][Next]_vars

\* The scheduler calls the start worker, the reconciler and the policy again
\* and again, calls under way go on unless the process dies, agents answer or
\* give up, deadlines pass.  Nothing is assumed of servers, hosts, operators or
\* of what asks for instances.
Fairness ==
    /\ \A i \in Instances : /\ WF_vars(WorkerStep(i))
                            /\ WF_vars(ClearPolicy(i))
                            /\ WF_vars(StartupDeadlinePasses(i))
                            /\ WF_vars(AgentCreates(i) \/ AgentGivesUp(i))
    /\ WF_vars(ReconcilerStep)
    /\ WF_vars(ResetStep)
    /\ WF_vars(RetryDelayPasses)

FairSpec == Spec /\ Fairness

-----------------------------------------------------------------------------
(* What makes starting and removing instances correct                      *)

\* A command that is RUNNING is being executed: whoever waits for running
\* commands, cleanupReset above all, waits for something.  The worker never
\* has more of them in hand than its concurrency.
RunningCommandsOwned ==
    /\ \A i \in Instances :
        cmd[i] = "RUNNING" => \E a \in {"begin", "create"} : <<"worker", a, i>> \in calls
    /\ Cardinality(Active) =< Concurrency

\* The failure count is the number of times the revision was really tried one
\* at a time: one for the first failure and one for each probe that failed,
\* however many starts were in flight when the first one failed.  So a revision
\* is blocked after exactly RetryLimit failed probes.
FailuresAreProbes ==
    /\ row.state = "NONE" => row.failures = 0
    /\ row.state = "PROBING" => row.failures = probes /\ row.failures =< RetryLimit
    /\ row.state = "RESETTING" => row.failures \in {probes, probes + 1}
    /\ row.state = "BACKING_OFF" => row.failures = probes + 1 /\ row.failures =< RetryLimit
    /\ row.state = "BLOCKED" => row.failures = probes + 1 /\ probes = RetryLimit

\* A runtime is deleted only while its instance is being stopped or has been,
\* or by a reset: the orphan stage, which works on two snapshots taken one
\* after the other, never takes the runtime of an instance created meanwhile.
RuntimesDeletedOnPurpose ==
    [][\A i \in Instances :
        runtime[i] # "none" /\ runtime'[i] = "none"
            => life[i] \in {"STOPPING", "STOPPED"} \/ reset.pc = "stop"]_vars

\* A failed instance is removed or kept for diagnosis, whichever call about it
\* was lost or threw.
FailedInstancesReaped ==
    \A i \in Instances : life[i] = "FAILED" ~> life[i] = "STOPPED" \/ retained[i]

\* The runtime an agent brings up for an instance that has been removed
\* meanwhile is deleted.
StoppedHaveNoRuntime ==
    \A i \in Instances :
        life[i] = "STOPPED" /\ runtime[i] # "none" ~> runtime[i] = "none"

\* A reset comes to its end, whatever was queued or being executed when it
\* began and even if the process died or a step threw in the middle of it.
ResetsComplete == row.state = "RESETTING" ~> row.state # "RESETTING"
=============================================================================
