------------------------ MODULE InstanceStartsProofs ------------------------
(***************************************************************************)
(* Theorems about InstanceStarts, for every number of instances, retry     *)
(* limit, concurrency and number of faults.                                *)
(*                                                                         *)
(* The types and the meaning of the failure count are proved together: the *)
(* count stays within its type only because a revision that is probed has  *)
(* not used up its retries.  The ownership of running commands is          *)
(* inductive by itself.                                                    *)
(***************************************************************************)
EXTENDS InstanceStarts, FiniteSetTheorems, TLAPS

CountInv == TypeOK /\ FailuresAreProbes

\* A call that goes on to another step of the model, or ends, leaves a set of
\* calls.
LEMMA CallsType ==
    ASSUME TypeOK, NEW w \in {"worker", "reconciler", "paper"}, NEW a, NEW i \in Instances,
           \/ Ends(w, a, i)
           \/ \E b \in Steps : Goes(w, a, b, i)
    PROVE  calls' \subseteq {"worker", "reconciler", "paper"} \X Steps \X Instances
  BY DEF TypeOK, Ends, Goes

\* The absence of a row is of the type of rows.
LEMMA NoRowTyped == NoRow \in RowType
  BY LimitAssumption DEF NoRow, RowType

\* A reset that is not under way is of the type of resets.
LEMMA NoResetTyped ==
    NoReset \in [pc : {"idle", "select", "cancel", "mark", "check", "stop", "stopped"},
                 todo : SUBSET Instances, batch : SUBSET Instances]
  BY DEF NoReset

\* A new instance is created, and a revision that waits grants a probe.
LEMMA CountCreate ==
    ASSUME CountInv, NEW i \in Instances, CreateWarm(i)
    PROVE  CountInv'
  <1> USE LimitAssumption DEF CountInv
  <1>1. row' \in RowType /\ probes' \in Nat
    <2>1. CASE row.state = "NONE"
      BY <2>1 DEF CreateWarm, TypeOK
    <2>2. CASE row.state # "NONE"
      <3>1. row' = [row EXCEPT !.state = "PROBING", !.probe = i, !.retry = "none"]
            /\ probes' = probes + 1
        BY <2>2 DEF CreateWarm
      <3>2. row \in RowType /\ probes \in Nat
        BY DEF TypeOK
      <3>3. row' = [state |-> "PROBING", failures |-> row.failures, retry |-> "none",
                    probe |-> i, last |-> row.last]
        BY <3>1, <3>2 DEF RowType
      <3> QED
        BY <3>1, <3>2, <3>3 DEF RowType
    <2> QED
      BY <2>1, <2>2
  <1>2. FailuresAreProbes'
    BY DEF CreateWarm, TypeOK, FailuresAreProbes, RowType, MayAttempt
  <1> QED
    BY <1>1, <1>2 DEF CreateWarm, TypeOK, Lives, hostVars

\* recordFailure: the only step that counts.
LEMMA CountRecord ==
    ASSUME CountInv, NEW w \in {"worker", "reconciler"}, NEW i \in Instances,
           RecordFailure(w, i)
    PROVE  CountInv'
  <1> USE LimitAssumption DEF CountInv
  <1>1. CASE Counted(i)
    <2>1. row.failures \in 0..RetryLimit /\ probes \in Nat
      BY <1>1 DEF Counted, FailuresAreProbes, TypeOK, RowType
    <2>2. row' \in RowType /\ probes' \in Nat
      BY <1>1, <2>1 DEF RecordFailure, RowType, StateAfter
    <2>5. FailuresAreProbes'
      BY <1>1, <2>1 DEF RecordFailure, Counted, FailuresAreProbes, TypeOK, RowType,
          StateAfter
    <2>3. calls' \subseteq {"worker", "reconciler", "paper"} \X Steps \X Instances
      BY <1>1, CallsType DEF RecordFailure, Steps, Tail
    <2>4. cmd' \in [Instances -> {"NONE", "PENDING", "RUNNING", "SUCCEEDED", "FAILED",
                                   "CANCELLED"}]
          /\ life' \in [Instances -> Lives]
      BY <1>1 DEF RecordFailure, TypeOK, Lives
    <2> QED
      BY <2>2, <2>3, <2>4, <2>5 DEF RecordFailure, TypeOK, hostVars
  <1>2. CASE ~ Counted(i)
    <2>1. calls' \subseteq {"worker", "reconciler", "paper"} \X Steps \X Instances
      BY <1>2, CallsType DEF RecordFailure, Steps, Tail
    <2> QED
      BY <1>2, <2>1 DEF RecordFailure, TypeOK, FailuresAreProbes, hostVars
  <1> QED
    BY <1>1, <1>2

\* The other steps of failInstance and stopAndDelete leave the row alone.
LEMMA CountProceed ==
    ASSUME CountInv, NEW w \in {"worker", "reconciler"}, NEW i \in Instances,
           Proceed(w, i)
    PROVE  CountInv'
  <1> USE DEF CountInv, instanceVars, policyVars, hostVars
  <1>1. ASSUME NEW a \in Steps, FailInstance(w, a, i)
        PROVE  CountInv'
    <2>1. calls' \subseteq {"worker", "reconciler", "paper"} \X Steps \X Instances
      BY <1>1, CallsType DEF FailInstance, Steps, Tail
    <2> QED
      BY <1>1, <2>1 DEF FailInstance, TypeOK, FailuresAreProbes, Lives
  <1>2. ASSUME NEW a \in Steps, BeginStop(w, a, i)
        PROVE  CountInv'
    <2>1. calls' \subseteq {"worker", "reconciler", "paper"} \X Steps \X Instances
      BY <1>2, CallsType DEF BeginStop, Steps, Tail
    <2> QED
      BY <1>2, <2>1 DEF BeginStop, TypeOK, FailuresAreProbes, Lives
  <1>3. CASE RetainFinalRuntime(w, i)
    <2>1. calls' \subseteq {"worker", "reconciler", "paper"} \X Steps \X Instances
      BY <1>3, CallsType DEF RetainFinalRuntime, Steps, Tail
    <2> QED
      BY <1>3, <2>1 DEF RetainFinalRuntime, TypeOK, FailuresAreProbes
  <1>4. CASE HaltRetained(w, i) \/ DeleteRuntime(w, i)
    <2>1. calls' \subseteq {"worker", "reconciler", "paper"} \X Steps \X Instances
      BY <1>4, CallsType DEF HaltRetained, DeleteRuntime, Steps, Tail
    <2> QED
      BY <1>4, <2>1 DEF HaltRetained, DeleteRuntime, TypeOK, FailuresAreProbes
  <1>5. CASE MarkStopped(w, i)
    <2>1. calls' \subseteq {"worker", "reconciler", "paper"} \X Steps \X Instances
      BY <1>5, CallsType DEF MarkStopped
    <2> QED
      BY <1>5, <2>1 DEF MarkStopped, TypeOK, FailuresAreProbes, Lives
  <1> QED
    BY <1>1, <1>2, <1>3, <1>4, <1>5, CountRecord DEF Proceed

\* The start worker leaves the row alone.
LEMMA CountWorker ==
    ASSUME CountInv, NEW i \in Instances, WorkerStep(i)
    PROVE  CountInv'
  <1> USE DEF CountInv, instanceVars, policyVars, hostVars
  <1>1. CASE Claim(i)
    BY <1>1 DEF Claim, TypeOK, FailuresAreProbes, Steps
  <1>2. CASE RefuseCreate(i)
    <2>1. calls' \subseteq {"worker", "reconciler", "paper"} \X Steps \X Instances
      BY <1>2, CallsType DEF RefuseCreate
    <2> QED
      BY <1>2, <2>1 DEF RefuseCreate, TypeOK, FailuresAreProbes
  <1>3. CASE ObsoleteCreate(i)
    <2>1. calls' \subseteq {"worker", "reconciler", "paper"} \X Steps \X Instances
      BY <1>3, CallsType DEF ObsoleteCreate
    <2> QED
      BY <1>3, <2>1 DEF ObsoleteCreate, TypeOK, FailuresAreProbes, Lives
  <1>4. CASE AskAgent(i)
    <2>1. calls' \subseteq {"worker", "reconciler", "paper"} \X Steps \X Instances
      BY <1>4, CallsType DEF AskAgent, Steps
    <2> QED
      BY <1>4, <2>1 DEF AskAgent, TypeOK, FailuresAreProbes
  <1>5. CASE CommitCreate(i)
    <2>1. calls' \subseteq {"worker", "reconciler", "paper"} \X Steps \X Instances
      BY <1>5, CallsType DEF CommitCreate
    <2> QED
      BY <1>5, <2>1 DEF CommitCreate, TypeOK, FailuresAreProbes, Lives
  <1>6. CASE CreateThrows(i)
    <2>1. calls' \subseteq {"worker", "reconciler", "paper"} \X Steps \X Instances
      BY <1>6, CallsType DEF CreateThrows, Steps
    <2> QED
      BY <1>6, <2>1 DEF CreateThrows, TypeOK, FailuresAreProbes
  <1> QED
    BY <1>1, <1>2, <1>3, <1>4, <1>5, <1>6, CountProceed DEF WorkerStep

\* Servers, agents, hosts and deadlines, and the deletion of the row when a
\* server is ready.
LEMMA CountEnvironment ==
    ASSUME CountInv, NEW i \in Instances, Environment(i) \/ ClearPolicy(i)
    PROVE  CountInv'
  <1> USE LimitAssumption, BoundsAssumption DEF CountInv, instanceVars, policyVars, hostVars
  <1>1. CASE HostLost(i) \/ BeginDrain(i)
    BY <1>1 DEF HostLost, BeginDrain, Fault, TypeOK, FailuresAreProbes, Lives
  <1>5. CASE StartupDeadlinePasses(i)
    BY <1>5 DEF StartupDeadlinePasses, TypeOK, FailuresAreProbes
  <1>2. CASE ServerReady(i)
    BY <1>2 DEF ServerReady, TypeOK, FailuresAreProbes, Lives, Steps
  <1>3. CASE RuntimeDies(i) \/ AgentCreates(i) \/ AgentGivesUp(i)
    BY <1>3 DEF RuntimeDies, AgentCreates, AgentGivesUp, Fault, TypeOK, FailuresAreProbes
  <1>4. CASE ClearPolicy(i)
    <2>1. calls' \subseteq {"worker", "reconciler", "paper"} \X Steps \X Instances
      BY <1>4, CallsType DEF ClearPolicy
    <2>2. row' \in RowType /\ probes' \in Nat /\ FailuresAreProbes'
      BY <1>4, NoRowTyped DEF ClearPolicy, FailuresAreProbes, NoRow
    <2> QED
      BY <1>4, <2>1, <2>2 DEF ClearPolicy, TypeOK
  <1> QED
    BY <1>1, <1>2, <1>3, <1>4, <1>5, CountCreate DEF Environment

\* The reconciler leaves the row alone but for recordFailure.
LEMMA CountReconciler ==
    ASSUME CountInv, ReconcilerStep
    PROVE  CountInv'
  <1> USE DEF CountInv, instanceVars, policyVars, hostVars
  <1>1. CASE ReconcilerReads
    BY <1>1 DEF ReconcilerReads, Verdict, Verdicts, TypeOK, FailuresAreProbes
  <1>2. CASE ReconcilerLists
    <2>1. calls' \subseteq {"worker", "reconciler", "paper"} \X Steps \X Instances
      BY <1>2 DEF ReconcilerLists, TypeOK, Steps
    <2> QED
      BY <1>2, <2>1 DEF ReconcilerLists, NotReading, Verdicts, TypeOK, FailuresAreProbes
  <1>3. ASSUME NEW i \in Instances, DeleteOrphan(i)
        PROVE  CountInv'
    <2>1. calls' \subseteq {"worker", "reconciler", "paper"} \X Steps \X Instances
      BY <1>3, CallsType DEF DeleteOrphan
    <2> QED
      BY <1>3, <2>1 DEF DeleteOrphan, TypeOK, FailuresAreProbes
  <1> QED
    BY <1>1, <1>2, <1>3, CountProceed DEF ReconcilerStep

\* A reset keeps the count until it deletes the row.
LEMMA CountReset ==
    ASSUME CountInv, ResetStep \/ RequestReset \/ RetryDelayPasses
    PROVE  CountInv'
  <1> USE LimitAssumption DEF CountInv, instanceVars, policyVars, hostVars
  <1>1. CASE RequestReset \/ ResetObsolete \/ RetryDelayPasses
    <2>1. row' \in RowType /\ FailuresAreProbes'
      BY <1>1 DEF RequestReset, ResetObsolete, RetryDelayPasses, TypeOK, RowType,
          FailuresAreProbes
    <2> QED
      BY <1>1, <2>1 DEF RequestReset, ResetObsolete, RetryDelayPasses, TypeOK
  <1>2. CASE ResetReads
    BY <1>2 DEF ResetReads, TypeOK, RowType, FailuresAreProbes
  <1>3. CASE ResetSelects \/ ResetChecks
    <2>1. CASE ResetSelects
      BY <2>1 DEF ResetSelects, TypeOK, FailuresAreProbes
    <2>2. CASE ResetChecks
      BY <2>2 DEF ResetChecks, NoReset, TypeOK, FailuresAreProbes
    <2> QED
      BY <1>3, <2>1, <2>2
  <1>4. CASE ResetCancels \/ ResetMarks \/ ResetStops
    <2>1. CASE ResetCancels
      BY <2>1 DEF ResetCancels, TypeOK, FailuresAreProbes
    <2>2. CASE ResetMarks
      BY <2>2 DEF ResetMarks, Lives, TypeOK, FailuresAreProbes
    <2>3. CASE ResetStops
      <3>1. retained' \in [Instances -> BOOLEAN]
        BY <2>3, Zenon DEF ResetStops, TypeOK
      <3> QED
        BY <2>3, <3>1 DEF ResetStops, Lives, TypeOK, FailuresAreProbes
    <2> QED
      BY <1>4, <2>1, <2>2, <2>3
  <1>5. ASSUME NEW i \in Instances, ResetDeletes(i)
        PROVE  CountInv'
    BY <1>5 DEF ResetDeletes, TypeOK, FailuresAreProbes
  <1>6. CASE ResetCompletes
    <2>1. row' \in RowType /\ probes' \in Nat /\ FailuresAreProbes'
      BY <1>6, NoRowTyped DEF ResetCompletes, FailuresAreProbes, TypeOK, NoRow
    <2> QED
      BY <1>6, <2>1 DEF ResetCompletes, NoReset, TypeOK
  <1> QED
    BY <1>1, <1>2, <1>3, <1>4, <1>5, <1>6 DEF ResetStep

\* Restarts and calls that throw.
LEMMA CountFaults ==
    ASSUME CountInv, Faults
    PROVE  CountInv'
  <1> USE BoundsAssumption DEF CountInv, instanceVars, policyVars, hostVars, Fault
  <1>1. CASE Restart
    <2>1. cmd' \in [Instances -> {"NONE", "PENDING", "RUNNING", "SUCCEEDED", "FAILED",
                                   "CANCELLED"}]
          /\ agent' \in [Instances -> {"none", "asked", "done"}]
      BY <1>1 DEF Restart, Interrupted, TypeOK
    <2>2. seen' \in [Instances -> Verdicts] /\ calls' = {} /\ faults' \in 0..MaxFaults
      BY <1>1 DEF Restart, NotReading, Verdicts, TypeOK
    <2>3. revised' \in BOOLEAN
      BY <1>1, Zenon DEF Restart, TypeOK
    <2>4. reset' \in [pc : {"idle", "select", "cancel", "mark", "check", "stop", "stopped"},
                      todo : SUBSET Instances, batch : SUBSET Instances]
      BY <1>1, NoResetTyped DEF Restart
    <2> QED
      BY <1>1, <2>1, <2>2, <2>3, <2>4 DEF Restart, TypeOK, FailuresAreProbes
  <1>2. CASE ResetThrows
    BY <1>2 DEF ResetThrows, NoReset, TypeOK, FailuresAreProbes
  <1>3. ASSUME NEW c \in calls, CallThrows(c)
        PROVE  CountInv'
    BY <1>3 DEF CallThrows, TypeOK, FailuresAreProbes
  <1> QED
    BY <1>1, <1>2, <1>3 DEF Faults

\* Types and count are an inductive invariant.
LEMMA CountInvariant == Spec => []CountInv
  <1>1. Init => CountInv
    <2>1. Init => row \in RowType /\ FailuresAreProbes
      BY NoRowTyped DEF Init, NoRow, FailuresAreProbes
    <2>2. Init => seen \in [Instances -> Verdicts] /\ life \in [Instances -> Lives]
      BY DEF Init, NotReading, Verdicts, Lives
    <2>3. Init => /\ ready \in [Instances -> BOOLEAN] /\ retained \in [Instances -> BOOLEAN]
                  /\ due \in [Instances -> BOOLEAN] /\ revised \in BOOLEAN
      BY Zenon DEF Init
    <2>4. Init => /\ cmd \in [Instances -> {"NONE", "PENDING", "RUNNING", "SUCCEEDED",
                                             "FAILED", "CANCELLED"}]
                  /\ runtime \in [Instances -> {"none", "up", "down"}]
                  /\ agent \in [Instances -> {"none", "asked", "done"}]
                  /\ calls = {} /\ probes \in Nat /\ faults \in 0..MaxFaults
      BY BoundsAssumption DEF Init
    <2>5. Init => reset = NoReset
      BY DEF Init
    <2> QED
      BY <2>1, <2>2, <2>3, <2>4, <2>5, NoResetTyped DEF CountInv, TypeOK
  <1>2. CountInv /\ [Next]_vars => CountInv'
    <2> SUFFICES ASSUME CountInv, [Next]_vars PROVE CountInv'
      OBVIOUS
    <2>1. CASE UNCHANGED vars
      BY <2>1 DEF vars, instanceVars, policyVars, hostVars, CountInv, TypeOK,
          FailuresAreProbes
    <2>2. CASE Next
      BY <2>2, CountWorker, CountEnvironment, CountReconciler, CountReset, CountFaults
          DEF Next
    <2> QED
      BY <2>1, <2>2
  <1> QED
    BY <1>1, <1>2, PTL DEF Spec

\* Every reachable state of the start model is well typed; in particular the
\* failure count of recordFailure never exceeds the limit by more than one.
THEOREM TypeCorrect == Spec => []TypeOK
  <1>1. CountInv => TypeOK
    BY DEF CountInv
  <1> QED
    BY <1>1, CountInvariant, PTL

\* recordFailure counts attempts made one at a time, whatever the number of
\* starts in flight: a blocked revision has had exactly its RetryLimit probes.
THEOREM FailuresCountProbes == Spec => []FailuresAreProbes
  <1>1. CountInv => FailuresAreProbes
    BY DEF CountInv
  <1> QED
    BY <1>1, CountInvariant, PTL
-----------------------------------------------------------------------------
(* Ownership of running commands                                           *)

\* The commands in hand are finitely many.
LEMMA ActiveFinite == TypeOK => IsFiniteSet(Active) /\ Cardinality(Active) \in Nat
  <1> SUFFICES ASSUME TypeOK PROVE IsFiniteSet(Active) /\ Cardinality(Active) \in Nat
    OBVIOUS
  <1>1. IsFiniteSet(Instances)
    BY BoundsAssumption, FS_Interval DEF Instances
  <1>2. Active \subseteq Instances
    BY DEF Active, TypeOK
  <1> QED
    BY <1>1, <1>2, FS_Subset, FS_CardinalityType

\* A step keeps the ownership if it neither starts a command nor takes one in
\* hand, and the commands that are still RUNNING keep their calls.
LEMMA OwnedKept ==
    ASSUME TypeOK, TypeOK', RunningCommandsOwned,
           \A j \in Instances : cmd'[j] = "RUNNING" =>
                /\ cmd[j] = "RUNNING"
                /\ \A a \in {"begin", "create"} : <<"worker", a, j>> \in calls
                        => \E b \in {"begin", "create"} : <<"worker", b, j>> \in calls',
           \A c \in calls' : c[1] = "worker" =>
                \E d \in calls : d[1] = "worker" /\ d[3] = c[3]
    PROVE  RunningCommandsOwned'
  <1>1. Active' \subseteq Active
    BY DEF Active
  <1>2. Cardinality(Active') =< Cardinality(Active)
    BY <1>1, ActiveFinite, FS_Subset
  <1>3. Cardinality(Active') \in Nat
    BY <1>1, ActiveFinite, FS_Subset, FS_CardinalityType
  <1>4. Cardinality(Active)' =< Concurrency
    BY <1>2, <1>3, ActiveFinite, LimitAssumption DEF RunningCommandsOwned
  <1>5. \A i \in Instances :
          cmd'[i] = "RUNNING" => \E a \in {"begin", "create"} : <<"worker", a, i>> \in calls'
    BY DEF RunningCommandsOwned
  <1> QED
    BY <1>4, <1>5 DEF RunningCommandsOwned

\* A call about i that is past createInstance goes on or ends, and no command
\* starts to run.
LEMMA OwnedMoves ==
    ASSUME TypeOK, TypeOK', RunningCommandsOwned, NEW w \in {"worker", "reconciler", "paper"},
           NEW a \in Steps \ {"begin", "create"}, NEW i \in Instances, <<w, a, i>> \in calls,
           Ends(w, a, i) \/ \E b \in Steps : Goes(w, a, b, i),
           \A j \in Instances : cmd'[j] = "RUNNING" => cmd[j] = "RUNNING"
    PROVE  RunningCommandsOwned'
  <1>1. \A j \in Instances, d \in {"begin", "create"} :
            <<"worker", d, j>> \in calls => <<"worker", d, j>> \in calls'
    BY DEF Ends, Goes
  <1>2. \A c \in calls' : c[1] = "worker" =>
            \E d \in calls : d[1] = "worker" /\ d[3] = c[3]
    BY DEF Ends, Goes
  <1> QED
    BY <1>1, <1>2, OwnedKept

\* failInstance and stopAndDelete only work on calls past createInstance.
LEMMA OwnedProceed ==
    ASSUME TypeOK, TypeOK', RunningCommandsOwned, NEW w \in {"worker", "reconciler"},
           NEW i \in Instances, Proceed(w, i)
    PROVE  RunningCommandsOwned'
  <1>1. ASSUME NEW a \in Steps, FailInstance(w, a, i) \/ BeginStop(w, a, i)
        PROVE  RunningCommandsOwned'
    BY <1>1, OwnedMoves DEF FailInstance, BeginStop, Awaited, Steps, Tail
  <1>2. CASE RecordFailure(w, i)
    <2>1. \A j \in Instances : cmd'[j] = "RUNNING" => cmd[j] = "RUNNING"
      BY <1>2 DEF RecordFailure
    <2>2. Ends(w, "record", i) \/ \E b \in Steps : Goes(w, "record", b, i)
      BY <1>2 DEF RecordFailure, Steps, Tail
    <2> QED
      BY <1>2, <2>1, <2>2, OwnedMoves DEF RecordFailure, Awaited, Steps, Tail
  <1>3. CASE RetainFinalRuntime(w, i)
    BY <1>3, OwnedMoves DEF RetainFinalRuntime, Awaited, Steps, Tail
  <1>4. CASE HaltRetained(w, i)
    BY <1>4, OwnedMoves DEF HaltRetained, Awaited, Steps, Tail
  <1>5. CASE DeleteRuntime(w, i)
    BY <1>5, OwnedMoves DEF DeleteRuntime, Awaited, Steps, Tail
  <1>6. CASE MarkStopped(w, i)
    BY <1>6, OwnedMoves DEF MarkStopped, Awaited, Steps, Tail
  <1> QED
    BY <1>1, <1>2, <1>3, <1>4, <1>5, <1>6 DEF Proceed

\* The start worker: a claim takes one free slot, and a call that leaves
\* createInstance closes its command in the same step.
LEMMA OwnedWorker ==
    ASSUME TypeOK, TypeOK', RunningCommandsOwned, NEW i \in Instances, WorkerStep(i)
    PROVE  RunningCommandsOwned'
  <1>1. CASE Claim(i)
    <2>1. Active' = Active \cup {i}
      <3>1. calls' = calls \cup {<<"worker", "begin", i>>}
        BY <1>1 DEF Claim
      <3>2. \A x : x \in Active' <=> \E c \in calls' : c[1] = "worker" /\ x = c[3]
        BY DEF Active
      <3>3. \A x : x \in Active <=> \E c \in calls : c[1] = "worker" /\ x = c[3]
        BY DEF Active
      <3>4. <<"worker", "begin", i>>[1] = "worker" /\ <<"worker", "begin", i>>[3] = i
        OBVIOUS
      <3>5. Active' \subseteq Active \cup {i}
        BY <3>1, <3>2, <3>3, <3>4
      <3>6. Active \cup {i} \subseteq Active'
        BY <3>1, <3>2, <3>3, <3>4
      <3> QED
        BY <3>5, <3>6
    <2>2. Cardinality(Active)' =< Concurrency
      <3>1. Cardinality(Active) < Concurrency /\ i \notin Active
        BY <1>1 DEF Claim
      <3>2. Cardinality(Active \cup {i}) = Cardinality(Active) + 1
        BY <3>1, ActiveFinite, FS_AddElement
      <3> QED
        BY <2>1, <3>1, <3>2, ActiveFinite, LimitAssumption
    <2>3. \A j \in Instances :
            cmd'[j] = "RUNNING" => \E a \in {"begin", "create"} : <<"worker", a, j>> \in calls'
      BY <1>1 DEF Claim, RunningCommandsOwned, TypeOK
    <2> QED
      BY <2>2, <2>3 DEF RunningCommandsOwned
  <1>2. CASE RefuseCreate(i) \/ ObsoleteCreate(i) \/ CommitCreate(i) \/ CreateThrows(i)
    <2>1. PICK a \in {"begin", "create"} : /\ <<"worker", a, i>> \in calls
                                          /\ \/ Ends("worker", a, i)
                                             \/ \E b \in Steps : Goes("worker", a, b, i)
      BY <1>2 DEF RefuseCreate, ObsoleteCreate, CommitCreate, CreateThrows, Awaited, Steps
    <2>2. cmd'[i] # "RUNNING" /\ \A j \in Instances \ {i} : cmd'[j] = cmd[j]
      BY <1>2 DEF RefuseCreate, ObsoleteCreate, CommitCreate, CreateThrows, TypeOK
    <2>3. \A j \in Instances \ {i}, d \in {"begin", "create"} :
            <<"worker", d, j>> \in calls => <<"worker", d, j>> \in calls'
      BY <2>1 DEF Ends, Goes
    <2>4. \A c \in calls' : c[1] = "worker" =>
            \E d \in calls : d[1] = "worker" /\ d[3] = c[3]
      BY <2>1 DEF Ends, Goes
    <2> QED
      BY <2>2, <2>3, <2>4, OwnedKept
  <1>3. CASE AskAgent(i)
    <2>1. \A j \in Instances, d \in {"begin", "create"} : <<"worker", d, j>> \in calls =>
            \E b \in {"begin", "create"} : <<"worker", b, j>> \in calls'
      BY <1>3 DEF AskAgent, Goes
    <2>2. \A c \in calls' : c[1] = "worker" =>
            \E d \in calls : d[1] = "worker" /\ d[3] = c[3]
      BY <1>3 DEF AskAgent, Goes, Awaited
    <2> QED
      BY <1>3, <2>1, <2>2, OwnedKept DEF AskAgent
  <1> QED
    BY <1>1, <1>2, <1>3, OwnedProceed DEF WorkerStep

\* What neither touches the calls of the worker nor starts a command.
LEMMA OwnedAside ==
    ASSUME TypeOK, TypeOK', RunningCommandsOwned,
           \A c \in calls : c[1] = "worker" => c \in calls',
           \A c \in calls' : c[1] = "worker" => c \in calls,
           \A j \in Instances : cmd'[j] = "RUNNING" => cmd[j] = "RUNNING"
    PROVE  RunningCommandsOwned'
  <1>1. \A j \in Instances, d \in {"begin", "create"} :
            <<"worker", d, j>> \in calls => <<"worker", d, j>> \in calls'
    OBVIOUS
  <1> QED
    BY <1>1, OwnedKept

\* A RUNNING command always belongs to a call of the start worker: ownership is
\* preserved by every step, and restarts give up calls and commands together.
THEOREM RunningAreOwned == Spec => []RunningCommandsOwned
  <1>1. Init => RunningCommandsOwned
    <2> SUFFICES ASSUME Init PROVE RunningCommandsOwned
      OBVIOUS
    <2>1. Active = {}
      BY DEF Init, Active
    <2> QED
      BY <2>1, FS_EmptySet, LimitAssumption DEF Init, RunningCommandsOwned
  <1>2. TypeOK /\ TypeOK' /\ RunningCommandsOwned /\ [Next]_vars => RunningCommandsOwned'
    <2> SUFFICES ASSUME TypeOK, TypeOK', RunningCommandsOwned, [Next]_vars
                 PROVE  RunningCommandsOwned'
      OBVIOUS
    <2>1. CASE UNCHANGED vars
      BY <2>1, OwnedAside DEF vars
    <2>2. ASSUME NEW i \in Instances, WorkerStep(i)
          PROVE  RunningCommandsOwned'
      BY <2>2, OwnedWorker
    <2>3. ASSUME NEW i \in Instances, ClearPolicy(i)
          PROVE  RunningCommandsOwned'
      BY <2>3, OwnedAside DEF ClearPolicy, Ends
    <2>4. ASSUME NEW i \in Instances, Environment(i)
          PROVE  RunningCommandsOwned'
      <3>1. \A j \in Instances : cmd'[j] = "RUNNING" => cmd[j] = "RUNNING"
        BY <2>4 DEF Environment, CreateWarm, HostLost, ServerReady, BeginDrain, RuntimeDies,
            StartupDeadlinePasses, AgentCreates, AgentGivesUp, TypeOK
      <3>2. calls' = calls \/ calls' = calls \cup {<<"paper", "clear", i>>}
        BY <2>4 DEF Environment, CreateWarm, HostLost, ServerReady, BeginDrain, RuntimeDies,
            StartupDeadlinePasses, AgentCreates, AgentGivesUp
      <3> QED
        BY <3>1, <3>2, OwnedAside
    <2>5. CASE ReconcilerStep
      <3>1. CASE ReconcilerReads
        BY <3>1, OwnedAside DEF ReconcilerReads
      <3>2. CASE ReconcilerLists
        BY <3>2, OwnedAside DEF ReconcilerLists
      <3>3. ASSUME NEW i \in Instances, DeleteOrphan(i)
            PROVE  RunningCommandsOwned'
        BY <3>3, OwnedAside DEF DeleteOrphan, Ends
      <3> QED
        BY <2>5, <3>1, <3>2, <3>3, OwnedProceed DEF ReconcilerStep
    <2>6. CASE ResetStep \/ RequestReset \/ RetryDelayPasses
      <3>1. calls' = calls /\ \A j \in Instances : cmd'[j] = "RUNNING" => cmd[j] = "RUNNING"
        BY <2>6 DEF ResetStep, RequestReset, RetryDelayPasses, ResetObsolete, ResetReads,
            ResetSelects, ResetCancels, ResetMarks, ResetChecks, ResetDeletes, ResetStops,
            ResetCompletes
      <3> QED
        BY <3>1, OwnedAside
    <2>7. CASE Restart
      <3>1. Active' = {}
        BY <2>7 DEF Restart, Active
      <3>2. \A j \in Instances : cmd'[j] # "RUNNING"
        BY <2>7 DEF Restart, Interrupted
      <3> QED
        BY <3>1, <3>2, FS_EmptySet, LimitAssumption DEF RunningCommandsOwned
    <2>8. CASE ResetThrows
      BY <2>8, OwnedAside DEF ResetThrows
    <2>9. ASSUME NEW c \in calls, CallThrows(c)
          PROVE  RunningCommandsOwned'
      <3>1. \A j \in Instances, d \in {"begin", "create"} :
              <<"worker", d, j>> \in calls => <<"worker", d, j>> \in calls'
        BY <2>9 DEF CallThrows
      <3> QED
        BY <2>9, <3>1, OwnedKept DEF CallThrows
    <2> QED
      BY <2>1, <2>2, <2>3, <2>4, <2>5, <2>6, <2>7, <2>8, <2>9 DEF Next, Faults
  <1> QED
    BY <1>1, <1>2, TypeCorrect, PTL DEF Spec

-----------------------------------------------------------------------------
(* Deletion of runtimes                                                    *)

Over == {"STOPPING", "STOPPED"}

\* Whoever is about to delete a runtime has marked its instance, and nobody
\* takes the mark back; and what has no row has no runtime yet, and nobody was
\* asked to bring one up.
PurposeInv ==
    /\ \A c \in calls : c[2] = "delete" => life[c[3]] \in Over
    /\ \A i \in Instances : life[i] = "NONE" => runtime[i] = "none" /\ agent[i] = "none"

\* No instance gets rid of its row, and none that is over comes back.
Forward(i) ==
    /\ life'[i] = "NONE" => life[i] = "NONE"
    /\ life[i] \in Over => life'[i] \in Over

\* What is enough for a step to preserve the invariant.
LEMMA PurposeFrame ==
    ASSUME TypeOK, PurposeInv,
           \A i \in Instances : Forward(i),
           \A c \in calls' : c[2] = "delete" => c \in calls \/ life'[c[3]] \in Over,
           \A i \in Instances :
                life'[i] = "NONE" /\ runtime[i] = "none" /\ agent[i] = "none"
                    => runtime'[i] = "none" /\ agent'[i] = "none"
    PROVE  PurposeInv'
  <1>1. ASSUME NEW c \in calls', c[2] = "delete" PROVE life'[c[3]] \in Over
    <2>1. CASE c \in calls
      <3>1. c[3] \in Instances
        BY <2>1 DEF TypeOK
      <3> QED
        BY <1>1, <2>1, <3>1 DEF PurposeInv, Forward
    <2> QED
      BY <1>1, <2>1
  <1> QED
    BY <1>1 DEF PurposeInv, Forward

\* failInstance and stopAndDelete mark an instance before they delete its
\* runtime.
LEMMA PurposeProceed ==
    ASSUME TypeOK, PurposeInv, NEW i \in Instances, NEW w, Proceed(w, i)
    PROVE  PurposeInv'
  <1> USE DEF hostVars, instanceVars, Over
  <1>1. ASSUME NEW a \in Steps, FailInstance(w, a, i) PROVE PurposeInv'
    <2>1. \A j \in Instances : Forward(j)
      BY <1>1 DEF FailInstance, Forward, Failable, TypeOK
    <2>2. \A c \in calls' : c[2] = "delete" => c \in calls
      BY <1>1 DEF FailInstance, Goes, Ends
    <2> QED
      BY <1>1, <2>1, <2>2, PurposeFrame DEF FailInstance
  <1>2. ASSUME NEW a \in Steps, BeginStop(w, a, i) PROVE PurposeInv'
    <2>1. \A j \in Instances : Forward(j)
      BY <1>2 DEF BeginStop, Forward, TypeOK
    <2>2. \A c \in calls' : c[2] = "delete" => c \in calls \/ life'[c[3]] \in Over
      BY <1>2 DEF BeginStop, Goes, Ends, TypeOK
    <2> QED
      BY <1>2, <2>1, <2>2, PurposeFrame DEF BeginStop
  <1>3. CASE RecordFailure(w, i)
    <2>1. \A j \in Instances : Forward(j)
      BY <1>3 DEF RecordFailure, PendingSiblings, Forward
    <2>2. \A c \in calls' : c[2] = "delete" => c \in calls
      BY <1>3 DEF RecordFailure, Goes, Ends
    <2> QED
      BY <1>3, <2>1, <2>2, PurposeFrame DEF RecordFailure
  <1>4. CASE RetainFinalRuntime(w, i) \/ MarkStopped(w, i)
    <2>1. \A j \in Instances : Forward(j)
      BY <1>4 DEF RetainFinalRuntime, MarkStopped, Forward, TypeOK
    <2>2. \A c \in calls' : c[2] = "delete" => c \in calls
      BY <1>4 DEF RetainFinalRuntime, MarkStopped, Goes, Ends
    <2> QED
      BY <1>4, <2>1, <2>2, PurposeFrame DEF RetainFinalRuntime, MarkStopped
  <1>5. CASE HaltRetained(w, i) \/ DeleteRuntime(w, i)
    <2>1. \A j \in Instances : Forward(j)
      BY <1>5 DEF HaltRetained, DeleteRuntime, Forward
    <2>2. \A c \in calls' : c[2] = "delete" => c \in calls
      BY <1>5 DEF HaltRetained, DeleteRuntime, Goes, Ends
    <2>3. agent' = agent /\ \A j \in Instances : runtime[j] = "none" => runtime'[j] = "none"
      BY <1>5 DEF HaltRetained, DeleteRuntime, TypeOK
    <2> QED
      BY <2>1, <2>2, <2>3, PurposeFrame
  <1> QED
    BY <1>1, <1>2, <1>3, <1>4, <1>5 DEF Proceed

\* An agent is asked for the runtime of an instance that has its row.
LEMMA PurposeWorker ==
    ASSUME TypeOK, PurposeInv, NEW i \in Instances, WorkerStep(i)
    PROVE  PurposeInv'
  <1> USE DEF hostVars, instanceVars, Over
  <1>1. CASE ~ Proceed("worker", i)
    <2>1. \A j \in Instances : Forward(j)
      BY <1>1 DEF WorkerStep, Claim, RefuseCreate, ObsoleteCreate, AskAgent, CommitCreate,
          CreateThrows, Forward, TypeOK
    <2>2. \A c \in calls' : c[2] = "delete" => c \in calls
      BY <1>1 DEF WorkerStep, Claim, RefuseCreate, ObsoleteCreate, AskAgent, CommitCreate,
          CreateThrows, Goes, Ends
    <2>3. runtime' = runtime
      BY <1>1 DEF WorkerStep, Claim, RefuseCreate, ObsoleteCreate, AskAgent, CommitCreate,
          CreateThrows
    <2>4. \A j \in Instances :
            life'[j] = "NONE" /\ agent[j] = "none" => agent'[j] = "none"
      BY <1>1 DEF WorkerStep, Claim, RefuseCreate, ObsoleteCreate, AskAgent, CommitCreate,
          CreateThrows, TypeOK
    <2> QED
      BY <2>1, <2>2, <2>3, <2>4, PurposeFrame
  <1> QED
    BY <1>1, PurposeProceed

\* What agents, servers, hosts and time do.
LEMMA PurposeEnvironment ==
    ASSUME TypeOK, PurposeInv, NEW i \in Instances, Environment(i) \/ ClearPolicy(i)
    PROVE  PurposeInv'
  <1> USE DEF hostVars, instanceVars, Over
  <1>1. \A j \in Instances : Forward(j)
    BY DEF Environment, CreateWarm, HostLost, ServerReady, BeginDrain, RuntimeDies,
        StartupDeadlinePasses, AgentCreates, AgentGivesUp, ClearPolicy, Failable, Forward, TypeOK
  <1>2. \A c \in calls' : c[2] = "delete" => c \in calls
    BY DEF Environment, CreateWarm, HostLost, ServerReady, BeginDrain, RuntimeDies,
        StartupDeadlinePasses, AgentCreates, AgentGivesUp, ClearPolicy, Ends
  <1>3. \A j \in Instances : runtime[j] = "none" /\ agent[j] = "none"
                                => runtime'[j] = "none" /\ agent'[j] = "none"
    BY DEF Environment, CreateWarm, HostLost, ServerReady, BeginDrain, RuntimeDies,
        StartupDeadlinePasses, AgentCreates, AgentGivesUp, ClearPolicy, TypeOK
  <1> QED
    BY <1>1, <1>2, <1>3, PurposeFrame

\* The reconciler's own steps: the orphan stage deletes, it does not mark.
LEMMA PurposeReconciler ==
    ASSUME TypeOK, PurposeInv, ReconcilerStep
    PROVE  PurposeInv'
  <1> USE DEF hostVars, instanceVars, Over
  <1>1. CASE ReconcilerReads
    BY <1>1, PurposeFrame DEF ReconcilerReads, Forward
  <1>2. CASE ReconcilerLists
    <2>1. \A c \in calls' : c[2] = "delete" => c \in calls
      BY <1>2 DEF ReconcilerLists
    <2> QED
      BY <1>2, <2>1, PurposeFrame DEF ReconcilerLists, Forward
  <1>3. ASSUME NEW i \in Instances, DeleteOrphan(i) PROVE PurposeInv'
    <2>1. /\ life' = life /\ agent' = agent
          /\ \A j \in Instances : runtime[j] = "none" => runtime'[j] = "none"
          /\ \A c \in calls' : c \in calls
      BY <1>3 DEF DeleteOrphan, Ends, TypeOK
    <2> QED
      BY <2>1, PurposeFrame DEF Forward
  <1> QED
    BY <1>1, <1>2, <1>3, PurposeProceed DEF ReconcilerStep

\* Resets and faults stop instances and drop calls.
LEMMA PurposeAside ==
    ASSUME TypeOK, PurposeInv,
           ResetStep \/ RequestReset \/ RetryDelayPasses \/ Faults
    PROVE  PurposeInv'
  <1> USE DEF hostVars, instanceVars, Over
  <1>1. \A j \in Instances : Forward(j)
    BY DEF ResetStep, ResetObsolete, ResetReads, ResetSelects, ResetCancels, ResetMarks,
        ResetChecks, ResetDeletes, ResetStops, ResetCompletes, RequestReset, RetryDelayPasses,
        Faults, Restart, ResetThrows, CallThrows, Forward
  <1>2. calls' \subseteq calls
    BY DEF ResetStep, ResetObsolete, ResetReads, ResetSelects, ResetCancels, ResetMarks,
        ResetChecks, ResetDeletes, ResetStops, ResetCompletes, RequestReset, RetryDelayPasses,
        Faults, Restart, ResetThrows, CallThrows
  <1>3. \A j \in Instances : runtime[j] = "none" => runtime'[j] = "none"
    BY DEF ResetStep, ResetObsolete, ResetReads, ResetSelects, ResetCancels, ResetMarks,
        ResetChecks, ResetDeletes, ResetStops, ResetCompletes, RequestReset, RetryDelayPasses,
        Faults, Restart, ResetThrows, CallThrows, TypeOK
  <1>4. \A j \in Instances : agent[j] = "none" => agent'[j] = "none"
    BY DEF ResetStep, ResetObsolete, ResetReads, ResetSelects, ResetCancels, ResetMarks,
        ResetChecks, ResetDeletes, ResetStops, ResetCompletes, RequestReset, RetryDelayPasses,
        Faults, Restart, ResetThrows, CallThrows
  <1> QED
    BY <1>1, <1>2, <1>3, <1>4, PurposeFrame

\* Every step preserves the invariant.
LEMMA PurposeNext == TypeOK /\ PurposeInv /\ [Next]_vars => PurposeInv'
  <1> SUFFICES ASSUME TypeOK, PurposeInv, [Next]_vars PROVE PurposeInv'
    OBVIOUS
  <1>1. CASE UNCHANGED vars
    BY <1>1, PurposeFrame DEF vars, hostVars, instanceVars, Forward
  <1> QED
    BY <1>1, PurposeWorker, PurposeEnvironment, PurposeReconciler, PurposeAside DEF Next

\* The runtime of an instance that is wanted is never deleted, although the
\* reconciler works on a snapshot of the rows and a later one of the runtimes.
THEOREM DeletionsAreMeant == Spec => RuntimesDeletedOnPurpose
  <1>1. TypeOK /\ PurposeInv /\ [Next]_vars =>
            [\A i \in Instances :
                runtime[i] # "none" /\ runtime'[i] = "none"
                    => life[i] \in {"STOPPING", "STOPPED"} \/ reset.pc = "stop"]_vars
    <2> SUFFICES ASSUME TypeOK, PurposeInv, Next, NEW i \in Instances,
                        runtime[i] # "none", runtime'[i] = "none"
                 PROVE  life[i] \in {"STOPPING", "STOPPED"} \/ reset.pc = "stop"
      OBVIOUS
    <2> USE DEF hostVars, instanceVars
    <2>1. ASSUME NEW w, NEW j \in Instances, Proceed(w, j)
          PROVE  life[i] \in {"STOPPING", "STOPPED"}
      <3>1. CASE DeleteRuntime(w, j)
        <4>1. i = j /\ <<w, "delete", j>> \in calls
          BY <3>1 DEF DeleteRuntime, Awaited, TypeOK
        <4> QED
          BY <4>1 DEF PurposeInv, Over
      <3>2. CASE HaltRetained(w, j)
        BY <3>2 DEF HaltRetained, TypeOK
      <3> QED
        BY <2>1, <3>1, <3>2 DEF Proceed, FailInstance, BeginStop, RecordFailure,
            RetainFinalRuntime, MarkStopped
    <2>2. ASSUME NEW j \in Instances, WorkerStep(j)
          PROVE  life[i] \in {"STOPPING", "STOPPED"}
      BY <2>1, <2>2 DEF WorkerStep, Claim, RefuseCreate, ObsoleteCreate, AskAgent,
          CommitCreate, CreateThrows
    <2>3. ASSUME NEW j \in Instances, ClearPolicy(j) \/ Environment(j)
          PROVE  FALSE
      BY <2>3 DEF ClearPolicy, Environment, CreateWarm, HostLost, ServerReady, BeginDrain,
          RuntimeDies, StartupDeadlinePasses, AgentCreates, AgentGivesUp, TypeOK
    <2>4. CASE ReconcilerStep
      <3>1. ASSUME NEW j \in Instances, DeleteOrphan(j)
            PROVE  life[i] \in {"STOPPING", "STOPPED"}
        BY <3>1 DEF DeleteOrphan, TypeOK, PurposeInv
      <3> QED
        BY <2>1, <2>4, <3>1 DEF ReconcilerStep, ReconcilerReads, ReconcilerLists
    <2>5. CASE ResetStep
      BY <2>5 DEF ResetStep, ResetObsolete, ResetReads, ResetSelects, ResetCancels,
          ResetMarks, ResetChecks, ResetDeletes, ResetStops, ResetCompletes
    <2>6. CASE RequestReset \/ RetryDelayPasses \/ Faults
      BY <2>6 DEF RequestReset, RetryDelayPasses, Faults, Restart, ResetThrows, CallThrows
    <2> QED
      BY <2>2, <2>3, <2>4, <2>5, <2>6 DEF Next
  <1>2. Init => PurposeInv
    BY DEF Init, PurposeInv
  <1> QED
    BY <1>1, <1>2, PurposeNext, TypeCorrect, PTL DEF Spec, RuntimesDeletedOnPurpose
=============================================================================
