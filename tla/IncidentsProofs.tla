-------------------------- MODULE IncidentsProofs --------------------------
(***************************************************************************)
(* Theorems about Incidents, for every set of loops, threshold, host and   *)
(* number of changes and faults.                                           *)
(*                                                                         *)
(* A loop taken for healthy has no unresolved row, because the rows of the *)
(* loops are written by nobody but the scheduler: the observations of the  *)
(* detectors, which it might confuse with them, concern other rows         *)
(* (OwnRows).                                                              *)
(***************************************************************************)
EXTENDS Incidents, TLAPS

\* An unfinished tick observes rows of detectors only.
OwnRows ==
    /\ tick.pc \in {"idle", "observe", "resolve"}
    /\ tick.pc = "observe" => \A o \in tick.todo : o.fingerprint \in Detected

IInv == TypeOK /\ OwnRows /\ HealthyMeansResolved

\* What is detected concerns a detector.
LEMMA DetectOwn == \A o \in Detect : o.fingerprint \in Detected
  BY DEF Detect, DetectCapacity, DetectInstanceFailures, DetectHosts, DetectMaintenance,
      DetectTransferFailures, DetectCommandFailures, Observation, Detected, Aged, Windows

\* A detector is not a loop.
LEMMA LoopsApart ==
    /\ \A t \in Tasks : t \in Fingerprints /\ t \notin Detected
    /\ \A f \in Detected : f \in Fingerprints /\ f \notin Tasks
    /\ "incidents" \in Tasks /\ Aged \subseteq Detected /\ OtherTasks \subseteq Tasks
  BY TasksAssumption DEF Fingerprints, Tasks, Detected

RowStates == {"NONE", "PENDING", "DUE", "ACTIVE"}

\* A row that gets a state, and the same said of the loops.
LEMMA RowTyped ==
    ASSUME TypeOK, NEW f \in Fingerprints, NEW s \in RowStates,
           row' = [row EXCEPT ![f] = s]
    PROVE  /\ row' \in [Fingerprints -> RowStates]
           /\ row'[f] = s /\ \A g \in Fingerprints \ {f} : row'[g] = row[g]
  BY DEF TypeOK, RowStates

\* resolve leaves the rows within their types, and the row resolved is gone.
LEMMA ResolveTyped ==
    ASSUME TypeOK, NEW f \in Fingerprints, Resolve(f)
    PROVE  /\ row' \in [Fingerprints -> RowStates] /\ count' \in [Tasks -> 0..Threshold]
           /\ row'[f] = "NONE" /\ \A g \in Fingerprints \ {f} : row'[g] = row[g]
  <1>1. count' \in [Tasks -> 0..Threshold]
    BY ConfigAssumption DEF Resolve, TypeOK
  <1>2. row' = [row EXCEPT ![f] = "NONE"] /\ "NONE" \in RowStates
    BY DEF Resolve, RowStates
  <1> QED
    BY <1>1, <1>2, RowTyped

\* The cluster, the age of a row, and the rows that are pruned.
LEMMA InvCluster ==
    ASSUME IInv,
           \/ ConfigurationChanges \/ InstancesChange \/ FailuresChange \/ Prune
           \/ \E f \in Aged : Age(f)
    PROVE  IInv'
  <1> USE DEF IInv, Change, clusterVars, rowVars
  <1>1. CASE ConfigurationChanges
    BY <1>1 DEF ConfigurationChanges, TypeOK, OwnRows, HealthyMeansResolved
  <1>2. CASE InstancesChange
    <2>1. inst' \in [Kinds -> Nat]
      <3>1. ASSUME NEW m \in Moves, inst[m[1]] > 0,
                   inst' = [inst EXCEPT ![m[1]] = @ - 1, ![m[2]] = @ + 1]
            PROVE  inst' \in [Kinds -> Nat]
        <4>1. m[1] \in Kinds /\ m[2] \in Kinds /\ m[1] # m[2]
          BY DEF Moves, Kinds
        <4> QED
          BY <3>1, <4>1 DEF TypeOK
      <3>2. ASSUME inst["held"] > 0, inst' = [inst EXCEPT !["held"] = @ - 1]
            PROVE  inst' \in [Kinds -> Nat]
        BY <3>2 DEF TypeOK, Kinds
      <3> QED
        BY <1>2, <3>1, <3>2 DEF InstancesChange, TypeOK, Kinds
    <2> QED
      BY <1>2, <2>1 DEF InstancesChange, TypeOK, OwnRows, HealthyMeansResolved
  <1>3. CASE FailuresChange \/ Prune
    BY <1>3 DEF FailuresChange, Prune, TypeOK, OwnRows, HealthyMeansResolved
  <1>4. ASSUME NEW f \in Aged, Age(f)
        PROVE  IInv'
    <2>1. f \in Fingerprints /\ row' = [row EXCEPT ![f] = "DUE"] /\ "DUE" \in RowStates
      BY <1>4, LoopsApart DEF Age, RowStates
    <2>2. row' \in [Fingerprints -> RowStates]
          /\ \A g \in Fingerprints \ {f} : row'[g] = row[g]
      BY <2>1, RowTyped
    <2>3. f \notin healthy
      BY <1>4 DEF Age, HealthyMeansResolved
    <2>4. HealthyMeansResolved'
      BY <1>4, <2>2, <2>3, LoopsApart DEF Age, HealthyMeansResolved, TypeOK
    <2> QED
      BY <1>4, <2>2, <2>4 DEF Age, TypeOK, RowStates, OwnRows
  <1> QED
    BY <1>1, <1>2, <1>3, <1>4

\* One tick of the detectors.
LEMMA InvTick ==
    ASSUME IInv, TickStep \/ TickFails
    PROVE  IInv'
  <1> USE DEF IInv, clusterVars, rowVars
  <1>1. CASE TickDetect
    <2>1. tick'.pc = "observe" /\ tick'.todo = Detect
      BY <1>1 DEF TickDetect
    <2>2. OwnRows'
      BY <2>1, DetectOwn DEF OwnRows
    <2> QED
      BY <1>1, <2>2 DEF TickDetect, TypeOK, HealthyMeansResolved
  <1>2. CASE TickObserve
    <2> DEFINE o == CHOOSE o \in tick.todo : TRUE
    <2>1. o \in tick.todo /\ tick.pc = "observe"
      BY <1>2 DEF TickObserve
    <2>2. o.fingerprint \in Fingerprints /\ o.fingerprint \notin Tasks
      BY <2>1, LoopsApart DEF OwnRows
    <2>3. Observe(o) /\ tick' = [tick EXCEPT !.todo = @ \ {o}]
      BY <1>2 DEF TickObserve
    <2> HIDE DEF o
    <2>4. PICK s \in RowStates : row' = [row EXCEPT ![o.fingerprint] = s]
      BY <2>3 DEF Observe, RowStates
    <2>5. row' \in [Fingerprints -> RowStates]
          /\ \A g \in Fingerprints \ {o.fingerprint} : row'[g] = row[g]
      BY <2>2, <2>4, RowTyped
    <2>6. HealthyMeansResolved'
      BY <1>2, <2>2, <2>5, LoopsApart DEF TickObserve, HealthyMeansResolved, TypeOK
    <2>7. OwnRows'
      BY <2>1, <2>3 DEF OwnRows
    <2> QED
      BY <1>2, <2>3, <2>5, <2>6, <2>7 DEF TickObserve, Observe, TypeOK, RowStates
  <1>3. CASE TickSelect
    BY <1>3 DEF TickSelect, TypeOK, OwnRows, HealthyMeansResolved
  <1>4. CASE TickResolve
    <2> DEFINE f == CHOOSE f \in tick.todo : TRUE
    <2>1. Resolve(f) /\ tick' = [tick EXCEPT !.todo = @ \ {f}] /\ tick.pc = "resolve"
      BY <1>4 DEF TickResolve
    <2> HIDE DEF f
    <2>2. row' = [row EXCEPT ![f] = "NONE"]
      BY <2>1 DEF Resolve
    <2>3. row' \in [Fingerprints -> RowStates] /\ HealthyMeansResolved'
      BY <1>4, <2>2, LoopsApart DEF TickResolve, TypeOK, RowStates, HealthyMeansResolved
    <2>4. count' \in [Tasks -> 0..Threshold]
      BY <2>1, ConfigAssumption DEF Resolve, TypeOK
    <2> QED
      BY <1>4, <2>1, <2>3, <2>4 DEF TickResolve, TypeOK, RowStates, OwnRows
  <1>5. CASE TickDone \/ TickFails
    <2>1. tick' = Idle /\ loop' \in [Tasks -> {"idle", "succeeded", "failed"}]
      BY <1>5 DEF TickDone, TickFails, TickEnds, TypeOK
    <2> QED
      BY <1>5, <2>1 DEF TickDone, TickFails, TypeOK, OwnRows, Idle, HealthyMeansResolved
  <1> QED
    BY <1>1, <1>2, <1>3, <1>4, <1>5 DEF TickStep

\* The scheduler: a loop enters the healthy ones with its row resolved, and
\* leaves them before a row of it is written.
LEMMA InvLoops ==
    ASSUME IInv, NEW t \in Tasks,
           LoopStep(t) \/ SuccessNotRecorded(t) \/ FailureNotRecorded(t)
    PROVE  IInv'
  <1> USE DEF IInv, clusterVars, rowVars
  <1>0. t \in Fingerprints
    BY LoopsApart
  <1>1. CASE RunTask(t) \/ SuccessNotRecorded(t) \/ FailureNotRecorded(t)
    <2>1. loop' \in [Tasks -> {"idle", "succeeded", "failed"}]
      BY <1>1 DEF RunTask, SuccessNotRecorded, FailureNotRecorded, TypeOK
    <2> QED
      BY <1>1, <2>1 DEF RunTask, SuccessNotRecorded, FailureNotRecorded, TypeOK,
          OwnRows, HealthyMeansResolved
  <1>2. CASE RecordLoopSuccess(t)
    <2>1. /\ row' \in [Fingerprints -> RowStates] /\ count' \in [Tasks -> 0..Threshold]
          /\ row'[t] = "NONE" /\ \A g \in Fingerprints \ {t} : row'[g] = row[g]
      <3>1. CASE t \in healthy
        BY <1>2, <3>1 DEF RecordLoopSuccess, HealthyMeansResolved, TypeOK, RowStates
      <3>2. CASE t \notin healthy
        BY <1>0, <1>2, <3>2, ResolveTyped DEF RecordLoopSuccess
      <3> QED
        BY <3>1, <3>2
    <2>2. loop' \in [Tasks -> {"idle", "succeeded", "failed"}]
          /\ healthy' = healthy \cup {t}
      BY <1>2 DEF RecordLoopSuccess, TypeOK
    <2>3. HealthyMeansResolved'
      BY <2>1, <2>2, LoopsApart DEF HealthyMeansResolved, TypeOK
    <2> QED
      BY <1>2, <2>1, <2>2, <2>3 DEF RecordLoopSuccess, TypeOK, RowStates, OwnRows
  <1>3. CASE RecordLoopFailure(t)
    <2>1. count' \in [Tasks -> 0..Threshold]
      BY <1>3, ConfigAssumption DEF RecordLoopFailure, ObserveLoop, TypeOK
    <2>2. PICK s \in RowStates : row' = [row EXCEPT ![t] = s]
      BY <1>3 DEF RecordLoopFailure, ObserveLoop, RowStates
    <2>3. row' \in [Fingerprints -> RowStates]
          /\ \A g \in Fingerprints \ {t} : row'[g] = row[g]
      BY <1>0, <2>2, RowTyped
    <2>4. loop' \in [Tasks -> {"idle", "succeeded", "failed"}]
          /\ healthy' = healthy \ {t}
      BY <1>3 DEF RecordLoopFailure, TypeOK
    <2>5. HealthyMeansResolved'
      BY <2>3, <2>4, LoopsApart DEF HealthyMeansResolved, TypeOK
    <2> QED
      BY <1>3, <2>1, <2>3, <2>4, <2>5 DEF RecordLoopFailure, TypeOK, RowStates, OwnRows
  <1> QED
    BY <1>1, <1>2, <1>3 DEF LoopStep

\* The types, the rows of the detectors and the rows of the healthy loops are
\* an inductive invariant.
THEOREM Invariant == Spec => []IInv
  <1>1. Init => IInv
    <2> SUFFICES ASSUME Init PROVE IInv
      OBVIOUS
    <2>1. TypeOK
      BY ConfigAssumption DEF Init, TypeOK
    <2>2. OwnRows /\ HealthyMeansResolved
      BY DEF Init, OwnRows, HealthyMeansResolved, Idle
    <2> QED
      BY <2>1, <2>2 DEF IInv
  <1>2. IInv /\ [Next]_vars => IInv'
    <2> SUFFICES ASSUME IInv, [Next]_vars PROVE IInv'
      OBVIOUS
    <2>1. CASE UNCHANGED vars
      BY <2>1 DEF vars, clusterVars, rowVars, IInv, TypeOK, OwnRows, HealthyMeansResolved
    <2>2. CASE Restart
      BY <2>2 DEF Restart, clusterVars, rowVars, IInv, TypeOK, OwnRows, Idle,
          HealthyMeansResolved
    <2> QED
      BY <2>1, <2>2, InvCluster, InvTick, InvLoops DEF Next
  <1> QED
    BY <1>1, <1>2, PTL DEF Spec

\* The rows and counters stay within their columns.
THEOREM TypeCorrect == Spec => []TypeOK
  <1>1. IInv => TypeOK
    BY DEF IInv
  <1> QED
    BY <1>1, Invariant, PTL

\* recordLoopSuccess may skip the database for a loop that is taken for
\* healthy: the loop has no row that would stay unresolved.
THEOREM HealthyAreResolved == Spec => []HealthyMeansResolved
  <1>1. IInv => HealthyMeansResolved
    BY DEF IInv
  <1> QED
    BY <1>1, Invariant, PTL
=============================================================================
