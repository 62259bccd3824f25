---------------------------- MODULE FleetProofs ----------------------------
(***************************************************************************)
(* Theorems about Fleet, for every set of hosts, every finite set of       *)
(* instances, and any policy, demand, size and number of faults.           *)
(***************************************************************************)
EXTENDS Fleet, FiniteSetTheorems, TLAPS

-----------------------------------------------------------------------------
(* Types                                                                   *)

Admins == {"ACTIVE", "DRAINING", "MAINTENANCE"}
Healths == {"RECOVERING", "ONLINE", "OFFLINE"}
Caps == [renew : Instances \cup {None}, create : 0..Maximum, drain : SUBSET Instances]
Maints == [hosts : SUBSET Hosts, empty : Hosts \cup {None},
           todo : SUBSET (Instances \X {"fail", "replace"})]

HostType ==
    /\ admin \in [Hosts -> Admins] /\ health \in [Hosts -> Healths]
    /\ alloc \in [Hosts -> Sizes] /\ reach \in [Hosts -> BOOLEAN]

InstType ==
    /\ life \in [Instances -> Lives] /\ host \in [Instances -> Hosts \cup {None}]
    /\ replaces \in [Instances -> Instances \cup {None}]
    /\ due \in [Instances -> BOOLEAN]

LoopType ==
    /\ rec \subseteq Instances /\ handoffs \subseteq Instances
    /\ cap \in Caps /\ maint \in Maints

BoundType == enabled \in BOOLEAN /\ faults \in 0..MaxFaults /\ drains \in 0..MaxDrains

LEMMA TypeParts == TypeOK <=> HostType /\ InstType /\ LoopType /\ BoundType
  BY DEF TypeOK, HostType, InstType, LoopType, BoundType, Admins, Healths, Caps, Maints

\* A host that is chosen is ONLINE and ACTIVE, and the source may be replaced.
LEMMA PlacementChosen ==
    ASSUME NEW s, NEW reason, NEW h \in Placement(s, reason)
    PROVE  /\ h \in Hosts /\ admin[h] = "ACTIVE"
           /\ s # None => Replaceable(s, reason)
  BY DEF Placement, SelectForPlacement, SelectExecutionHost, Candidates

\* What the operations do to the rows of server_instances.
LEMMA InstTyped ==
    ASSUME InstType, NEW i \in Instances \cup {None}, NEW reason,
           \/ CreateWarm(i, reason)
           \/ i # None /\ (Drained(i) \/ Failed(i) \/ Stopping(i))
           \/ UNCHANGED instVars
    PROVE  InstType'
  <1>1. CASE UNCHANGED instVars
    BY <1>1 DEF InstType, instVars
  <1>2. CASE CreateWarm(i, reason)
    <2>1. CASE UNCHANGED instVars
      BY <1>1, <2>1
    <2>2. CASE ~ UNCHANGED instVars
      <3>1. PICK h \in Placement(i, reason), n \in In({"NONE"}) :
                /\ life' = [life EXCEPT ![n] = "CREATING"]
                /\ host' = [host EXCEPT ![n] = h]
                /\ replaces' = [replaces EXCEPT ![n] = i]
                /\ UNCHANGED due
        BY <1>2, <2>2 DEF CreateWarm
      <3>2. h \in Hosts
        BY PlacementChosen
      <3> QED
        BY <3>1, <3>2 DEF InstType, Lives
    <2> QED
      BY <2>1, <2>2
  <1>3. CASE i \in Instances /\ (Drained(i) \/ Failed(i) \/ Stopping(i))
    BY <1>1, <1>3 DEF Drained, Failed, Stopping, InstType, Lives
  <1> QED
    BY <1>1, <1>2, <1>3

\* decideCapacity creates at most what the group has room for.
LEMMA DecisionTyped ==
    ASSUME NEW demand \in 0..MaxDemand
    PROVE  DecideCapacity(RequiredHubInstances(demand)).create \in 0..Maximum
  <1>1. \A L : Cardinality(In(L)) \in Nat
    <2> TAKE L
    <2>1. In(L) \subseteq Instances
      BY DEF In
    <2>2. IsFiniteSet(In(L))
      BY <2>1, InstancesAssumption, FS_Subset
    <2> QED
      BY <2>2, FS_CardinalityType
  <1> DEFINE active == Cardinality(In(ActiveLives))
             warm == Cardinality(In({"RUNNING"}))
             starting == Cardinality(In({"CREATING", "STARTING"}))
             required == RequiredHubInstances(demand)
             room == Max0(Maximum - active)
             floor == Larger(Minimum, required)
             deficit == Larger(Max0(floor - active), Max0(MinWarm - warm - starting))
  <1>2. active \in Nat /\ warm \in Nat /\ starting \in Nat
    BY <1>1
  <1>3. required \in Int
    BY PolicyAssumption DEF RequiredHubInstances
  <1>4. DecideCapacity(required).create \in {0, Smaller(room, deficit)}
    BY DEF DecideCapacity
  <1> HIDE DEF active, warm, starting, required
  <1>5. room \in 0..Maximum
    BY <1>2, PolicyAssumption DEF Max0
  <1>6. deficit \in Nat
    BY <1>2, <1>3, PolicyAssumption DEF Max0, Larger
  <1> HIDE DEF room, deficit
  <1>7. Smaller(room, deficit) \in 0..Maximum /\ 0 \in 0..Maximum
    BY <1>5, <1>6, PolicyAssumption DEF Smaller
  <1> QED
    BY <1>4, <1>7 DEF required

LEMMA TypeInit == Init => TypeOK
  BY FleetBounds, PolicyAssumption DEF Init, TypeOK, NoCap, NoMaint, Lives

LEMMA TypeHost ==
    ASSUME TypeOK, NEW h \in Hosts, Host(h)
    PROVE  TypeOK'
  <1> USE DEF hostVars, instVars, loopVars, bounds
  <1>1. HostType /\ InstType /\ LoopType /\ BoundType
    BY TypeParts
  <1>2. HostType'
    BY <1>1 DEF Host, Heartbeat, RecordControlFailure, RequestDrain, Activate, MarkOnline,
       MarkOffline, HostLost, HostBack, HostType, Admins, Healths
  <1>3. UNCHANGED instVars
    BY DEF Host, Heartbeat, RecordControlFailure, RequestDrain, Activate, MarkOnline,
       MarkOffline, HostLost, HostBack
  <1>4. InstType'
    BY <1>1, <1>3 DEF InstType
  <1>5. LoopType'
    BY <1>1 DEF Host, Heartbeat, RecordControlFailure, RequestDrain, Activate, MarkOnline,
       MarkOffline, HostLost, HostBack, LoopType, In
  <1>6. BoundType'
    BY <1>1, FleetBounds DEF Host, Heartbeat, RecordControlFailure, RequestDrain, Activate,
       MarkOnline, MarkOffline, HostLost, HostBack, Fault, BoundType
  <1> QED
    BY <1>2, <1>4, <1>5, <1>6, TypeParts DEF TypeOK, HostType, InstType, LoopType, BoundType,
       Admins, Healths, Caps, Maints

LEMMA TypeInstance ==
    ASSUME TypeOK, NEW i \in Instances, Instance(i)
    PROVE  TypeOK'
  <1> USE DEF hostVars, instVars, loopVars, bounds
  <1>1. HostType /\ InstType /\ LoopType /\ BoundType
    BY TypeParts
  <1>2. UNCHANGED hostVars /\ UNCHANGED enabled
    BY DEF Instance, Start, MarkReady, ReadyAgain, CompleteReplacement, FinishStop,
       RenewalDue, ReconcileRow, RuntimeMissing, FailHostInstance
  <1>3. BoundType'
    BY <1>1, <1>2, FleetBounds DEF Instance, Start, MarkReady, ReadyAgain,
       CompleteReplacement, FinishStop, RenewalDue, ReconcileRow, RuntimeMissing,
       FailHostInstance, BoundType
  <1>4. HostType'
    BY <1>1, <1>2 DEF HostType
  <1>5. LoopType'
    <2>1. CASE FinishStop(i)
      <3>1. cap' = [renew |-> IF cap.renew = i THEN None ELSE cap.renew,
                    create |-> cap.create, drain |-> cap.drain \ {i}]
        BY <1>1, <2>1 DEF FinishStop, LoopType, Caps
      <3>2. maint' = [hosts |-> maint.hosts, empty |-> maint.empty,
                      todo |-> {t \in maint.todo : t[1] # i}]
        BY <1>1, <2>1 DEF FinishStop, LoopType, Maints
      <3>3. cap' \in Caps
        BY <1>1, <3>1 DEF LoopType, Caps
      <3>4. maint' \in Maints
        BY <1>1, <3>2 DEF LoopType, Maints
      <3>5. rec' \subseteq Instances /\ handoffs' \subseteq Instances
        BY <1>1, <2>1 DEF FinishStop, LoopType
      <3> QED
        BY <3>3, <3>4, <3>5 DEF LoopType
    <2>2. CASE ~ FinishStop(i)
      <3>1. UNCHANGED <<cap, maint>>
        BY <2>2 DEF Instance, Start, MarkReady, ReadyAgain, CompleteReplacement,
           RenewalDue, ReconcileRow, RuntimeMissing, FailHostInstance
      <3>2. rec' \subseteq rec /\ handoffs' \subseteq handoffs \cup {i}
        BY <2>2 DEF Instance, Start, MarkReady, ReadyAgain, CompleteReplacement,
           RenewalDue, ReconcileRow, RuntimeMissing, FailHostInstance
      <3> QED
        BY <1>1, <3>1, <3>2 DEF LoopType
    <2> QED
      BY <2>1, <2>2
  <1>6. InstType'
    <2>1. CASE CompleteReplacement(i)
      BY <1>1, <2>1, InstTyped DEF CompleteReplacement, Drained, InstType, Lives
    <2>2. CASE ReconcileRow(i) \/ RuntimeMissing(i) \/ FailHostInstance(i)
      <3>1. i # None
        BY NoneAssumption
      <3>2. Failed(i) \/ Stopping(i) \/ UNCHANGED instVars
        BY <2>2 DEF ReconcileRow, RuntimeMissing, FailHostInstance
      <3> QED
        BY <1>1, <3>1, <3>2, InstTyped
    <2>3. CASE Start(i) \/ MarkReady(i) \/ ReadyAgain(i) \/ FinishStop(i) \/ RenewalDue(i)
      BY <1>1, <2>3 DEF Start, MarkReady, ReadyAgain, FinishStop, RenewalDue, InstType, Lives
    <2> QED
      BY <2>1, <2>2, <2>3 DEF Instance
  <1> QED
    BY <1>3, <1>4, <1>5, <1>6 DEF TypeOK, HostType, InstType, LoopType, BoundType, Admins,
       Healths, Caps, Maints

LEMMA TypeMaintenance ==
    ASSUME TypeOK, Maintenance
    PROVE  TypeOK'
  <1> USE DEF hostVars, instVars, loopVars, bounds
  <1>1. HostType /\ InstType /\ LoopType /\ BoundType
    BY TypeParts
  <1>2. BoundType'
    BY <1>1 DEF Maintenance, MaintTick, MarkMaintenance, DrainHost, MaintFail, MaintReplace,
       BoundType
  <1>3. HostType'
    BY <1>1 DEF Maintenance, MaintTick, MarkMaintenance, DrainHost, MaintFail, MaintReplace,
       HostType, Admins
  <1>4. maint' \in Maints
    <2>1. CASE MaintTick
      <3>1. maint' = [hosts |-> {h \in Hosts : admin[h] = "DRAINING"},
                      empty |-> maint.empty, todo |-> maint.todo]
        BY <1>1, <2>1 DEF MaintTick, LoopType, Maints
      <3> QED
        BY <1>1, <3>1 DEF LoopType, Maints
    <2>2. CASE MarkMaintenance
      <3>1. maint' = [hosts |-> maint.hosts, empty |-> None, todo |-> maint.todo]
        BY <1>1, <2>2 DEF MarkMaintenance, LoopType, Maints
      <3> QED
        BY <1>1, <3>1 DEF LoopType, Maints
    <2>3. ASSUME NEW h \in Hosts, DrainHost(h) PROVE maint' \in Maints
      <3> DEFINE todo == {<<i, "fail">> : i \in On(h) \cap In({"CREATING", "STARTING"})}
                         \cup {<<i, "replace">> : i \in On(h) \cap In({"RUNNING"})}
      <3>1. todo \subseteq Instances \X {"fail", "replace"}
        BY DEF On, In
      <3>2. maint' = [hosts |-> maint.hosts \ {h},
                      empty |-> IF On(h) = {} THEN h ELSE None, todo |-> todo]
        BY <2>3 DEF DrainHost
      <3> HIDE DEF todo
      <3> QED
        BY <1>1, <3>1, <3>2 DEF LoopType, Maints
    <2>4. ASSUME NEW i \in Instances, MaintFail(i) \/ MaintReplace(i)
          PROVE  maint' \in Maints
      <3>1. \E t : maint' = [hosts |-> maint.hosts, empty |-> maint.empty,
                             todo |-> maint.todo \ {t}]
        BY <1>1, <2>4 DEF MaintFail, MaintReplace, LoopType, Maints
      <3> QED
        BY <1>1, <3>1 DEF LoopType, Maints
    <2> QED
      BY <2>1, <2>2, <2>3, <2>4 DEF Maintenance
  <1>5. LoopType'
    <2>1. UNCHANGED <<rec, cap>>
      BY DEF Maintenance, MaintTick, MarkMaintenance, DrainHost, MaintFail, MaintReplace
    <2>2. handoffs' \subseteq Instances
      BY <1>1 DEF Maintenance, MaintTick, MarkMaintenance, DrainHost, MaintFail,
         MaintReplace, LoopType
    <2> QED
      BY <1>1, <1>4, <2>1, <2>2 DEF LoopType
  <1>6. InstType'
    <2>1. CASE MaintTick \/ MarkMaintenance \/ \E h \in Hosts : DrainHost(h)
      BY <1>1, <2>1 DEF MaintTick, MarkMaintenance, DrainHost, InstType
    <2>2. ASSUME NEW i \in Instances, MaintFail(i) \/ MaintReplace(i)
          PROVE  InstType'
      <3>1. i # None
        BY NoneAssumption
      <3>2. CreateWarm(i, "HOST_MAINTENANCE") \/ Failed(i) \/ UNCHANGED instVars
        BY <2>2 DEF MaintFail, MaintReplace
      <3> QED
        BY <1>1, <3>1, <3>2, InstTyped
    <2> QED
      BY <2>1, <2>2 DEF Maintenance
  <1> QED
    BY <1>2, <1>3, <1>5, <1>6 DEF TypeOK, HostType, InstType, LoopType, BoundType, Admins,
       Healths, Caps, Maints

LEMMA TypeCapacity ==
    ASSUME TypeOK, Capacity
    PROVE  TypeOK'
  <1> USE DEF hostVars, instVars, loopVars, bounds
  <1>1. HostType /\ InstType /\ LoopType /\ BoundType
    BY TypeParts
  <1>2. UNCHANGED <<hostVars, enabled, bounds, rec, maint>>
    BY DEF Capacity, CapTick, CapRenew, CapCreate, CapDrain
  <1>3. HostType' /\ BoundType'
    BY <1>1, <1>2 DEF HostType, BoundType
  <1>4. cap' \in Caps
    <2>1. CASE CapTick
      <3>1. PICK demand \in 0..MaxDemand :
               \/ UNCHANGED cap
               \/ \E renew \in {i \in In({"RUNNING"}) : due[i]} \cup {None} :
                  \E D \in SUBSET DrainCandidates :
                     cap' = [renew |-> renew, drain |-> D,
                       create |-> DecideCapacity(RequiredHubInstances(demand)).create]
        BY <2>1 DEF CapTick
      <3>2. CASE UNCHANGED cap
        BY <1>1, <3>2 DEF LoopType
      <3>3. CASE ~ UNCHANGED cap
        <4>1. PICK renew \in Instances \cup {None}, D \in SUBSET Instances :
                  cap' = [renew |-> renew, drain |-> D,
                    create |-> DecideCapacity(RequiredHubInstances(demand)).create]
          BY <3>1, <3>3 DEF In, DrainCandidates
        <4> QED
          BY <4>1, DecisionTyped DEF Caps
      <3> QED
        BY <3>2, <3>3
    <2>2. CASE CapRenew
      <3>1. NoCap \in Caps
        BY PolicyAssumption DEF NoCap, Caps
      <3>2. cap' = NoCap \/ cap' = [renew |-> None, create |-> cap.create, drain |-> cap.drain]
        BY <1>1, <2>2 DEF CapRenew, LoopType, Caps
      <3> QED
        BY <1>1, <3>1, <3>2 DEF LoopType, Caps
    <2>3. CASE CapCreate
      <3>1. cap' = [renew |-> cap.renew, create |-> cap.create - 1, drain |-> cap.drain]
            /\ cap.create > 0
        BY <1>1, <2>3 DEF CapCreate, LoopType, Caps
      <3> QED
        BY <1>1, <3>1, PolicyAssumption DEF LoopType, Caps
    <2>4. ASSUME NEW i \in Instances, CapDrain(i) PROVE cap' \in Caps
      <3>1. cap' = [renew |-> cap.renew, create |-> cap.create, drain |-> cap.drain \ {i}]
        BY <1>1, <2>4 DEF CapDrain, LoopType, Caps
      <3> QED
        BY <1>1, <3>1 DEF LoopType, Caps
    <2> QED
      BY <2>1, <2>2, <2>3, <2>4 DEF Capacity
  <1>5. handoffs' \subseteq Instances
    BY <1>1 DEF Capacity, CapTick, CapRenew, CapCreate, CapDrain, ActiveRenewals, LoopType
  <1>6. LoopType'
    BY <1>1, <1>2, <1>4, <1>5 DEF LoopType
  <1>7. InstType'
    <2>1. CASE CapTick
      BY <1>1, <2>1 DEF CapTick, InstType
    <2>2. CASE CapRenew \/ CapCreate
      <3>1. cap.renew \in Instances \cup {None}
        BY <1>1 DEF LoopType, Caps
      <3>2. \/ CreateWarm(cap.renew, "HUB_RENEWAL") \/ CreateWarm(None, "none")
        BY <2>2 DEF CapRenew, CapCreate
      <3> QED
        BY <1>1, <3>1, <3>2, InstTyped
    <2>3. ASSUME NEW i \in Instances, CapDrain(i) PROVE InstType'
      <3>1. Drained(i) /\ i # None
        BY <2>3, NoneAssumption DEF CapDrain
      <3> QED
        BY <1>1, <3>1, InstTyped
    <2> QED
      BY <2>1, <2>2, <2>3 DEF Capacity
  <1> QED
    BY <1>3, <1>6, <1>7 DEF TypeOK, HostType, InstType, LoopType, BoundType, Admins,
       Healths, Caps, Maints

LEMMA TypeRestart == TypeOK /\ Restart => TypeOK'
  <1> SUFFICES ASSUME TypeOK, Restart PROVE TypeOK'
    OBVIOUS
  <1>1. NoCap \in Caps /\ NoMaint \in Maints
    BY PolicyAssumption DEF NoCap, NoMaint, Caps, Maints
  <1> QED
    BY <1>1, FleetBounds DEF Restart, Fault, TypeOK, Caps, Maints, hostVars, instVars

LEMMA TypeNext == TypeOK /\ [Next]_vars => TypeOK'
  <1> SUFFICES ASSUME TypeOK, [Next]_vars PROVE TypeOK'
    OBVIOUS
  <1>1. CASE UNCHANGED vars
    BY <1>1 DEF vars, hostVars, instVars, loopVars, bounds, TypeOK
  <1>2. CASE Next
    BY <1>2, TypeHost, TypeInstance, TypeMaintenance, TypeCapacity, TypeRestart DEF Next
  <1> QED
    BY <1>1, <1>2

\* Every column keeps its type, and a capacity tick never wants more than the
\* maximum.
THEOREM TypeCorrect == Spec => []TypeOK
  BY TypeInit, TypeNext, PTL DEF Spec

-----------------------------------------------------------------------------
(* Maintenance                                                             *)

\* What the maintenance loop has read of hosts is still so when it acts: only it
\* ends a drain, and a host that is drained gets no new instance.  So the host
\* it found empty is empty when it is marked.
MaintInv ==
    /\ \A h \in maint.hosts : admin[h] = "DRAINING"
    /\ maint.empty # None => /\ admin[maint.empty] = "DRAINING"
                             /\ maint.empty \notin maint.hosts
                             /\ \A i \in Instances : host[i] # maint.empty
    /\ MaintenanceEmpty

\* No step moves an instance, and a new one is only placed on an ACTIVE host.
LEMMA Placed ==
    ASSUME TypeOK, [Next]_vars, NEW i \in Instances
    PROVE  \/ host'[i] = host[i] \/ host'[i] = None
           \/ host'[i] \in Hosts /\ admin[host'[i]] = "ACTIVE"
  <1> USE DEF vars, hostVars, instVars, loopVars, bounds
  <1> DEFINE Goal == \/ host'[i] = host[i] \/ host'[i] = None
                     \/ host'[i] \in Hosts /\ admin[host'[i]] = "ACTIVE"
  <1>1. ASSUME NEW s, NEW reason, CreateWarm(s, reason) PROVE Goal
    BY <1>1, PlacementChosen DEF CreateWarm, TypeOK
  <1>2. ASSUME UNCHANGED host PROVE Goal
    BY <1>2
  <1>3. ASSUME NEW j \in Instances, Instance(j) PROVE Goal
    <2>1. CASE FinishStop(j)
      BY <2>1 DEF FinishStop, TypeOK
    <2>2. CASE ~ FinishStop(j)
      <3>1. UNCHANGED host
        BY <1>3, <2>2 DEF Instance, Start, MarkReady, ReadyAgain, CompleteReplacement, Drained,
           RenewalDue, ReconcileRow, Failed, Stopping, RuntimeMissing, FailHostInstance
      <3> QED
        BY <1>2, <3>1
    <2> QED
      BY <2>1, <2>2
  <1>4. CASE Maintenance
    <2>1. UNCHANGED host \/ \E s, reason : CreateWarm(s, reason)
      BY <1>4 DEF Maintenance, MaintTick, MarkMaintenance, DrainHost, MaintFail, Failed,
         MaintReplace
    <2> QED
      BY <1>1, <1>2, <2>1
  <1>5. CASE Capacity
    <2>1. UNCHANGED host \/ \E s, reason : CreateWarm(s, reason)
      BY <1>5 DEF Capacity, CapTick, CapRenew, CapCreate, CapDrain, Drained
    <2> QED
      BY <1>1, <1>2, <2>1
  <1>6. ASSUME NEW h \in Hosts, Host(h) PROVE Goal
    BY <1>2, <1>6 DEF Host, Heartbeat, RecordControlFailure, RequestDrain, Activate,
       MarkOnline, MarkOffline, HostLost, HostBack
  <1>7. CASE Restart \/ UNCHANGED vars
    BY <1>2, <1>7 DEF Restart
  <1> QED
    BY <1>3, <1>4, <1>5, <1>6, <1>7 DEF Next

\* So a host that is not ACTIVE only loses instances.
LEMMA OnShrinks ==
    ASSUME TypeOK, [Next]_vars, NEW h \in Hosts, admin[h] # "ACTIVE"
    PROVE  On(h)' \subseteq On(h)
  BY Placed, NoneAssumption DEF On

LEMMA MaintNext ==
    ASSUME TypeOK, MaintInv, [Next]_vars
    PROVE  MaintInv'
  <1> USE DEF vars, hostVars, instVars, loopVars, bounds
  <1>t. /\ maint \in Maints /\ admin \in [Hosts -> Admins]
    BY DEF TypeOK, Maints, Admins
  <1>1. ASSUME \A h \in Hosts :
                   \/ admin'[h] = admin[h]
                   \/ admin[h] \in {"ACTIVE", "MAINTENANCE"} /\ admin'[h] # "MAINTENANCE",
               maint'.hosts = maint.hosts /\ maint'.empty = maint.empty
        PROVE  MaintInv'
    <2>1. \A h \in Hosts : admin[h] = "DRAINING" => admin'[h] = "DRAINING"
      BY <1>1
    <2>2. \A h \in Hosts : admin'[h] = "MAINTENANCE" => On(h)' = {}
      BY <1>1, OnShrinks DEF MaintInv, MaintenanceEmpty
    <2>3. maint'.empty # None => \A i \in Instances : host'[i] # maint'.empty
      <3> SUFFICES ASSUME maint.empty # None, NEW i \in Instances
                   PROVE  host'[i] # maint.empty
        BY <1>1
      <3>1. maint.empty \in Hosts /\ admin[maint.empty] = "DRAINING" /\ host[i] # maint.empty
        BY <1>t DEF Maints, MaintInv
      <3> QED
        BY <3>1, Placed, NoneAssumption
    <2> QED
      BY <1>1, <1>t, <2>1, <2>2, <2>3 DEF MaintInv, MaintenanceEmpty, Maints
  <1>2. ASSUME UNCHANGED admin, UNCHANGED maint PROVE MaintInv'
    BY <1>1, <1>2
  <1>3. ASSUME NEW j \in Instances, Instance(j) PROVE MaintInv'
    <2>1. UNCHANGED admin
      BY <1>3 DEF Instance, Start, MarkReady, ReadyAgain, CompleteReplacement, FinishStop,
         RenewalDue, ReconcileRow, RuntimeMissing, FailHostInstance
    <2>2. maint'.hosts = maint.hosts /\ maint'.empty = maint.empty
      BY <1>3, <1>t DEF Instance, Start, MarkReady, ReadyAgain, CompleteReplacement,
         FinishStop, RenewalDue, ReconcileRow, RuntimeMissing, FailHostInstance, Maints
    <2> QED
      BY <1>1, <2>1, <2>2
  <1>4. CASE Capacity
    BY <1>2, <1>4 DEF Capacity, CapTick, CapRenew, CapCreate, CapDrain
  <1>5. ASSUME NEW h \in Hosts, Host(h) PROVE MaintInv'
    <2>1. UNCHANGED maint
      BY <1>5 DEF Host, Heartbeat, RecordControlFailure, RequestDrain, Activate,
         MarkOnline, MarkOffline, HostLost, HostBack
    <2>2. \A g \in Hosts :
              \/ admin'[g] = admin[g]
              \/ admin[g] \in {"ACTIVE", "MAINTENANCE"} /\ admin'[g] # "MAINTENANCE"
      BY <1>5, <1>t DEF Host, Heartbeat, RecordControlFailure, RequestDrain, Activate,
         MarkOnline, MarkOffline, HostLost, HostBack
    <2> QED
      BY <1>1, <2>1, <2>2
  <1>6. CASE Restart
    <2>1. UNCHANGED <<admin, host>> /\ maint' = NoMaint
      BY <1>6 DEF Restart
    <2> QED
      BY <2>1 DEF NoMaint, MaintInv, MaintenanceEmpty, On
  <1>7. CASE MaintTick
    <2>1. /\ UNCHANGED <<admin, host>> /\ maint'.empty = None
          /\ maint'.hosts = {h \in Hosts : admin[h] = "DRAINING"}
      BY <1>7 DEF MaintTick, NoMaint
    <2> QED
      BY <2>1 DEF MaintInv, MaintenanceEmpty, On
  <1>8. ASSUME NEW h \in Hosts, DrainHost(h) PROVE MaintInv'
    <2>1. /\ UNCHANGED <<admin, host>> /\ h \in maint.hosts
          /\ maint'.hosts = maint.hosts \ {h}
          /\ maint'.empty = IF On(h) = {} THEN h ELSE None
      BY <1>8 DEF DrainHost
    <2>2. \A g : On(g)' = On(g)
      BY <2>1 DEF On
    <2>3. maint'.empty # None => /\ admin'[maint'.empty] = "DRAINING"
                                 /\ maint'.empty \notin maint'.hosts
                                 /\ \A i \in Instances : host'[i] # maint'.empty
      BY <2>1 DEF MaintInv, On
    <2> QED
      BY <2>1, <2>2, <2>3 DEF MaintInv, MaintenanceEmpty
  <1>9. CASE MarkMaintenance
    <2>1. /\ UNCHANGED host /\ maint'.empty = None /\ maint'.hosts = maint.hosts
          /\ admin' = [admin EXCEPT ![maint.empty] = "MAINTENANCE"]
          /\ maint.empty \in Hosts /\ maint.empty \notin maint.hosts
          /\ \A i \in Instances : host[i] # maint.empty
      BY <1>9, <1>t DEF MarkMaintenance, MaintInv, Maints
    <2>2. \A g : On(g)' = On(g)
      BY <2>1 DEF On
    <2> QED
      BY <1>t, <2>1 DEF MaintInv, MaintenanceEmpty, Maints, On
  <1>10. ASSUME NEW i \in Instances, MaintFail(i) \/ MaintReplace(i) PROVE MaintInv'
    <2>1. UNCHANGED admin /\ maint'.hosts = maint.hosts /\ maint'.empty = maint.empty
      BY <1>10, <1>t DEF MaintFail, MaintReplace, Maints
    <2> QED
      BY <1>1, <2>1
  <1>11. CASE UNCHANGED vars
    BY <1>2, <1>11
  <1> QED
    BY <1>3, <1>4, <1>5, <1>6, <1>7, <1>8, <1>9, <1>10, <1>11 DEF Next, Maintenance

\* markMaintenance: a host in MAINTENANCE carries no instance that is not
\* STOPPED, whatever happens between the read that found it empty and the write.
THEOREM MaintenanceIsEmpty == Spec => []MaintenanceEmpty
  <1>1. Init => MaintInv
    BY DEF Init, MaintInv, NoMaint, MaintenanceEmpty
  <1>2. TypeOK /\ MaintInv /\ [Next]_vars => MaintInv'
    BY MaintNext
  <1>3. MaintInv => MaintenanceEmpty
    BY DEF MaintInv
  <1> QED
    BY <1>1, <1>2, <1>3, TypeCorrect, PTL DEF Spec

-----------------------------------------------------------------------------
(* Replacements                                                            *)

Late == {"RUNNING", "DRAINING", "FAILED", "STOPPING"}

\* A replacement that is coming up for a source in service.
Coming(r) ==
    /\ life[r] \in {"CREATING", "STARTING"}
    /\ replaces[r] \in Instances /\ life[replaces[r]] \in {"RUNNING", "DRAINING"}

\* A source was RUNNING when its replacement was created and never starts again,
\* so that it does not come back into service while another is replaced.
ReplInv ==
    /\ \A r \in Instances : replaces[r] # None => life[replaces[r]] \in Late
    /\ \A r, q \in Instances : Coming(r) /\ Coming(q) => r = q

\* Steps that create nothing.
LEMMA ReplKept ==
    ASSUME InstType, ReplInv,
           \A r \in Instances : replaces'[r] = replaces[r] \/ replaces'[r] = None,
           \A i \in Instances :
               /\ life[i] \in Late =>
                     life'[i] \in Late \/ \A r \in Instances : replaces'[r] # i
               /\ life'[i] \in {"RUNNING", "DRAINING"} /\ life[i] \in Late =>
                     life[i] \in {"RUNNING", "DRAINING"}
               /\ life'[i] \in {"CREATING", "STARTING"} =>
                     life[i] \in {"CREATING", "STARTING"}
    PROVE  ReplInv'
  <1>1. \A r \in Instances : replaces'[r] # None => life'[replaces'[r]] \in Late
    BY DEF ReplInv, InstType
  <1>2. \A r \in Instances : Coming(r)' => Coming(r)
    <2> SUFFICES ASSUME NEW r \in Instances, Coming(r)' PROVE Coming(r)
      OBVIOUS
    <2>1. replaces[r] # None /\ replaces'[r] = replaces[r] /\ replaces[r] \in Instances
      BY NoneAssumption DEF Coming
    <2>2. life[replaces[r]] \in Late
      BY <2>1 DEF ReplInv
    <2> QED
      BY <2>1, <2>2 DEF Coming
  <1> QED
    BY <1>1, <1>2 DEF ReplInv

\* createWarm: no other replacement is under way.
LEMMA ReplCreated ==
    ASSUME InstType, ReplInv, NEW s \in Instances \cup {None}, NEW reason,
           CreateWarm(s, reason)
    PROVE  ReplInv'
  <1>1. CASE UNCHANGED instVars
    BY <1>1 DEF instVars, ReplInv, Coming
  <1>2. CASE ~ UNCHANGED instVars
    <2>1. PICK h \in Placement(s, reason), n \in In({"NONE"}) :
              /\ life' = [life EXCEPT ![n] = "CREATING"]
              /\ replaces' = [replaces EXCEPT ![n] = s]
      BY <1>2 DEF CreateWarm
    <2>2. n \in Instances /\ life[n] = "NONE"
      BY DEF In
    <2>3. s # None => life[s] = "RUNNING" /\ ~ ReplacementActive
      BY PlacementChosen DEF Replaceable
    <2>4. s # None => \A r \in Instances : ~ Coming(r)
      <3> SUFFICES ASSUME s # None, NEW r \in Instances, Coming(r) PROVE FALSE
        OBVIOUS
      <3>1. r \in In({"CREATING", "STARTING", "RUNNING"}) /\ replaces[r] # None
            /\ life[replaces[r]] # "FAILED"
        BY NoneAssumption DEF Coming, In
      <3> QED
        BY <2>3, <3>1 DEF ReplacementActive
    <2>5. \A r \in Instances : r # n /\ replaces[r] # None => replaces[r] # n
      BY <2>2 DEF ReplInv, Late
    <2>6. /\ \A r \in Instances \ {n} : life'[r] = life[r] /\ replaces'[r] = replaces[r]
          /\ life'[n] = "CREATING" /\ replaces'[n] = s
      BY <2>1, <2>2 DEF InstType
    <2>7. \A r \in Instances : replaces'[r] # None => life'[replaces'[r]] \in Late
      BY <2>2, <2>3, <2>5, <2>6 DEF ReplInv, Late, InstType
    <2>8. \A r \in Instances \ {n} : Coming(r)' => Coming(r)
      BY <2>5, <2>6, NoneAssumption DEF Coming
    <2>9. Coming(n)' => s # None
      BY <2>6, NoneAssumption DEF Coming
    <2> QED
      BY <2>4, <2>7, <2>8, <2>9 DEF ReplInv
  <1> QED
    BY <1>1, <1>2

\* beginDrain, failInstance and stopAndDelete.
LEMMA ReplRows ==
    ASSUME InstType, ReplInv, NEW i,
           Drained(i) \/ Failed(i) \/ Stopping(i) \/ UNCHANGED instVars
    PROVE  ReplInv'
  <1>1. UNCHANGED replaces
    BY DEF Drained, Failed, Stopping, instVars
  <1>2. \A j \in Instances :
            \/ life'[j] = life[j]
            \/ life[j] = "RUNNING" /\ life'[j] = "DRAINING"
            \/ life[j] \in ActiveLives /\ life'[j] = "FAILED"
            \/ life'[j] = "STOPPING"
    BY DEF Drained, Failed, Stopping, instVars, InstType
  <1> QED
    BY <1>1, <1>2, ReplKept DEF Late

LEMMA ReplNext ==
    ASSUME TypeOK, ReplInv, [Next]_vars
    PROVE  ReplInv'
  <1> USE DEF vars, hostVars, instVars, loopVars, bounds
  <1>t. InstType /\ LoopType
    BY TypeParts
  <1>1. ASSUME UNCHANGED <<life, replaces>> PROVE ReplInv'
    BY <1>1 DEF ReplInv, Coming
  <1>2. ASSUME NEW i \in Instances, Instance(i) PROVE ReplInv'
    <2>1. CASE Start(i) \/ MarkReady(i)
      <3>1. /\ \A j \in Instances \ {i} : life'[j] = life[j]
            /\ UNCHANGED replaces
            /\ \/ life[i] = "CREATING" /\ life'[i] = "STARTING"
               \/ life[i] = "STARTING" /\ life'[i] = "RUNNING"
        BY <1>t, <2>1 DEF Start, MarkReady, InstType
      <3> QED
        BY <1>t, <3>1, ReplKept DEF Late
    <2>2. CASE ReadyAgain(i) \/ RenewalDue(i)
      BY <1>1, <2>2 DEF ReadyAgain, RenewalDue
    <2>3. CASE CompleteReplacement(i)
      BY <1>t, <2>3, ReplRows DEF CompleteReplacement
    <2>4. CASE ReconcileRow(i) \/ RuntimeMissing(i) \/ FailHostInstance(i)
      BY <1>t, <2>4, ReplRows DEF ReconcileRow, RuntimeMissing, FailHostInstance
    <2>5. CASE FinishStop(i)
      <3>1. /\ \A j \in Instances \ {i} : life'[j] = life[j]
            /\ life[i] = "STOPPING" /\ life'[i] = "NONE"
            /\ \A r \in Instances : replaces'[r] = replaces[r] \/ replaces'[r] = None
            /\ \A r \in Instances : replaces'[r] # i
        BY <1>t, <2>5, NoneAssumption DEF FinishStop, InstType
      <3> QED
        BY <1>t, <3>1, ReplKept DEF Late
    <2> QED
      BY <1>2, <2>1, <2>2, <2>3, <2>4, <2>5 DEF Instance
  <1>3. CASE Maintenance
    <2>1. CASE MaintTick \/ MarkMaintenance \/ \E h \in Hosts : DrainHost(h)
      BY <1>1, <2>1 DEF MaintTick, MarkMaintenance, DrainHost
    <2>2. ASSUME NEW i \in Instances, MaintFail(i) \/ MaintReplace(i) PROVE ReplInv'
      BY <1>t, <2>2, ReplRows, ReplCreated DEF MaintFail, MaintReplace
    <2> QED
      BY <1>3, <2>1, <2>2 DEF Maintenance
  <1>4. CASE Capacity
    <2>1. CASE CapTick
      BY <1>1, <2>1 DEF CapTick
    <2>2. CASE CapRenew \/ CapCreate
      <3>1. cap.renew \in Instances \cup {None}
        BY <1>t DEF LoopType, Caps
      <3> QED
        BY <1>t, <2>2, <3>1, ReplCreated DEF CapRenew, CapCreate
    <2>3. ASSUME NEW i \in Instances, CapDrain(i) PROVE ReplInv'
      BY <1>t, <2>3, ReplRows DEF CapDrain
    <2> QED
      BY <1>4, <2>1, <2>2, <2>3 DEF Capacity
  <1>5. ASSUME NEW h \in Hosts, Host(h) PROVE ReplInv'
    BY <1>1, <1>5 DEF Host, Heartbeat, RecordControlFailure, RequestDrain, Activate,
       MarkOnline, MarkOffline, HostLost, HostBack
  <1>6. CASE Restart \/ UNCHANGED vars
    BY <1>1, <1>6 DEF Restart
  <1> QED
    BY <1>2, <1>3, <1>4, <1>5, <1>6 DEF Next

\* createWarm, completeReplacement: renewal and maintenance never have two
\* replacements coming up for sources in service.
THEOREM ReplacementIsSingle == Spec => []OneReplacement
  <1>1. Init => ReplInv
    BY DEF Init, ReplInv, Coming
  <1>2. TypeOK /\ ReplInv /\ [Next]_vars => ReplInv'
    BY ReplNext
  <1>3. ReplInv => OneReplacement
    BY DEF ReplInv, OneReplacement, Coming, In
  <1> QED
    BY <1>1, <1>2, <1>3, TypeCorrect, PTL DEF Spec

-----------------------------------------------------------------------------
(* Service                                                                 *)

\* Without faults and drains no host is away, nothing fails an instance that is
\* RUNNING, and the maintenance loop has nothing to do.
CalmHosts ==
    /\ enabled /\ rec = {} /\ maint = NoMaint
    /\ \A h \in Hosts : admin[h] = "ACTIVE" /\ reach[h]

\* A replacement whose source is not removed yet, from its creation to its drain.
Replacing(r) == life[r] \in {"CREATING", "STARTING", "RUNNING"} /\ replaces[r] # None

\* There is one of them, and its source is not FAILED, so it is not replaced
\* itself: who is about to take over stays in service.
CalmReplacements ==
    /\ \A r \in Instances : replaces[r] # None =>
            replaces[r] # r /\ life[replaces[r]] \in {"RUNNING", "DRAINING", "STOPPING"}
    /\ \A r, q \in Instances : Replacing(r) /\ Replacing(q) => r = q
    /\ \A r \in handoffs : life[r] = "RUNNING" /\ replaces[r] # None

\* The tick drains no replacement, and leaves one instance that is RUNNING, which
\* may since have been succeeded by its replacement.
CalmDrains ==
    /\ \A i \in cap.drain :
            replaces[i] = None /\ life[i] \in {"RUNNING", "DRAINING", "STOPPING"}
    /\ cap.drain # {} => \E j \in Instances \ cap.drain : life[j] = "RUNNING"

Calm == CalmHosts /\ CalmReplacements /\ CalmDrains
CalmInv == faults = 0 /\ drains = 0 => Calm

\* ServiceKept of one step.
Served ==
    \A i \in Instances :
        life[i] = "RUNNING" /\ life'[i] = "DRAINING"
            => \E j \in Instances : life'[j] = "RUNNING"

Settled == CalmReplacements /\ CalmDrains

\* Steps that neither create nor drain.
LEMMA CalmKept ==
    ASSUME InstType, LoopType, Settled,
           \A r \in Instances : replaces'[r] = replaces[r] \/ replaces'[r] = None,
           \A i \in Instances :
               \/ life'[i] = life[i]
               \/ life[i] = "CREATING" /\ life'[i] = "STARTING"
               \/ life[i] = "STARTING" /\ life'[i] \in {"RUNNING", "FAILED"}
               \/ life[i] \in {"DRAINING", "FAILED"} /\ life'[i] = "STOPPING"
               \/ /\ life'[i] = "NONE" /\ life[i] = "STOPPING"
                  /\ i \notin cap'.drain /\ \A r \in Instances : replaces'[r] # i,
           \A r \in handoffs' : life'[r] = "RUNNING" /\ replaces'[r] # None,
           cap'.drain \subseteq cap.drain
    PROVE  Settled' /\ Served
  <1>1. \A r \in Instances : replaces'[r] # None =>
            /\ replaces'[r] # r /\ replaces'[r] \in Instances
            /\ life'[replaces'[r]] \in {"RUNNING", "DRAINING", "STOPPING"}
    BY DEF Settled, CalmReplacements, InstType
  <1>2. \A r \in Instances : Replacing(r)' => Replacing(r)
    BY DEF Replacing
  <1>3. CalmReplacements'
    BY <1>1, <1>2 DEF Settled, CalmReplacements
  <1>4. cap.drain \subseteq Instances
    BY DEF LoopType, Caps
  <1>5. \A i \in cap'.drain :
            replaces'[i] = None /\ life'[i] \in {"RUNNING", "DRAINING", "STOPPING"}
    BY <1>4 DEF Settled, CalmDrains
  <1>6. cap'.drain # {} => \E j \in Instances \ cap'.drain : life'[j] = "RUNNING"
    <2> SUFFICES ASSUME cap'.drain # {} PROVE \E j \in Instances \ cap'.drain : life'[j] = "RUNNING"
      OBVIOUS
    <2>1. PICK j \in Instances \ cap.drain : life[j] = "RUNNING"
      BY DEF Settled, CalmDrains
    <2>2. life'[j] = "RUNNING" /\ j \notin cap'.drain
      BY <2>1
    <2> QED
      BY <2>1, <2>2
  <1>7. CalmDrains'
    BY <1>5, <1>6 DEF CalmDrains
  <1>8. Served
    BY DEF Served
  <1> QED
    BY <1>3, <1>7, <1>8 DEF Settled

\* beginDrain of an instance while another one, j, stays in service.
LEMMA CalmDrained ==
    ASSUME InstType, LoopType, Settled, NEW i \in Instances, Drained(i),
           NEW j \in Instances, j # i, life[j] = "RUNNING", j \notin cap'.drain,
           cap'.drain \subseteq cap.drain, handoffs' \subseteq handoffs, i \notin handoffs'
    PROVE  Settled' /\ Served
  <1> USE DEF instVars
  <1>t. cap.drain \subseteq Instances /\ handoffs \subseteq Instances
    BY DEF LoopType, Caps
  <1>1. CASE life[i] = "RUNNING"
    <2>1. /\ UNCHANGED replaces /\ life'[i] = "DRAINING"
          /\ \A k \in Instances \ {i} : life'[k] = life[k]
      BY <1>1 DEF Drained, InstType
    <2>2. \A r \in Instances : replaces'[r] # None =>
              /\ replaces'[r] # r /\ replaces'[r] \in Instances
              /\ life'[replaces'[r]] \in {"RUNNING", "DRAINING", "STOPPING"}
      BY <2>1 DEF Settled, CalmReplacements, InstType
    <2>3. \A r \in Instances : Replacing(r)' => Replacing(r)
      BY <2>1 DEF Replacing
    <2>4. \A r \in handoffs' : life'[r] = "RUNNING" /\ replaces'[r] # None
      BY <1>t, <2>1 DEF Settled, CalmReplacements
    <2>5. CalmReplacements'
      BY <2>2, <2>3, <2>4 DEF Settled, CalmReplacements
    <2>6. CalmDrains'
      BY <1>t, <2>1 DEF Settled, CalmDrains
    <2>7. Served
      BY <2>1 DEF Served
    <2> QED
      BY <2>5, <2>6, <2>7 DEF Settled
  <1>2. CASE life[i] # "RUNNING"
    <2>1. UNCHANGED <<life, replaces>>
      BY <1>2 DEF Drained
    <2>2. CalmReplacements'
      BY <2>1 DEF Settled, CalmReplacements, Replacing
    <2>3. CalmDrains'
      BY <2>1 DEF Settled, CalmDrains
    <2>4. Served
      BY <2>1 DEF Served
    <2> QED
      BY <2>2, <2>3, <2>4 DEF Settled
  <1> QED
    BY <1>1, <1>2

\* createWarm: a replacement is the only one.
LEMMA CalmCreated ==
    ASSUME InstType, LoopType, Settled, NEW s \in Instances \cup {None}, NEW reason,
           CreateWarm(s, reason), UNCHANGED handoffs, cap'.drain \subseteq cap.drain
    PROVE  Settled' /\ Served
  <1>t. cap.drain \subseteq Instances /\ handoffs \subseteq Instances
    BY DEF LoopType, Caps
  <1>1. CASE UNCHANGED instVars
    <2>1. CalmReplacements'
      BY <1>1 DEF instVars, Settled, CalmReplacements, Replacing
    <2>2. CalmDrains'
      BY <1>1 DEF instVars, Settled, CalmDrains
    <2> QED
      BY <1>1, <2>1, <2>2 DEF instVars, Settled, Served
  <1>2. CASE ~ UNCHANGED instVars
    <2>1. PICK h \in Placement(s, reason), n \in In({"NONE"}) :
              /\ life' = [life EXCEPT ![n] = "CREATING"]
              /\ replaces' = [replaces EXCEPT ![n] = s]
      BY <1>2 DEF CreateWarm
    <2>2. n \in Instances /\ life[n] = "NONE"
      BY DEF In
    <2>3. /\ \A r \in Instances \ {n} : life'[r] = life[r] /\ replaces'[r] = replaces[r]
          /\ life'[n] = "CREATING" /\ replaces'[n] = s
      BY <2>1, <2>2 DEF InstType
    <2>4. s # None => life[s] = "RUNNING" /\ ~ ReplacementActive
      BY PlacementChosen DEF Replaceable
    <2>5. s # None => \A r \in Instances : ~ Replacing(r)
      <3> SUFFICES ASSUME s # None, NEW r \in Instances, Replacing(r) PROVE FALSE
        OBVIOUS
      <3>1. r \in In({"CREATING", "STARTING", "RUNNING"}) /\ replaces[r] # None
            /\ life[replaces[r]] # "FAILED"
        BY DEF Replacing, In, Settled, CalmReplacements
      <3> QED
        BY <2>4, <3>1 DEF ReplacementActive
    <2>6. \A r \in Instances : replaces[r] # None => replaces[r] \in Instances \ {n}
      BY <2>2 DEF Settled, CalmReplacements, InstType
    <2>7. \A r \in Instances : replaces'[r] # None =>
              /\ replaces'[r] # r
              /\ life'[replaces'[r]] \in {"RUNNING", "DRAINING", "STOPPING"}
      BY <2>2, <2>3, <2>4, <2>6 DEF Settled, CalmReplacements
    <2>8. /\ \A r \in Instances \ {n} : Replacing(r)' => Replacing(r)
          /\ Replacing(n)' => s # None
      BY <2>3 DEF Replacing
    <2>9. \A r \in handoffs' : life'[r] = "RUNNING" /\ replaces'[r] # None
      BY <1>t, <2>2, <2>3 DEF Settled, CalmReplacements
    <2>10. CalmReplacements'
      BY <2>5, <2>7, <2>8, <2>9 DEF Settled, CalmReplacements
    <2>11. \A i \in cap'.drain : i # n
      BY <2>2 DEF Settled, CalmDrains
    <2>12. CalmDrains'
      BY <1>t, <2>2, <2>3, <2>11 DEF Settled, CalmDrains
    <2>13. Served
      BY <2>2, <2>3 DEF Served
    <2> QED
      BY <2>10, <2>12, <2>13 DEF Settled
  <1> QED
    BY <1>1, <1>2

\* decideCapacity of an enabled group: fewer instances than are RUNNING.
LEMMA DecisionLeaves ==
    ASSUME MaxWarm >= 1, enabled, NEW demand \in 0..MaxDemand, NEW D \in SUBSET In({"RUNNING"}),
           Cardinality(D) <= DecideCapacity(RequiredHubInstances(demand)).drain, D # {}
    PROVE  \E j \in Instances \ D : life[j] = "RUNNING"
  <1> DEFINE running == In({"RUNNING"})
             active == Cardinality(In(ActiveLives))
             required == RequiredHubInstances(demand)
             floor == Larger(Minimum, required)
  <1>1. \A L : IsFiniteSet(In(L)) /\ Cardinality(In(L)) \in Nat
    <2> TAKE L
    <2>1. In(L) \subseteq Instances
      BY DEF In
    <2>2. IsFiniteSet(In(L))
      BY <2>1, InstancesAssumption, FS_Subset
    <2> QED
      BY <2>2, FS_CardinalityType
  <1>2. IsFiniteSet(running) /\ Cardinality(running) \in Nat /\ active \in Nat
    BY <1>1
  <1>3. required \in Int
    BY PolicyAssumption DEF RequiredHubInstances
  <1>4. IsFiniteSet(D) /\ Cardinality(D) \in Nat /\ Cardinality(D) # 0
    BY <1>2, FS_Subset, FS_CardinalityType, FS_EmptySet
  <1>5. DecideCapacity(required).drain
            = Max0(Smaller(Cardinality(running) - MaxWarm, active - floor))
    BY DEF DecideCapacity
  <1> HIDE DEF running, active, required
  <1>6. floor \in Int
    BY <1>3, PolicyAssumption DEF Larger
  <1> HIDE DEF floor
  <1>7. Cardinality(D) < Cardinality(running)
    BY <1>2, <1>4, <1>5, <1>6, PolicyAssumption DEF Max0, Smaller, required
  <1>8. ~ (running \subseteq D)
    <2> SUFFICES ASSUME running \subseteq D PROVE FALSE
      OBVIOUS
    <2>1. Cardinality(running) <= Cardinality(D)
      BY <1>4, FS_Subset
    <2> QED
      BY <1>2, <1>4, <1>7, <2>1
  <1>9. \A j \in running : j \in Instances /\ life[j] = "RUNNING"
    BY DEF running, In
  <1> QED
    BY <1>8, <1>9

\* The tick's decision, on rows it has just read.
LEMMA CalmTick ==
    ASSUME MaxWarm >= 1, InstType, LoopType, enabled, Settled, CapTick
    PROVE  Settled' /\ Served
  <1> USE DEF instVars
  <1>1. UNCHANGED instVars /\ cap = NoCap
    BY DEF CapTick
  <1>2. \A r \in handoffs' : life'[r] = "RUNNING" /\ replaces'[r] # None
    BY <1>1 DEF CapTick, Completes, SourceRuns, Settled, CalmReplacements
  <1>3. CalmReplacements'
    BY <1>1, <1>2 DEF Settled, CalmReplacements, Replacing
  <1>4. PICK demand \in 0..MaxDemand :
            \/ UNCHANGED cap
            \/ \E renew \in {i \in In({"RUNNING"}) : due[i]} \cup {None} :
               \E D \in SUBSET DrainCandidates :
                  /\ Cardinality(D) <= DecideCapacity(RequiredHubInstances(demand)).drain
                  /\ cap' = [renew |-> renew, drain |-> D,
                             create |-> DecideCapacity(RequiredHubInstances(demand)).create]
    BY DEF CapTick
  <1>5. CASE UNCHANGED cap
    BY <1>1, <1>3, <1>5 DEF Settled, CalmDrains, Served
  <1>6. CASE ~ UNCHANGED cap
    <2>1. PICK D \in SUBSET DrainCandidates :
            /\ Cardinality(D) <= DecideCapacity(RequiredHubInstances(demand)).drain
            /\ cap'.drain = D
      BY <1>4, <1>6
    <2>2. \A i \in D : i \in In({"RUNNING"}) /\ i \notin ActiveRenewals
      BY DEF DrainCandidates
    <2>3. ASSUME NEW i \in D PROVE life[i] = "RUNNING" /\ replaces[i] = None
      <3>1. i \in Instances /\ life[i] = "RUNNING"
        BY <2>2 DEF In
      <3>2. replaces[i] = None \/ life[replaces[i]] = "FAILED"
        BY <2>2, <3>1 DEF ActiveRenewals
      <3> QED
        BY <3>1, <3>2 DEF Settled, CalmReplacements
    <2>4. D # {} => \E j \in Instances \ D : life[j] = "RUNNING"
      BY <2>1, <2>2, DecisionLeaves
    <2>5. CalmDrains'
      BY <1>1, <2>1, <2>3, <2>4 DEF CalmDrains
    <2> QED
      BY <1>1, <1>3, <2>5 DEF Settled, Served
  <1> QED
    BY <1>5, <1>6

LEMMA CalmCapacity ==
    ASSUME MaxWarm >= 1, InstType, LoopType, enabled, Settled, Capacity
    PROVE  Settled' /\ Served
  <1>t. cap \in Caps
    BY DEF LoopType
  <1>1. CASE CapTick
    BY <1>1, CalmTick
  <1>2. CASE CapRenew \/ CapCreate
    <2>1. cap.renew \in Instances \cup {None}
      BY <1>t DEF Caps
    <2>2. UNCHANGED handoffs /\ cap'.drain \subseteq cap.drain
      <3>1. cap' = NoCap \/ cap' = [cap EXCEPT !.renew = None]
                \/ cap' = [cap EXCEPT !.create = @ - 1]
        BY <1>2 DEF CapRenew, CapCreate
      <3>2. cap'.drain = {} \/ cap'.drain = cap.drain
        BY <1>t, <3>1 DEF NoCap, Caps
      <3> QED
        BY <1>2, <3>2 DEF CapRenew, CapCreate
    <2> QED
      BY <1>2, <2>1, <2>2, CalmCreated DEF CapRenew, CapCreate
  <1>3. ASSUME NEW i \in Instances, CapDrain(i) PROVE Settled' /\ Served
    <2>1. /\ i \in cap.drain /\ cap'.drain = cap.drain \ {i}
          /\ Drained(i) /\ UNCHANGED handoffs
      BY <1>3, <1>t DEF CapDrain, Caps
    <2>2. PICK j \in Instances \ cap.drain : life[j] = "RUNNING"
      BY <2>1 DEF Settled, CalmDrains
    <2>3. i \notin handoffs'
      BY <2>1 DEF Settled, CalmDrains, CalmReplacements
    <2> QED
      BY <2>1, <2>2, <2>3, CalmDrained
  <1> QED
    BY <1>1, <1>2, <1>3 DEF Capacity

LEMMA CalmInstance ==
    ASSUME InstType, LoopType, CalmHosts, Settled, NEW i \in Instances, Instance(i),
           faults \in Nat, faults' = 0
    PROVE  Settled' /\ Served
  <1> USE DEF instVars, loopVars, bounds
  <1>t. cap \in Caps /\ handoffs \subseteq Instances
    BY DEF LoopType
  <1>k. \A r \in handoffs : life[r] = "RUNNING" /\ replaces[r] # None
    BY DEF Settled, CalmReplacements
  <1>1. CASE Start(i) \/ MarkReady(i)
    <2>1. /\ \A j \in Instances \ {i} : life'[j] = life[j]
          /\ UNCHANGED <<replaces, cap>>
          /\ \/ life[i] = "CREATING" /\ life'[i] = "STARTING"
             \/ life[i] = "STARTING" /\ life'[i] = "RUNNING"
      BY <1>1 DEF Start, MarkReady, InstType
    <2>2. handoffs' = handoffs \/ (handoffs' = handoffs \cup {i} /\ replaces[i] # None
                                    /\ life'[i] = "RUNNING")
      BY <1>1, <2>1 DEF Start, MarkReady, SourceRuns
    <2>3. \A r \in handoffs' : life'[r] = "RUNNING" /\ replaces'[r] # None
      BY <1>t, <1>k, <2>1, <2>2
    <2> QED
      BY <2>1, <2>3, CalmKept
  <1>2. CASE ReadyAgain(i) \/ RenewalDue(i)
    <2>1. UNCHANGED <<life, replaces, cap>>
      BY <1>2 DEF ReadyAgain, RenewalDue
    <2>2. \A r \in handoffs' : life'[r] = "RUNNING" /\ replaces'[r] # None
      BY <1>2, <1>k, <2>1 DEF ReadyAgain, RenewalDue, Completes, SourceRuns
    <2> QED
      BY <2>1, <2>2, CalmKept
  <1>3. CASE CompleteReplacement(i)
    <2>1. /\ i \in handoffs /\ handoffs' = handoffs \ {i} /\ UNCHANGED cap
          /\ Drained(replaces[i])
      BY <1>3 DEF CompleteReplacement
    <2>2. life[i] = "RUNNING" /\ replaces[i] # None /\ replaces[i] # i /\ replaces[i] \in Instances
      BY <1>k, <2>1 DEF Settled, CalmReplacements, InstType
    <2>3. i \notin cap.drain
      BY <2>2 DEF Settled, CalmDrains
    <2>4. replaces[i] \notin handoffs'
      <3> SUFFICES ASSUME replaces[i] \in handoffs PROVE FALSE
        BY <2>1
      <3>1. Replacing(i) /\ Replacing(replaces[i])
        BY <1>k, <2>2 DEF Replacing
      <3> QED
        BY <2>2, <3>1 DEF Settled, CalmReplacements
    <2> QED
      BY <2>1, <2>2, <2>3, <2>4, CalmDrained
  <1>4. CASE ReconcileRow(i)
    <2>1. UNCHANGED <<replaces, cap, handoffs>>
      BY <1>4 DEF ReconcileRow, Failed, Stopping
    <2>2. /\ \A j \in Instances \ {i} : life'[j] = life[j]
          /\ \/ life'[i] = life[i]
             \/ life[i] = "STARTING" /\ life'[i] = "FAILED"
             \/ life[i] \in {"DRAINING", "FAILED"} /\ life'[i] = "STOPPING"
      BY <1>4 DEF ReconcileRow, Failed, Stopping, InstType
    <2>3. \A r \in handoffs' : life'[r] = "RUNNING" /\ replaces'[r] # None
      BY <1>t, <1>k, <2>1, <2>2
    <2> QED
      BY <2>1, <2>2, <2>3, CalmKept
  <1>5. CASE FinishStop(i)
    <2>1. /\ \A j \in Instances \ {i} : life'[j] = life[j]
          /\ life[i] = "STOPPING" /\ life'[i] = "NONE"
          /\ \A r \in Instances : replaces'[r] = IF i \in {r, replaces[r]} THEN None ELSE replaces[r]
          /\ handoffs' = {r \in handoffs : i \notin {r, replaces[r]}}
      BY <1>5 DEF FinishStop, InstType
    <2>2. cap'.drain = cap.drain \ {i}
      BY <1>5, <1>t DEF FinishStop, Caps
    <2>3. \A r \in Instances : replaces'[r] # i
      BY <2>1, NoneAssumption
    <2>4. \A r \in handoffs' : life'[r] = "RUNNING" /\ replaces'[r] # None
      BY <1>t, <1>k, <2>1
    <2> QED
      BY <2>1, <2>2, <2>3, <2>4, CalmKept
  <1>6. CASE RuntimeMissing(i)
    BY <1>6 DEF RuntimeMissing
  <1>7. CASE FailHostInstance(i)
    BY <1>7 DEF FailHostInstance, CalmHosts
  <1> QED
    BY <1>1, <1>2, <1>3, <1>4, <1>5, <1>6, <1>7 DEF Instance

\* Whatever touches the columns of instances not at all.
LEMMA CalmIdle ==
    ASSUME Settled, UNCHANGED <<life, replaces, cap, handoffs>> PROVE Settled' /\ Served
  <1>1. CalmReplacements'
    BY DEF Settled, CalmReplacements, Replacing
  <1>2. CalmDrains'
    BY DEF Settled, CalmDrains
  <1> QED
    BY <1>1, <1>2 DEF Settled, Served

LEMMA CalmNext ==
    ASSUME MaxWarm >= 1, TypeOK, [Next]_vars, faults' = 0, drains' = 0, Calm
    PROVE  Calm' /\ Served
  <1> USE DEF vars, hostVars, instVars, loopVars, bounds
  <1>t. HostType /\ InstType /\ LoopType /\ BoundType
    BY TypeParts
  <1>c. CalmHosts /\ Settled
    BY DEF Calm, Settled
  <1>n. faults \in Nat /\ drains \in Nat
    BY <1>t, FleetBounds DEF BoundType
  <1>1. ASSUME NEW i \in Instances, Instance(i) PROVE Calm' /\ Served
    <2>1. Settled' /\ Served
      BY <1>1, <1>t, <1>c, <1>n, CalmInstance
    <2>2. UNCHANGED <<enabled, admin, reach>>
      BY <1>1 DEF Instance, Start, MarkReady, ReadyAgain, CompleteReplacement, FinishStop,
         RenewalDue, ReconcileRow, RuntimeMissing, FailHostInstance
    <2>3. rec' = {} /\ maint' = NoMaint
      <3>1. CASE FinishStop(i)
        <4>1. rec' = {} /\ maint' = [NoMaint EXCEPT !.todo = {t \in @ : t[1] # i}]
          BY <1>c, <3>1 DEF FinishStop, CalmHosts
        <4> QED
          BY <4>1 DEF NoMaint
      <3>2. CASE ~ FinishStop(i)
        BY <1>1, <1>c, <3>2 DEF Instance, Start, MarkReady, ReadyAgain, CompleteReplacement,
           RenewalDue, ReconcileRow, RuntimeMissing, FailHostInstance, CalmHosts
      <3> QED
        BY <3>1, <3>2
    <2> QED
      BY <1>c, <2>1, <2>2, <2>3 DEF Calm, CalmHosts, Settled
  <1>2. CASE Capacity
    <2>1. Settled' /\ Served
      BY <1>2, <1>t, <1>c, CalmCapacity DEF CalmHosts
    <2>2. UNCHANGED <<enabled, admin, reach, rec, maint>>
      BY <1>2 DEF Capacity, CapTick, CapRenew, CapCreate, CapDrain
    <2> QED
      BY <1>c, <2>1, <2>2 DEF Calm, CalmHosts, Settled
  <1>3. CASE Maintenance
    <2>1. maint.hosts = {} /\ maint.empty = None /\ maint.todo = {}
          /\ ~ \E h \in Hosts : admin[h] = "DRAINING"
      BY <1>c DEF CalmHosts, NoMaint
    <2> QED
      BY <1>3, <2>1 DEF Maintenance, MaintTick, MarkMaintenance, DrainHost, MaintFail,
         MaintReplace
  <1>4. ASSUME NEW h \in Hosts, Host(h) PROVE Calm' /\ Served
    <2>1. /\ ~ RequestDrain(h) /\ ~ HostLost(h) /\ ~ MarkOffline(h) /\ ~ HostBack(h)
          /\ ~ Activate(h)
      <3>1. ~ RequestDrain(h) /\ ~ HostLost(h)
        BY <1>n DEF RequestDrain, HostLost, Fault
      <3>2. admin[h] = "ACTIVE" /\ reach[h]
        BY <1>c DEF CalmHosts
      <3> QED
        BY <3>1, <3>2 DEF MarkOffline, HostBack, Activate
    <2>2. UNCHANGED <<admin, reach, enabled, instVars, loopVars>>
      BY <1>4, <2>1 DEF Host, Heartbeat, RecordControlFailure, MarkOnline
    <2> QED
      BY <1>c, <2>2, CalmIdle DEF Calm, CalmHosts, Settled
  <1>5. CASE Restart
    BY <1>5, <1>n DEF Restart, Fault
  <1>6. CASE UNCHANGED vars
    BY <1>6, <1>c, CalmIdle DEF Calm, CalmHosts, Settled
  <1> QED
    BY <1>1, <1>2, <1>3, <1>4, <1>5, <1>6 DEF Next

\* Faults and drains are counted, never forgotten.
LEMMA CountsGrow ==
    ASSUME TypeOK, [Next]_vars
    PROVE  /\ faults' = 0 => faults = 0
           /\ drains' = 0 => drains = 0
  <1> USE DEF vars, hostVars, instVars, loopVars, bounds
  <1>t. faults \in Nat /\ drains \in Nat
    BY FleetBounds DEF TypeOK
  <1>1. faults' \in {faults, faults + 1} /\ drains' \in {drains, drains + 1}
    BY DEF Next, Maintenance, Capacity, Instance, Host, Start, MarkReady, ReadyAgain,
       CompleteReplacement, FinishStop, RenewalDue, ReconcileRow, RuntimeMissing,
       FailHostInstance, MaintTick, MarkMaintenance, DrainHost, MaintFail, MaintReplace,
       CapTick, CapRenew, CapCreate, CapDrain, Heartbeat, RecordControlFailure, RequestDrain,
       Activate, MarkOnline, MarkOffline, HostLost, HostBack, Restart, Fault
  <1> QED
    BY <1>t, <1>1

\* The steps that count as a fault or a drained host put no hub into DRAINING.
LEMMA DisturbancesDrainNothing ==
    ASSUME TypeOK, [Next]_vars, faults = 0, drains = 0, ~ (faults' = 0 /\ drains' = 0),
           NEW i \in Instances, life[i] = "RUNNING"
    PROVE  life'[i] # "DRAINING"
  <1> USE DEF vars, hostVars, instVars, loopVars, bounds
  <1>1. \/ Restart
        \/ \E h \in Hosts : RequestDrain(h) \/ HostLost(h)
        \/ \E j \in Instances : RuntimeMissing(j)
    BY DEF Next, Maintenance, Capacity, Instance, Host, Start, MarkReady, ReadyAgain,
       CompleteReplacement, FinishStop, RenewalDue, ReconcileRow, FailHostInstance, MaintTick,
       MarkMaintenance, DrainHost, MaintFail, MaintReplace, CapTick, CapRenew, CapCreate,
       CapDrain, Heartbeat, RecordControlFailure, Activate, MarkOnline, MarkOffline, HostBack
  <1>2. CASE Restart
    BY <1>2 DEF Restart
  <1>3. CASE \E h \in Hosts : RequestDrain(h) \/ HostLost(h)
    BY <1>3 DEF RequestDrain, HostLost
  <1>4. CASE \E j \in Instances : RuntimeMissing(j)
    BY <1>4 DEF RuntimeMissing, Failed, TypeOK
  <1> QED
    BY <1>1, <1>2, <1>3, <1>4

\* beginDrain, completeReplacement, decideCapacity: a group that keeps at least
\* one warm instance and is left alone by faults and operators never drains its
\* last one, on whatever rows scaling down and renewal were decided.
THEOREM ServiceIsKept ==
    ASSUME MaxWarm >= 1
    PROVE  Spec => ServiceKept
  <1>1. Init => CalmInv
    BY DEF Init, CalmInv, Calm, CalmHosts, CalmReplacements, Replacing, CalmDrains, NoCap
  <1>2. TypeOK /\ CalmInv /\ [Next]_vars => CalmInv'
    BY CountsGrow, CalmNext DEF CalmInv
  <1>3. TypeOK /\ CalmInv /\ [Next]_vars =>
            [\A i \in Instances :
                (faults = 0 /\ drains = 0 /\ life[i] = "RUNNING" /\ life'[i] = "DRAINING")
                    => \E j \in Instances : life'[j] = "RUNNING"]_vars
    <2> SUFFICES ASSUME TypeOK, CalmInv, [Next]_vars, faults = 0, drains = 0,
                        NEW i \in Instances, life[i] = "RUNNING", life'[i] = "DRAINING"
                 PROVE  \E j \in Instances : life'[j] = "RUNNING"
      OBVIOUS
    <2>1. faults' = 0 /\ drains' = 0
      BY DisturbancesDrainNothing
    <2>2. Calm
      BY DEF CalmInv
    <2>3. Served
      BY <2>1, <2>2, CalmNext
    <2> QED
      BY <2>3 DEF Served
  <1> QED
    BY <1>1, <1>2, <1>3, TypeCorrect, PTL DEF Spec, ServiceKept
=============================================================================
