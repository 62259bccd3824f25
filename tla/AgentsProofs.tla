---------------------------- MODULE AgentsProofs ----------------------------
(***************************************************************************)
(* Theorems about Agents, for every set of instances, templates and        *)
(* documents, and any number of ports, edits and faults.                   *)
(***************************************************************************)
EXTENDS Agents, SequenceTheorems, WellFoundedInduction, TLAPS

-----------------------------------------------------------------------------
(* Types                                                                   *)

RequestSteps == {"idle", "resolve", "clear", "rename", "lock", "start"}

\* What is staged, and what is in a directory, is of some set F.
Shape(F) ==
    /\ Nothing \in F
    /\ req \in [Instances -> [Slots -> [pc : RequestSteps, staged : F]]]
    /\ dir \in [Instances -> [present : BOOLEAN, files : F]]

TypeInv == TypeOK /\ \E F : Shape(F)

Lives == {"NONE", "CREATING", "STARTING", "FAILED", "STOPPING", "STOPPED"}
Cmds == {"NONE", "PENDING", "RUNNING", "SUCCEEDED", "FAILED", "CANCELLED"}

\* The layers are numbered, and each has its paths.
LEMMA LayersNumbered ==
    /\ Layers = 1..Len(Tree) /\ \A l \in Layers : Tree[l] \in Seq(Nat)
    /\ Final \in Layers
    /\ \A l \in Layers : \A n \in 1..Len(Tree[l]) : Tree[l][n] \in Paths(l)
    /\ \A l \in Layers : Contents(l) \subseteq AnyContent
  BY LayersAssumption DEF Layers, Paths, Range, AnyContent

\* A layer all of whose files have been read has contents.
LEMMA ContentTyped ==
    ASSUME NEW l \in Layers, NEW read \in Seq(Versions), Len(read) >= Len(Tree[l])
    PROVE  Content(l, read) \in Contents(l)
  <1> SUFFICES ASSUME NEW p \in Paths(l)
               PROVE  read[CHOOSE n \in DOMAIN Tree[l] : Tree[l][n] = p] \in Versions
    BY DEF Content, Contents
  <1>1. \E n \in DOMAIN Tree[l] : Tree[l][n] = p
    BY DEF Paths, Range
  <1>2. PICK n \in DOMAIN Tree[l] : n = CHOOSE m \in DOMAIN Tree[l] : Tree[l][m] = p
    BY <1>1
  <1>3. n \in 1..Len(read)
    BY LayersNumbered
  <1> QED
    BY <1>2, <1>3

\* A request that ends, and what the orchestrator records of it.
LEMMA AnswerTyped ==
    ASSUME TypeOK, NEW F, Shape(F), NEW i \in Instances, NEW k \in Slots,
           NEW ok \in BOOLEAN, Answer(i, k, ok)
    PROVE  /\ req' \in [Instances -> [Slots -> [pc : RequestSteps, staged : F]]]
           /\ life' \in [Instances -> Lives] /\ cmd' \in [Instances -> Cmds]
           /\ awaits' \in [Instances -> {0} \cup Slots]
  <1>1. req' \in [Instances -> [Slots -> [pc : RequestSteps, staged : F]]]
    BY DEF Answer, Shape, IdleRequest, RequestSteps
  <1>2. awaits' \in [Instances -> {0} \cup Slots]
    BY DEF Answer, TypeOK
  <1>3. cmd' \in [Instances -> Cmds]
    BY DEF Answer, TypeOK, Cmds
  <1>4. life' \in [Instances -> Lives]
    BY DEF Answer, TypeOK, Lives
  <1> QED
    BY <1>1, <1>2, <1>3, <1>4

\* The requests that wait for a layer, when it fails.
LEMMA LayerFailsTyped ==
    ASSUME TypeOK, NEW F, Shape(F), NEW key, LayerFails(key)
    PROVE  /\ req' \in [Instances -> [Slots -> [pc : RequestSteps, staged : F]]]
           /\ life' \in [Instances -> Lives] /\ cmd' \in [Instances -> Cmds]
           /\ awaits' \in [Instances -> {0} \cup Slots]
  <1>1. req' \in [Instances -> [Slots -> [pc : RequestSteps, staged : F]]]
    BY DEF LayerFails, Shape, IdleRequest, RequestSteps
  <1>2. awaits' \in [Instances -> {0} \cup Slots]
    BY DEF LayerFails, TypeOK
  <1>3. cmd' \in [Instances -> Cmds]
    BY DEF LayerFails, TypeOK, Cmds
  <1>4. life' \in [Instances -> Lives]
    BY DEF LayerFails, TypeOK, Lives
  <1> QED
    BY <1>1, <1>2, <1>3, <1>4

\* The state of the boot: what has been read of each layer.
BootType == [pc : {"down", "reading", "up"}, doc : Documents \cup {Nothing},
             read : [Layers -> Seq(Versions)]]

\* Edits, the boot up to its commit, and the crash of the orchestrator.
LEMMA TypeDisk ==
    ASSUME TypeInv,
           \/ \E l \in Layers : (\E p \in Paths(l) : EditFile(l, p)) \/ InspectFile(l)
           \/ EditDocument \/ BootStart \/ Crash
    PROVE  TypeInv'
  <1> USE DEF rowVars, agentVars, diskVars
  <1>0. PICK F : Shape(F)
    BY DEF TypeInv
  <1>1. ASSUME UNCHANGED agentVars PROVE Shape(F)'
    BY <1>0, <1>1 DEF Shape
  <1>2. NothingRead \in [Layers -> Seq(Versions)]
    BY DEF NothingRead
  <1>3. ASSUME NEW l \in Layers, NEW p \in Paths(l), EditFile(l, p)
        PROVE  TypeInv'
    <2>1. edits' \in 0..MaxEdits /\ edits' = edits + 1 /\ edits \in Nat
      BY <1>3, BoundsAssumption DEF EditFile, TypeInv, TypeOK
    <2>2. \A m \in Layers : files'[m] \in [Paths(m) -> 0..edits']
      BY <1>3, <2>1 DEF EditFile, TypeInv, TypeOK
    <2>3. \A m \in Layers : files'[m] \in Contents(m)
      BY <2>1, <2>2, BoundsAssumption DEF Contents, Versions
    <2>4. files' \in [Layers -> AnyContent]
      BY <1>3, <2>3, LayersNumbered DEF EditFile, TypeInv, TypeOK
    <2>5. TypeOK'
      BY <1>3, <2>1, <2>2, <2>4 DEF EditFile, TypeInv, TypeOK
    <2> QED
      BY <1>1, <1>3, <2>5 DEF EditFile, TypeInv
  <1>4. ASSUME NEW l \in Layers, InspectFile(l)
        PROVE  TypeInv'
    <2>1. boot.read[l] \in Seq(Versions) /\ Len(boot.read[l]) + 1 \in 1..Len(Tree[l])
      BY <1>4, LayersNumbered DEF InspectFile, Unread, TypeInv, TypeOK
    <2> DEFINE path == Tree[l][Len(boot.read[l]) + 1]
               next == Append(boot.read[l], files[l][path])
    <2>2. path \in Paths(l)
      BY <2>1, LayersNumbered
    <2>5. files[l][path] \in 0..edits /\ edits \in 0..MaxEdits
      BY <2>2 DEF TypeInv, TypeOK
    <2>6. files[l][path] \in Versions
      BY <2>5, BoundsAssumption DEF Versions
    <2>7. next \in Seq(Versions)
      BY <2>1, <2>6
    <2>8. boot' = [boot EXCEPT !.read = [boot.read EXCEPT ![l] = next]]
      BY <1>4 DEF InspectFile, TypeInv, TypeOK
    <2> HIDE DEF next
    <2>9. [boot.read EXCEPT ![l] = next] \in [Layers -> Seq(Versions)]
      BY <2>7 DEF TypeInv, TypeOK
    <2>3. boot' \in BootType
      BY <2>8, <2>9 DEF TypeInv, TypeOK, BootType
    <2>4. TypeOK'
      BY <1>4, <2>3 DEF InspectFile, TypeInv, TypeOK, BootType
    <2> QED
      BY <1>1, <1>4, <2>4 DEF InspectFile, TypeInv
  <1>5. CASE EditDocument
    <2>1. edits' \in 0..MaxEdits /\ edits \in Nat /\ edits' = edits + 1
      BY <1>5, BoundsAssumption DEF EditDocument, TypeInv, TypeOK
    <2>2. \A m \in Layers : files'[m] \in [Paths(m) -> 0..edits']
      BY <1>5, <2>1 DEF EditDocument, TypeInv, TypeOK
    <2>3. TypeOK'
      BY <1>5, <2>1, <2>2 DEF EditDocument, TypeInv, TypeOK
    <2> QED
      BY <1>1, <1>5, <2>3 DEF EditDocument, TypeInv
  <1>6. CASE BootStart \/ Crash
    <2>1. boot' \in BootType
      BY <1>2, <1>6 DEF BootStart, Crash, Down, TypeInv, TypeOK, BootType
    <2>2. TypeOK'
      BY <1>6, <2>1, BoundsAssumption DEF BootStart, Crash, Fault, TypeInv, TypeOK, BootType
    <2> QED
      BY <1>1, <1>6, <2>2 DEF BootStart, Crash, TypeInv
  <1> QED
    BY <1>3, <1>4, <1>5, <1>6

\* The stack of a configuration that loads, and what was inspected of it.
LEMMA SynchronizeTyped ==
    ASSUME TypeOK, boot.pc = "reading", NEW d \in Documents, LoadConfiguration(d),
           \A l \in Layers : ~Unread(l)
    PROVE  /\ d.listed => Stack(d) \in Seq(Layers) /\ Stack(d) # <<>>
           /\ \A l \in Layers : Inspected(l) \in Contents(l)
  <1>1. ASSUME d.listed PROVE Stack(d) \in Seq(Layers) /\ Stack(d) # <<>>
    <2>1. d.parents \in Seq(Nat) /\ Range(d.parents) \subseteq Layers
      BY <1>1, DocumentsAssumption DEF LoadConfiguration
    <2>2. d.parents \in Seq(Layers)
      BY <2>1 DEF Range
    <2> QED
      BY <2>2, LayersNumbered DEF Stack
  <1>2. ASSUME NEW l \in Layers PROVE Inspected(l) \in Contents(l)
    <2>1. boot.read[l] \in Seq(Versions) /\ Len(boot.read[l]) >= Len(Tree[l])
      BY LayersNumbered DEF TypeOK, Unread
    <2> QED
      BY <2>1, ContentTyped DEF Inspected
  <1> QED
    BY <1>1, <1>2

\* What was committed: db is a record of these columns, the descriptor that is
\* loaded was parsed, and a group that was stored has its layers recorded.
BootInv ==
    /\ db = [enabled |-> db.enabled, selectable |-> db.selectable,
             minimum |-> db.minimum, maximum |-> db.maximum, stack |-> db.stack,
             runtime |-> db.runtime, layerSum |-> db.layerSum,
             variantSum |-> db.variantSum]
    /\ boot.pc = "reading" => boot.doc \in Documents
    /\ db.stack # <<>> => \A l \in Layers : db.layerSum[l] \in Contents(l)

LEMMA TypeCommit ==
    ASSUME TypeInv, BootInv, BootCommit
    PROVE  TypeInv' /\ BootInv'
  <1> USE DEF rowVars, agentVars, diskVars
  <1>0. PICK F : Shape(F)
    BY DEF TypeInv
  <1>1. Shape(F)'
    <2>1. UNCHANGED <<req, dir>>
      BY DEF BootCommit
    <2> QED
      BY <1>0, <2>1 DEF Shape
  <1>2. boot' \in BootType
    <2>1. NothingRead \in [Layers -> Seq(Versions)]
      BY DEF NothingRead
    <2>2. boot' = Down \/ boot' = [Down EXCEPT !.pc = "up"]
      BY DEF BootCommit
    <2> QED
      BY <2>1, <2>2 DEF Down, BootType
  <1>3. CASE ~LoadConfiguration(boot.doc)
    <2>1. TypeOK' /\ BootInv'
      BY <1>2, <1>3 DEF BootCommit, Down, TypeInv, TypeOK, BootType, BootInv
    <2> QED
      BY <1>1, <2>1 DEF TypeInv
  <1>4. CASE LoadConfiguration(boot.doc)
    <2> DEFINE sums == [l \in Layers |-> Inspected(l)]
    <2>1. /\ boot.doc.listed => Stack(boot.doc) \in Seq(Layers)
          /\ \A l \in Layers : Inspected(l) \in Contents(l)
      BY <1>4, SynchronizeTyped DEF BootCommit, BootInv, TypeInv
    <2>2. sums \in [Layers -> AnyContent \cup {Nothing}]
      BY <2>1, LayersNumbered
    <2>3. db' = SynchronizeConfiguration(boot.doc, sums)
      BY <1>4 DEF BootCommit
    <2> HIDE DEF sums
    <2>4. /\ db'.stack \in Seq(Layers) /\ db'.layerSum \in [Layers -> AnyContent \cup {Nothing}]
          /\ db'.layerSum = sums
          /\ db' = [enabled |-> db'.enabled, selectable |-> db'.selectable,
                    minimum |-> db'.minimum, maximum |-> db'.maximum,
                    stack |-> db'.stack, runtime |-> db'.runtime,
                    layerSum |-> db'.layerSum, variantSum |-> db'.variantSum]
      BY <2>1, <2>2, <2>3 DEF SynchronizeConfiguration, BootInv, TypeInv, TypeOK
    <2>5. cmd' \in [Instances -> Cmds]
      BY <1>4 DEF BootCommit, TypeInv, TypeOK, Cmds
    <2>6. TypeOK'
      BY <1>2, <2>4, <2>5 DEF BootCommit, TypeInv, TypeOK, BootType, Cmds
    <2>7. boot'.pc # "reading" /\ \A l \in Layers : db'.layerSum[l] \in Contents(l)
      BY <1>4, <2>1, <2>4 DEF BootCommit, Down, sums
    <2>8. BootInv'
      BY <2>4, <2>7 DEF BootInv
    <2> QED
      BY <1>1, <2>6, <2>8 DEF TypeInv
  <1> QED
    BY <1>3, <1>4

\* The other actions of the orchestrator, which freeze layers, claim a command,
\* cancel it, or record what became of it.
LEMMA TypeController ==
    ASSUME TypeInv, BootInv, NEW i \in Instances,
           \/ CreateWarm(i) \/ CancelObsolete(i) \/ GiveUp(i) \/ Retire(i)
           \/ \E k \in Slots : ExecuteCreate(i, k)
    PROVE  TypeInv'
  <1> USE DEF rowVars, agentVars, diskVars
  <1>0. PICK F : Shape(F)
    BY DEF TypeInv
  <1>1. ASSUME UNCHANGED <<req, dir>> PROVE Shape(F)'
    BY <1>0, <1>1 DEF Shape
  <1>2. CASE CreateWarm(i)
    <2>1. \A n \in 1..Len(db.stack) : db.stack[n] \in Layers
      BY DEF TypeInv, TypeOK
    <2>4. db.stack # <<>> /\ \A l \in Layers : db.layerSum[l] \in AnyContent
      BY <1>2, LayersNumbered DEF CreateWarm, BootInv
    <2>5. \A n \in 1..Len(db.stack) : Key(db.stack[n], db.layerSum[db.stack[n]]) \in Keys
      BY <2>1, <2>4 DEF Key, Keys
    <2>6. DOMAIN db.stack = 1..Len(db.stack) /\ Len(db.stack) \in Nat
      BY DEF TypeInv, TypeOK
    <2>2. SelectedLayers \in Seq(Keys)
      BY <2>5, <2>6 DEF SelectedLayers, EffectiveChecksum
    <2>3. TypeOK'
      BY <1>2, <2>2 DEF CreateWarm, TypeInv, TypeOK
    <2> QED
      BY <1>1, <1>2, <2>3 DEF CreateWarm, TypeInv
  <1>3. CASE CancelObsolete(i) \/ GiveUp(i) \/ Retire(i)
    <2>2. ASSUME CancelObsolete(i) \/ Retire(i) PROVE TypeOK'
      BY <2>2 DEF CancelObsolete, Retire, TypeInv, TypeOK
    <2>3. ASSUME GiveUp(i) PROVE TypeOK'
      BY <2>3, BoundsAssumption DEF GiveUp, Fault, TypeInv, TypeOK
    <2>1. TypeOK'
      BY <1>3, <2>2, <2>3
    <2> QED
      BY <1>1, <1>3, <2>1 DEF CancelObsolete, GiveUp, Retire, TypeInv
  <1>4. ASSUME NEW k \in Slots, ExecuteCreate(i, k) PROVE TypeInv'
    <2> DEFINE next == [req[i][k] EXCEPT !.pc = "resolve"]
    <2>4. next \in [pc : RequestSteps, staged : F]
      BY <1>0 DEF Shape, RequestSteps
    <2>5. req' = [req EXCEPT ![i][k] = next] /\ dir' = dir
      BY <1>0, <1>4 DEF ExecuteCreate, Shape
    <2> HIDE DEF next
    <2>1. Shape(F)'
      BY <1>0, <2>4, <2>5 DEF Shape
    <2>2. overlapped' \in [Instances -> BOOLEAN]
      BY <1>4 DEF ExecuteCreate, Busy, TypeInv, TypeOK
    <2>3. TypeOK'
      BY <1>4, <2>1, <2>2 DEF ExecuteCreate, TypeInv, TypeOK, Shape, RequestSteps
    <2> QED
      BY <2>1, <2>3 DEF TypeInv
  <1> QED
    BY <1>2, <1>3, <1>4

\* The downloads of TemplateCache.
LEMMA TypeDownloads ==
    ASSUME TypeInv,
           \/ \E d \in downloads : ReadArchive(d) \/ FinishDownload(d) \/ DownloadBreaks(d)
           \/ \E i \in Instances, k \in Slots :
                 \E n \in DOMAIN frozen[i] : StartDownload(i, k, n)
    PROVE  TypeInv'
  <1> USE DEF rowVars, agentVars, diskVars
  <1>0. PICK F : Shape(F)
    BY DEF TypeInv
  <1>1. ASSUME NEW key, UNCHANGED dir,
               LayerFails(key) \/ UNCHANGED <<req, awaits, cmd, life>>
        PROVE  /\ Shape(F)' /\ life' \in [Instances -> Lives]
               /\ cmd' \in [Instances -> Cmds] /\ awaits' \in [Instances -> {0} \cup Slots]
               /\ \A i \in Instances, k \in Slots : req'[i][k].pc \in RequestSteps
    <2>1. /\ req' \in [Instances -> [Slots -> [pc : RequestSteps, staged : F]]]
          /\ life' \in [Instances -> Lives] /\ cmd' \in [Instances -> Cmds]
          /\ awaits' \in [Instances -> {0} \cup Slots]
      BY <1>0, <1>1, LayerFailsTyped DEF TypeInv, TypeOK, Shape, Lives, Cmds
    <2> QED
      BY <1>0, <1>1, <2>1 DEF Shape
  <1>2. ASSUME NEW d \in downloads, ReadArchive(d)
        PROVE  TypeInv'
    <2>7. d \in [key : Keys, read : Seq(Versions)]
      BY DEF TypeInv, TypeOK
    <2>8. d.key.layer \in Layers /\ d.read \in Seq(Versions)
      BY <2>7 DEF Keys
    <2>9. Len(d.read) < Len(Tree[d.key.layer])
      BY <1>2 DEF ReadArchive
    <2>1. /\ d \in [key : Keys, read : Seq(Versions)]
          /\ d.key.layer \in Layers /\ Len(d.read) + 1 \in 1..Len(Tree[d.key.layer])
      BY <2>7, <2>8, <2>9, LayersNumbered
    <2> DEFINE file == files[d.key.layer][Tree[d.key.layer][Len(d.read) + 1]]
               next == [d EXCEPT !.read = Append(@, file)]
    <2>2. file \in 0..edits /\ edits \in 0..MaxEdits
      BY <2>1, LayersNumbered DEF TypeInv, TypeOK
    <2>3. file \in Versions
      BY <2>2, BoundsAssumption DEF Versions
    <2> HIDE DEF file
    <2>4. next \in [key : Keys, read : Seq(Versions)]
      BY <2>1, <2>3
    <2>5. downloads' = (downloads \ {d}) \cup {next}
      BY <1>2 DEF ReadArchive, file
    <2> HIDE DEF next
    <2>6. TypeOK'
      BY <1>2, <2>4, <2>5 DEF ReadArchive, TypeInv, TypeOK
    <2> QED
      BY <1>0, <1>2, <2>6 DEF ReadArchive, TypeInv, Shape
  <1>3. ASSUME NEW d \in downloads, FinishDownload(d)
        PROVE  TypeInv'
    <2>1. /\ d \in [key : Keys, read : Seq(Versions)] /\ d.key.layer \in Layers
          /\ Len(d.read) = Len(Tree[d.key.layer])
      BY <1>3 DEF FinishDownload, TypeInv, TypeOK, Keys
    <2>2. Received(d) \in AnyContent
      BY <2>1, LayersNumbered, ContentTyped DEF Received
    <2>3. cache' \subseteq [key : Keys, content : AnyContent]
      BY <1>3, <2>1, <2>2 DEF FinishDownload, TypeInv, TypeOK
    <2>4. /\ Shape(F)' /\ life' \in [Instances -> Lives]
          /\ cmd' \in [Instances -> Cmds] /\ awaits' \in [Instances -> {0} \cup Slots]
          /\ \A i \in Instances, k \in Slots : req'[i][k].pc \in RequestSteps
      BY <1>1, <1>3 DEF FinishDownload
    <2>5. TypeOK'
      BY <1>3, <2>3, <2>4 DEF FinishDownload, TypeInv, TypeOK, Lives, Cmds, RequestSteps
    <2> QED
      BY <2>4, <2>5 DEF TypeInv
  <1>4. ASSUME NEW d \in downloads, DownloadBreaks(d)
        PROVE  TypeInv'
    <2>1. /\ Shape(F)' /\ life' \in [Instances -> Lives]
          /\ cmd' \in [Instances -> Cmds] /\ awaits' \in [Instances -> {0} \cup Slots]
          /\ \A i \in Instances, k \in Slots : req'[i][k].pc \in RequestSteps
      BY <1>1, <1>4 DEF DownloadBreaks
    <2>2. TypeOK'
      BY <1>4, <2>1 DEF DownloadBreaks, TypeInv, TypeOK, Lives, Cmds, RequestSteps
    <2> QED
      BY <2>1, <2>2 DEF TypeInv
  <1>5. ASSUME NEW i \in Instances, NEW k \in Slots, NEW n \in DOMAIN frozen[i],
               StartDownload(i, k, n)
        PROVE  TypeInv'
    <2>1. frozen[i][n] \in Keys
      BY DEF TypeInv, TypeOK
    <2>2. downloads' \subseteq [key : Keys, read : Seq(Versions)]
      <3> DEFINE begun == [key |-> frozen[i][n], read |-> <<>>]
      <3>1. downloads' = downloads \/ downloads' = downloads \cup {begun}
        BY <1>5 DEF StartDownload
      <3>2. begun \in [key : Keys, read : Seq(Versions)]
        BY <2>1
      <3>3. downloads \subseteq [key : Keys, read : Seq(Versions)]
        BY DEF TypeInv, TypeOK
      <3> HIDE DEF begun
      <3> QED
        BY <3>1, <3>2, <3>3
    <2>3. /\ Shape(F)' /\ life' \in [Instances -> Lives]
          /\ cmd' \in [Instances -> Cmds] /\ awaits' \in [Instances -> {0} \cup Slots]
          /\ \A j \in Instances, m \in Slots : req'[j][m].pc \in RequestSteps
      BY <1>1, <1>5 DEF StartDownload
    <2>4. TypeOK'
      BY <1>5, <2>2, <2>3 DEF StartDownload, TypeInv, TypeOK, Lives, Cmds, RequestSteps
    <2> QED
      BY <2>3, <2>4 DEF TypeInv
  <1> QED
    BY <1>2, <1>3, <1>4, <1>5

\* The states a container can be in.
Containers == [port : 0..NumPorts, running : BOOLEAN, mount : {"none", "data", "lost"}]

\* A nonempty set of natural numbers has a smallest one.
LEMMA Smallest ==
    ASSUME NEW S, S \subseteq Nat, S # {}
    PROVE  \E p \in S : \A q \in S : p <= q
  <1>1. \E p \in S : \A q \in S : <<q, p>> \notin OpToRel(<, Nat)
    BY NatLessThanWellFounded, WFMin
  <1>2. ASSUME NEW p \in S, NEW q \in S, q < p PROVE <<q, p>> \in OpToRel(<, Nat)
    BY <1>2 DEF OpToRel
  <1>3. PICK p \in S : \A q \in S : ~ (q < p)
    BY <1>1, <1>2
  <1>4. \A q \in S : p <= q
    BY <1>3
  <1> QED
    BY <1>4

\* The port a container is given is free.
LEMMA PortFree ==
    ASSUME FreePorts # {}
    PROVE  FirstAvailablePort \in FreePorts
  <1>1. FreePorts \subseteq Nat
    BY BoundsAssumption DEF FreePorts
  <1>2. \E p \in FreePorts : \A q \in FreePorts : p <= q
    BY <1>1, Smallest
  <1> QED
    BY <1>2 DEF FirstAvailablePort

\* What the executor and the deletions change, put together.
LEMMA Reassembled ==
    ASSUME TypeOK, NEW F, Shape(F)', UNCHANGED <<diskVars, boot, db, frozen, cache>>,
           life' \in [Instances -> Lives], cmd' \in [Instances -> Cmds],
           awaits' \in [Instances -> {0} \cup Slots],
           del' \in [Instances -> {"idle", "directory"}], downloads' \subseteq downloads,
           container' \in [Instances -> Containers],
           overlapped' \in [Instances -> BOOLEAN], faults' \in 0..MaxFaults
    PROVE  TypeInv'
  <1>1. \A i \in Instances, k \in Slots : req'[i][k].pc \in RequestSteps
    BY DEF Shape
  <1>2. TypeOK'
    BY <1>1 DEF TypeOK, diskVars, Lives, Cmds, Containers, RequestSteps
  <1> QED
    BY <1>2 DEF TypeInv

LEMMA FaultTyped ==
    ASSUME TypeOK, Fault \/ UNCHANGED faults
    PROVE  faults' \in 0..MaxFaults
  BY BoundsAssumption DEF TypeOK, Fault

\* Containers that start, or lose their files.
LEMMA ContainerTyped ==
    ASSUME TypeOK, NEW i \in Instances,
           StartContainer(i) \/ RemoveDirectory(i) \/ UNCHANGED container
    PROVE  container' \in [Instances -> Containers]
  <1>0. container \in [Instances -> Containers]
    BY DEF TypeOK, Containers
  <1>1. CASE StartContainer(i)
    <2> DEFINE next == [container[i] EXCEPT !.running = TRUE,
                           !.mount = IF dir[i].present THEN "data" ELSE "lost"]
    <2>1. next \in Containers
      BY <1>0 DEF Containers
    <2>2. container' = container \/ container' = [container EXCEPT ![i] = next]
      BY <1>0, <1>1 DEF StartContainer
    <2> HIDE DEF next
    <2> QED
      BY <1>0, <2>1, <2>2
  <1>2. CASE RemoveDirectory(i)
    <2> DEFINE mount == IF container[i].mount = "data" THEN "lost" ELSE container[i].mount
               next == [container[i] EXCEPT !.mount = mount]
    <2>1. next \in Containers
      BY <1>0 DEF Containers
    <2>2. container' = [container EXCEPT ![i] = next]
      BY <1>0, <1>2 DEF RemoveDirectory
    <2> HIDE DEF next
    <2> QED
      BY <1>0, <2>1, <2>2
  <1> QED
    BY <1>0, <1>1, <1>2

\* A request that goes from one step of createInstance to another.
LEMMA MovedTyped ==
    ASSUME NEW F, Shape(F), NEW i \in Instances, NEW k \in Slots, NEW pc \in RequestSteps,
           \/ Goto(i, k, pc)
           \/ req' = [req EXCEPT ![i][k] = [IdleRequest EXCEPT !.pc = pc]]
    PROVE  req' \in [Instances -> [Slots -> [pc : RequestSteps, staged : F]]]
  <1> DEFINE next == [req[i][k] EXCEPT !.pc = pc]
             fresh == [IdleRequest EXCEPT !.pc = pc]
  <1>1. next \in [pc : RequestSteps, staged : F] /\ fresh \in [pc : RequestSteps, staged : F]
    BY DEF Shape, RequestSteps, IdleRequest
  <1>2. req' = [req EXCEPT ![i][k] = next] \/ req' = [req EXCEPT ![i][k] = fresh]
    BY DEF Goto, Shape
  <1> HIDE DEF next, fresh
  <1>3. /\ [req[i] EXCEPT ![k] = next] \in [Slots -> [pc : RequestSteps, staged : F]]
        /\ [req[i] EXCEPT ![k] = fresh] \in [Slots -> [pc : RequestSteps, staged : F]]
    BY <1>1 DEF Shape
  <1> QED
    BY <1>2, <1>3 DEF Shape

\* LocalDockerExecutor.createInstance.
LEMMA TypeExecutor ==
    ASSUME TypeInv, NEW i \in Instances, NEW k \in Slots,
           \/ Resolve(i, k) \/ Clear(i, k) \/ Rename(i, k)
           \/ CreateLocked(i, k) \/ Start(i, k) \/ StartFails(i, k)
    PROVE  TypeInv'
  <1> USE DEF diskVars, rowVars
  <1>0. PICK F : Shape(F)
    BY DEF TypeInv
  <1>t. TypeOK
    BY DEF TypeInv
  <1> DEFINE Rows == /\ life' \in [Instances -> Lives] /\ cmd' \in [Instances -> Cmds]
                     /\ awaits' \in [Instances -> {0} \cup Slots]
             Reqs == req' \in [Instances -> [Slots -> [pc : RequestSteps, staged : F]]]
             Rest == /\ container' \in [Instances -> Containers]
                     /\ del' \in [Instances -> {"idle", "directory"}]
                     /\ overlapped' \in [Instances -> BOOLEAN]
                     /\ faults' \in 0..MaxFaults
                     /\ UNCHANGED <<diskVars, boot, db, frozen, cache, downloads>>
  <1>a. ASSUME NEW ok \in BOOLEAN, Answer(i, k, ok) PROVE Reqs /\ Rows
    BY <1>0, <1>t, <1>a, AnswerTyped
  <1>b. ASSUME UNCHANGED <<awaits, cmd, life>> PROVE Rows
    BY <1>t, <1>b DEF TypeOK, Lives, Cmds
  <1>c. ASSUME Reqs, Rows, Rest, UNCHANGED dir PROVE TypeInv'
    <2>1. Shape(F)'
      BY <1>0, <1>c DEF Shape
    <2> QED
      BY <1>t, <1>c, <2>1, Reassembled
  <1>d. container \in [Instances -> Containers]
    BY <1>t DEF TypeOK, Containers
  <1>1. CASE Resolve(i, k)
    <2>1. Rest
      BY <1>t, <1>1, ContainerTyped, FaultTyped DEF Resolve, TypeOK
    <2>2. CASE Reused(i)
      BY <1>1, <1>a, <1>c, <2>1, <2>2 DEF Resolve
    <2>3. CASE ~Reused(i)
      <3>0. PICK G : G = F \cup {MaterializeLayers(i)}
        OBVIOUS
      <3> DEFINE next == [pc |-> "clear", staged |-> MaterializeLayers(i)]
      <3>1. Shape(G)
        BY <1>0, <3>0 DEF Shape
      <3>2. next \in [pc : RequestSteps, staged : G]
        BY <3>0 DEF RequestSteps
      <3>3. req' = [req EXCEPT ![i][k] = next] /\ UNCHANGED <<dir, awaits, cmd, life>>
        BY <1>1, <2>3 DEF Resolve
      <3> HIDE DEF next
      <3>5. [req[i] EXCEPT ![k] = next] \in [Slots -> [pc : RequestSteps, staged : G]]
        BY <3>1, <3>2 DEF Shape
      <3>6. Shape(G)'
        <4>1. req' = [req EXCEPT ![i] = [req[i] EXCEPT ![k] = next]]
          BY <3>1, <3>3 DEF Shape
        <4>2. req' \in [Instances -> [Slots -> [pc : RequestSteps, staged : G]]]
          BY <3>1, <3>5, <4>1 DEF Shape
        <4> QED
          BY <3>1, <3>3, <4>2 DEF Shape
      <3>4. Shape(G)' /\ Rows
        BY <1>b, <3>3, <3>6
      <3> QED
        BY <1>t, <2>1, <3>4, Reassembled
    <2> QED
      BY <2>2, <2>3
  <1>2. CASE Clear(i, k)
    <2>1. Rest
      BY <1>t, <1>2, ContainerTyped, FaultTyped DEF Clear, TypeOK
    <2>2. Reqs /\ Rows
      BY <1>0, <1>2, <1>b, MovedTyped DEF Clear, RequestSteps
    <2>3. dir' \in [Instances -> [present : BOOLEAN, files : F]]
      <3>1. NoDirectory \in [present : BOOLEAN, files : F]
        BY <1>0 DEF NoDirectory, Shape
      <3>2. dir' = dir \/ dir' = [dir EXCEPT ![i] = NoDirectory]
        BY <1>2 DEF Clear, RemoveDirectory
      <3> QED
        BY <1>0, <3>1, <3>2 DEF Shape
    <2>4. Shape(F)'
      BY <1>0, <2>2, <2>3 DEF Shape
    <2> QED
      BY <1>t, <2>1, <2>2, <2>4, Reassembled
  <1>3. CASE Rename(i, k)
    <2>1. Rest
      BY <1>t, <1>3, ContainerTyped, FaultTyped DEF Rename, TypeOK
    <2>2. Reqs /\ Rows
      BY <1>0, <1>3, <1>a, <1>b, MovedTyped DEF Rename, RequestSteps
    <2>3. dir' \in [Instances -> [present : BOOLEAN, files : F]]
      <3> DEFINE next == [present |-> TRUE, files |-> req[i][k].staged]
      <3>1. next \in [present : BOOLEAN, files : F]
        BY <1>0 DEF Shape
      <3>2. dir' = dir \/ dir' = [dir EXCEPT ![i] = next]
        BY <1>3 DEF Rename
      <3> HIDE DEF next
      <3> QED
        BY <1>0, <3>1, <3>2 DEF Shape
    <2>4. Shape(F)'
      BY <1>0, <2>2, <2>3 DEF Shape
    <2> QED
      BY <1>t, <2>1, <2>2, <2>4, Reassembled
  <1>4. CASE CreateLocked(i, k)
    <2>1. container' \in [Instances -> Containers]
      <3> DEFINE next == [port |-> FirstAvailablePort, running |-> FALSE, mount |-> "none"]
      <3>1. FreePorts # {} => next \in Containers
        BY PortFree, BoundsAssumption DEF FreePorts, Containers
      <3>2. \/ StartContainer(i) \/ UNCHANGED container
            \/ FreePorts # {} /\ container' = [container EXCEPT ![i] = next]
        BY <1>4 DEF CreateLocked
      <3> HIDE DEF next
      <3> QED
        BY <1>t, <1>d, <3>1, <3>2, ContainerTyped
    <2>2. Rest
      BY <1>t, <1>4, <2>1, FaultTyped DEF CreateLocked, TypeOK
    <2>3. Reqs /\ Rows
      BY <1>0, <1>4, <1>a, <1>b, MovedTyped DEF CreateLocked, RequestSteps
    <2> QED
      BY <1>4, <1>c, <2>2, <2>3 DEF CreateLocked
  <1>5. CASE Start(i, k)
    <2>1. Rest
      BY <1>t, <1>5, ContainerTyped, FaultTyped DEF Start, TypeOK
    <2>2. Reqs /\ Rows
      BY <1>5, <1>a DEF Start
    <2> QED
      BY <1>5, <1>c, <2>1, <2>2 DEF Start
  <1>6. CASE StartFails(i, k)
    <2>1. container' \in [Instances -> Containers]
      BY <1>d, <1>6, BoundsAssumption DEF StartFails, NoContainer, Containers
    <2>2. Rest
      BY <1>t, <1>6, <2>1, FaultTyped DEF StartFails, TypeOK
    <2>3. Reqs /\ Rows
      BY <1>6, <1>a DEF StartFails
    <2> QED
      BY <1>6, <1>c, <2>2, <2>3 DEF StartFails
  <1> QED
    BY <1>1, <1>2, <1>3, <1>4, <1>5, <1>6

\* The deletions, the server that exits, and the agent that restarts.
LEMMA TypeDeletions ==
    ASSUME TypeInv,
           \/ \E i \in Instances : DeleteContainer(i) \/ DeleteDirectory(i) \/ Exit(i)
           \/ AgentRestart
    PROVE  TypeInv'
  <1> USE DEF diskVars, rowVars
  <1>0. PICK F : Shape(F)
    BY DEF TypeInv
  <1>t. TypeOK
    BY DEF TypeInv
  <1>d. container \in [Instances -> Containers]
    BY <1>t DEF TypeOK, Containers
  <1>1. ASSUME NEW i \in Instances, DeleteContainer(i) PROVE TypeInv'
    <2>1. container' \in [Instances -> Containers]
      BY <1>d, <1>1, BoundsAssumption DEF DeleteContainer, NoContainer, Containers
    <2>2. overlapped' \in [Instances -> BOOLEAN]
      BY <1>1, <1>t DEF DeleteContainer, Busy, TypeOK
    <2>3. life' \in [Instances -> Lives] /\ del' \in [Instances -> {"idle", "directory"}]
      BY <1>1, <1>t DEF DeleteContainer, TypeOK, Lives
    <2>4. /\ cmd' \in [Instances -> Cmds] /\ awaits' \in [Instances -> {0} \cup Slots]
          /\ Shape(F)' /\ faults' \in 0..MaxFaults
      BY <1>0, <1>1, <1>t DEF DeleteContainer, Shape, TypeOK, Cmds
    <2> QED
      BY <1>1, <1>t, <2>1, <2>2, <2>3, <2>4, Reassembled DEF DeleteContainer
  <1>2. ASSUME NEW i \in Instances, DeleteDirectory(i) PROVE TypeInv'
    <2>1. container' \in [Instances -> Containers]
      BY <1>2, <1>t, ContainerTyped DEF DeleteDirectory
    <2>2. dir' \in [Instances -> [present : BOOLEAN, files : F]]
      BY <1>0, <1>2 DEF DeleteDirectory, RemoveDirectory, NoDirectory, Shape
    <2>3. life' \in [Instances -> Lives] /\ del' \in [Instances -> {"idle", "directory"}]
      BY <1>2, <1>t DEF DeleteDirectory, TypeOK, Lives
    <2>4. /\ cmd' \in [Instances -> Cmds] /\ awaits' \in [Instances -> {0} \cup Slots]
          /\ Shape(F)' /\ faults' \in 0..MaxFaults
      BY <1>0, <1>2, <1>t, <2>2 DEF DeleteDirectory, Shape, TypeOK, Cmds
    <2>5. overlapped' \in [Instances -> BOOLEAN]
      BY <1>2, <1>t DEF DeleteDirectory, TypeOK
    <2> QED
      BY <1>2, <1>t, <2>1, <2>3, <2>4, <2>5, Reassembled DEF DeleteDirectory
  <1>3. ASSUME NEW i \in Instances, Exit(i) PROVE TypeInv'
    <2>1. container' \in [Instances -> Containers]
      <3> DEFINE next == [container[i] EXCEPT !.running = FALSE, !.mount = "none"]
      <3>1. next \in Containers
        BY <1>d DEF Containers
      <3>2. container' = [container EXCEPT ![i] = next]
        BY <1>d, <1>3 DEF Exit
      <3> HIDE DEF next
      <3> QED
        BY <1>d, <3>1, <3>2
    <2>2. /\ life' \in [Instances -> Lives] /\ cmd' \in [Instances -> Cmds]
          /\ awaits' \in [Instances -> {0} \cup Slots]
          /\ del' \in [Instances -> {"idle", "directory"}] /\ Shape(F)'
      BY <1>0, <1>3, <1>t DEF Exit, Shape, TypeOK, Cmds, Lives
    <2>3. overlapped' \in [Instances -> BOOLEAN] /\ faults' \in 0..MaxFaults
      BY <1>3, <1>t, FaultTyped DEF Exit, TypeOK
    <2> QED
      BY <1>3, <1>t, <2>1, <2>2, <2>3, Reassembled DEF Exit
  <1>4. CASE AgentRestart
    <2>1. Shape(F)'
      BY <1>0, <1>4 DEF AgentRestart, IdleRequest, RequestSteps, Shape
    <2>2. life' \in [Instances -> Lives] /\ cmd' \in [Instances -> Cmds]
      BY <1>4, <1>t DEF AgentRestart, TypeOK, Cmds, Lives
    <2>3. /\ awaits' \in [Instances -> {0} \cup Slots]
          /\ del' \in [Instances -> {"idle", "directory"}] /\ downloads' \subseteq downloads
      BY <1>4 DEF AgentRestart
    <2>4. overlapped' \in [Instances -> BOOLEAN] /\ faults' \in 0..MaxFaults
      BY <1>4, <1>t, FaultTyped DEF AgentRestart, TypeOK
    <2> QED
      BY <1>4, <1>t, <1>d, <2>1, <2>2, <2>3, <2>4, Reassembled DEF AgentRestart
  <1> QED
    BY <1>1, <1>2, <1>3, <1>4

LEMMA TypeNext ==
    ASSUME TypeInv, BootInv, [Next]_vars
    PROVE  TypeInv'
  <1>1. CASE Next
    <2>1. CASE \/ \E l \in Layers : (\E p \in Paths(l) : EditFile(l, p)) \/ InspectFile(l)
               \/ EditDocument \/ BootStart \/ Crash
      BY <2>1, TypeDisk
    <2>2. CASE BootCommit
      BY <2>2, TypeCommit
    <2>3. CASE \E i \in Instances :
                  \/ CreateWarm(i) \/ CancelObsolete(i) \/ GiveUp(i) \/ Retire(i)
                  \/ \E k \in Slots : ExecuteCreate(i, k)
      BY <2>3, TypeController
    <2>4. CASE \/ \E d \in downloads : ReadArchive(d) \/ FinishDownload(d) \/ DownloadBreaks(d)
               \/ \E i \in Instances, k \in Slots :
                     \E n \in DOMAIN frozen[i] : StartDownload(i, k, n)
      BY <2>4, TypeDownloads
    <2>5. CASE \E i \in Instances, k \in Slots :
                  \/ Resolve(i, k) \/ Clear(i, k) \/ Rename(i, k)
                  \/ CreateLocked(i, k) \/ Start(i, k) \/ StartFails(i, k)
      BY <2>5, TypeExecutor
    <2>6. CASE \/ \E i \in Instances : DeleteContainer(i) \/ DeleteDirectory(i) \/ Exit(i)
               \/ AgentRestart
      BY <2>6, TypeDeletions
    <2> QED
      BY <1>1, <2>1, <2>2, <2>3, <2>4, <2>5, <2>6 DEF Next
  <1>2. CASE UNCHANGED vars
    <2>1. PICK F : Shape(F)
      BY DEF TypeInv
    <2>2. Shape(F)'
      BY <1>2, <2>1 DEF vars, agentVars, Shape
    <2>3. TypeOK'
      BY <1>2 DEF TypeInv, TypeOK, vars, diskVars, rowVars, agentVars
    <2> QED
      BY <2>2, <2>3 DEF TypeInv
  <1> QED
    BY <1>1, <1>2

LEMMA BootNext ==
    ASSUME TypeInv, BootInv, [Next]_vars
    PROVE  BootInv'
  <1> USE DEF vars, diskVars, rowVars, agentVars
  <1>1. ASSUME UNCHANGED <<boot, db>> PROVE BootInv'
    BY <1>1 DEF BootInv
  <1>2. CASE BootCommit
    BY <1>2, TypeCommit
  <1>3. CASE BootStart \/ Crash \/ \E l \in Layers : InspectFile(l)
    <2>1. db' = db
      BY <1>3 DEF BootStart, Crash, InspectFile
    <2>2. boot'.pc = "reading" => boot'.doc \in Documents
      <3>1. CASE BootStart
        BY <3>1 DEF BootStart, TypeInv, TypeOK
      <3>2. CASE Crash
        BY <3>2 DEF Crash, Down
      <3>3. ASSUME NEW l \in Layers, InspectFile(l)
            PROVE  boot'.pc = "reading" => boot'.doc \in Documents
        BY <3>3 DEF InspectFile, BootInv, TypeInv, TypeOK
      <3> QED
        BY <1>3, <3>1, <3>2, <3>3
    <2> QED
      BY <2>1, <2>2 DEF BootInv
  <1>4. CASE \/ EditDocument \/ AgentRestart \/ UNCHANGED vars
             \/ \E l \in Layers, p \in Nat : EditFile(l, p)
             \/ \E d \in downloads : ReadArchive(d) \/ FinishDownload(d) \/ DownloadBreaks(d)
    BY <1>1, <1>4 DEF EditDocument, AgentRestart, EditFile, ReadArchive, FinishDownload,
          DownloadBreaks
  <1>5. ASSUME NEW i \in Instances,
               \/ CreateWarm(i) \/ CancelObsolete(i) \/ GiveUp(i) \/ Retire(i)
               \/ DeleteContainer(i) \/ DeleteDirectory(i) \/ Exit(i)
        PROVE  BootInv'
    BY <1>1, <1>5 DEF CreateWarm, CancelObsolete, GiveUp, Retire, DeleteContainer,
          DeleteDirectory, Exit
  <1>6. ASSUME NEW i \in Instances, NEW k \in Slots,
               \/ ExecuteCreate(i, k) \/ Resolve(i, k) \/ Clear(i, k) \/ Rename(i, k)
               \/ CreateLocked(i, k) \/ Start(i, k) \/ StartFails(i, k)
               \/ \E n \in DOMAIN frozen[i] : StartDownload(i, k, n)
        PROVE  BootInv'
    BY <1>1, <1>6 DEF ExecuteCreate, Resolve, Clear, Rename, CreateLocked, Start, StartFails,
          StartDownload
  <1>7. \A l \in Layers : \A p \in Paths(l) : p \in Nat
    BY LayersNumbered DEF Paths, Range
  <1> QED
    BY <1>2, <1>3, <1>4, <1>5, <1>6, <1>7 DEF Next

LEMMA TypeInit ==
    ASSUME Init
    PROVE  TypeInv /\ BootInv
  <1>1. \A l \in Layers : files[l] \in Contents(l)
    BY BoundsAssumption DEF Init, Contents, Versions
  <1>2. files \in [Layers -> AnyContent] /\ \A l \in Layers : files[l] \in [Paths(l) -> 0..edits]
    BY <1>1, LayersNumbered DEF Init
  <1>3. boot \in BootType
    BY DEF Init, Down, NothingRead, BootType
  <1>4. db.stack \in Seq(Layers) /\ db.layerSum \in [Layers -> AnyContent \cup {Nothing}]
    BY DEF Init, EmptyDb
  <1>5. Shape({Nothing})
    BY DEF Init, Shape, IdleRequest, NoDirectory, RequestSteps
  <1>6. /\ container \in [Instances -> Containers] /\ frozen \in [Instances -> Seq(Keys)]
        /\ edits \in 0..MaxEdits /\ faults \in 0..MaxFaults
    BY BoundsAssumption DEF Init, NoContainer, Containers
  <1>7. \A i \in Instances, k \in Slots : req[i][k].pc \in RequestSteps
    BY <1>5 DEF Shape
  <1>8. TypeOK
    BY <1>2, <1>3, <1>4, <1>6, <1>7 DEF Init, TypeOK, BootType, Containers, RequestSteps
  <1>9. BootInv
    BY DEF Init, BootInv, EmptyDb, Down
  <1> QED
    BY <1>5, <1>8, <1>9 DEF TypeInv

\* Types, and what was committed at a boot, as one invariant.
THEOREM Invariant == Spec => [](TypeInv /\ BootInv)
  <1>1. Init => TypeInv /\ BootInv
    BY TypeInit
  <1>2. TypeInv /\ BootInv /\ [Next]_vars => (TypeInv /\ BootInv)'
    BY TypeNext, BootNext
  <1> QED
    BY <1>1, <1>2, PTL DEF Spec

\* Every value stays within its columns and directories, whatever an operator
\* writes and whatever is interrupted.
THEOREM TypeCorrect == Spec => []TypeOK
  <1>1. TypeInv => TypeOK
    BY DEF TypeInv
  <1> QED
    BY <1>1, Invariant, PTL

-----------------------------------------------------------------------------
(* Host ports                                                              *)

\* A container keeps its port until it is removed, and a new one has a port
\* that no other container has, bound or not.
LEMMA PortsNext ==
    ASSUME TypeInv, PortsDistinct, [Next]_vars
    PROVE  PortsDistinct'
  <1> USE DEF vars, diskVars, rowVars, agentVars
  <1>0. container \in [Instances -> Containers]
    BY DEF TypeInv, TypeOK, Containers
  <1>1. ASSUME NEW i \in Instances,
               \A j \in Instances : container'[j].port = container[j].port
                                    \/ (j = i /\ container'[i].port = 0)
        PROVE  PortsDistinct'
    BY <1>1 DEF PortsDistinct
  <1>2. ASSUME UNCHANGED container PROVE PortsDistinct'
    BY <1>2 DEF PortsDistinct
  <1>3. ASSUME NEW i \in Instances, StartContainer(i) \/ RemoveDirectory(i) \/ Exit(i)
        PROVE  PortsDistinct'
    <2>1. \A j \in Instances : container'[j].port = container[j].port
      BY <1>0, <1>3 DEF StartContainer, RemoveDirectory, Exit, Containers
    <2> QED
      BY <1>1, <2>1
  <1>4. ASSUME NEW i \in Instances, container' = [container EXCEPT ![i] = NoContainer]
        PROVE  PortsDistinct'
    <2>1. \A j \in Instances : container'[j].port = container[j].port
                               \/ (j = i /\ container'[i].port = 0)
      BY <1>0, <1>4 DEF NoContainer
    <2> QED
      BY <1>1, <2>1
  <1>5. ASSUME NEW i \in Instances, NEW k \in Slots, CreateLocked(i, k)
        PROVE  PortsDistinct'
    <2>1. CASE StartContainer(i) \/ UNCHANGED container
      BY <1>2, <1>3, <2>1
    <2>2. CASE FreePorts # {} /\ container' = [container EXCEPT ![i] =
                  [port |-> FirstAvailablePort, running |-> FALSE, mount |-> "none"]]
      <3>1. \A j \in Instances : container[j].port # FirstAvailablePort
        BY <2>2, PortFree DEF FreePorts, UsedPorts
      <3>2. /\ \A j \in Instances \ {i} : container'[j].port = container[j].port
            /\ container'[i].port = FirstAvailablePort
        BY <1>0, <2>2
      <3> QED
        BY <3>1, <3>2 DEF PortsDistinct
    <2> QED
      BY <1>5, <2>1, <2>2 DEF CreateLocked
  <1>6. CASE \/ EditDocument \/ BootStart \/ BootCommit \/ Crash \/ AgentRestart
             \/ \E l \in Layers : InspectFile(l) \/ \E p \in Paths(l) : EditFile(l, p)
             \/ \E d \in downloads : ReadArchive(d) \/ FinishDownload(d) \/ DownloadBreaks(d)
    <2>1. UNCHANGED container
      BY <1>6 DEF EditDocument, BootStart, BootCommit, Crash, AgentRestart, InspectFile,
            EditFile, ReadArchive, FinishDownload, DownloadBreaks
    <2> QED
      BY <1>2, <2>1
  <1>7. ASSUME NEW i \in Instances,
               \/ CreateWarm(i) \/ CancelObsolete(i) \/ GiveUp(i) \/ Retire(i)
               \/ DeleteContainer(i) \/ DeleteDirectory(i) \/ Exit(i)
        PROVE  PortsDistinct'
    BY <1>2, <1>3, <1>4, <1>7 DEF CreateWarm, CancelObsolete, GiveUp, Retire,
          DeleteContainer, DeleteDirectory
  <1>8. ASSUME NEW i \in Instances, NEW k \in Slots,
               \/ ExecuteCreate(i, k) \/ Resolve(i, k) \/ Clear(i, k) \/ Rename(i, k)
               \/ Start(i, k) \/ StartFails(i, k)
               \/ \E n \in DOMAIN frozen[i] : StartDownload(i, k, n)
        PROVE  PortsDistinct'
    BY <1>2, <1>3, <1>4, <1>8 DEF ExecuteCreate, Resolve, Clear, Rename, Start, StartFails,
          StartDownload
  <1>9. CASE UNCHANGED vars
    BY <1>2, <1>9
  <1> QED
    BY <1>5, <1>6, <1>7, <1>8, <1>9 DEF Next

\* allocatePort: two containers never have the same host port.
THEOREM PortsAreDistinct == Spec => []PortsDistinct
  <1>1. Init => PortsDistinct
    BY DEF Init, PortsDistinct, NoContainer
  <1>2. TypeInv /\ PortsDistinct /\ [Next]_vars => PortsDistinct'
    BY PortsNext
  <1> QED
    BY <1>1, <1>2, Invariant, PTL DEF Spec

-----------------------------------------------------------------------------
(* The snapshot of the templates                                           *)

\* Only the commit of a boot writes the tables of the snapshot.
LEMMA SnapshotStays ==
    ASSUME [Next]_vars, ~BootCommit
    PROVE  db' = db
  <1> USE DEF vars, diskVars, rowVars, agentVars
  <1>1. CASE \/ EditDocument \/ BootStart \/ Crash \/ AgentRestart \/ UNCHANGED vars
             \/ \E l \in Layers : InspectFile(l) \/ \E p \in Paths(l) : EditFile(l, p)
             \/ \E d \in downloads : ReadArchive(d) \/ FinishDownload(d) \/ DownloadBreaks(d)
    BY <1>1 DEF EditDocument, BootStart, Crash, AgentRestart, InspectFile, EditFile,
          ReadArchive, FinishDownload, DownloadBreaks
  <1>2. ASSUME NEW i \in Instances,
               \/ CreateWarm(i) \/ CancelObsolete(i) \/ GiveUp(i) \/ Retire(i)
               \/ DeleteContainer(i) \/ DeleteDirectory(i) \/ Exit(i)
        PROVE  db' = db
    BY <1>2 DEF CreateWarm, CancelObsolete, GiveUp, Retire, DeleteContainer,
          DeleteDirectory, Exit
  <1>3. ASSUME NEW i \in Instances, NEW k \in Slots,
               \/ ExecuteCreate(i, k) \/ Resolve(i, k) \/ Clear(i, k) \/ Rename(i, k)
               \/ CreateLocked(i, k) \/ Start(i, k) \/ StartFails(i, k)
               \/ \E n \in DOMAIN frozen[i] : StartDownload(i, k, n)
        PROVE  db' = db
    BY <1>3 DEF ExecuteCreate, Resolve, Clear, Rename, CreateLocked, Start, StartFails,
          StartDownload
  <1> QED
    BY <1>1, <1>2, <1>3 DEF Next

\* A commit stores a group that passed parseGroup and loadConfiguration whole,
\* or disables it.
LEMMA SnapshotCommit ==
    ASSUME TypeInv, BootInv, SnapshotUsable, BootCommit
    PROVE  SnapshotUsable'
  <1> DEFINE d == boot.doc
             sums == [l \in Layers |-> Inspected(l)]
  <1>1. CASE ~LoadConfiguration(d)
    BY <1>1 DEF BootCommit, SnapshotUsable, EffectiveChecksum
  <1>2. CASE LoadConfiguration(d) /\ d.listed
    <2>1. /\ d.minimum <= d.maximum /\ MergeRuntime(d) # Nothing
          /\ Stack(d) # <<>>
      BY <1>2, SynchronizeTyped
      DEF LoadConfiguration, ParseGroup, CapacityLimits, BootCommit, BootInv, TypeInv
    <2>2. db' = SynchronizeConfiguration(d, sums)
      BY <1>2 DEF BootCommit
    <2> HIDE DEF sums
    <2>3. /\ db'.minimum = d.minimum /\ db'.maximum = d.maximum
          /\ db'.stack = Stack(d) /\ db'.runtime = MergeRuntime(d)
          /\ db'.layerSum = sums
          /\ db'.variantSum = EffectiveChecksum(Stack(d), sums)
      BY <1>2, <2>2 DEF SynchronizeConfiguration
    <2> QED
      BY <2>1, <2>3 DEF SnapshotUsable, EffectiveChecksum
  <1>3. CASE LoadConfiguration(d) /\ ~d.listed
    <2>1. db' = [db EXCEPT !.enabled = FALSE, !.layerSum = sums]
      BY <1>3 DEF BootCommit, SynchronizeConfiguration
    <2>2. ~db'.enabled
      BY <2>1 DEF BootInv
    <2> QED
      BY <2>2 DEF SnapshotUsable
  <1> QED
    BY <1>1, <1>2, <1>3

\* synchronizeConfiguration: a group that can start instances has a variant
\* whose checksum is that of its layers, and a complete runtime.
THEOREM SnapshotIsUsable == Spec => []SnapshotUsable
  <1>1. Init => SnapshotUsable
    BY DEF Init, SnapshotUsable, EmptyDb
  <1>2. TypeInv /\ BootInv /\ SnapshotUsable /\ [Next]_vars => SnapshotUsable'
    <2> SUFFICES ASSUME TypeInv, BootInv, SnapshotUsable, [Next]_vars
                 PROVE  SnapshotUsable'
      OBVIOUS
    <2>1. CASE BootCommit
      BY <2>1, SnapshotCommit
    <2>2. CASE ~BootCommit
      BY <2>2, SnapshotStays DEF SnapshotUsable, EffectiveChecksum
    <2> QED
      BY <2>1, <2>2
  <1> QED
    BY <1>1, <1>2, Invariant, PTL DEF Spec

-----------------------------------------------------------------------------
(* Sequential retries                                                      *)

\* What holds of an instance whose requests never overlapped: the one request
\* it may have has not yet made a container before it reaches "start", has its
\* directory from "lock" on, and a container has its directory.
NoOverlap(i) ==
    /\ \A k, m \in Slots : req[i][k].pc # "idle" /\ req[i][m].pc # "idle" => k = m
    /\ del[i] # "idle" =>
          container[i].port = 0 /\ \A k \in Slots : req[i][k].pc = "idle"
    /\ container[i].port # 0 => dir[i].present
    /\ container[i].running => container[i].port # 0 /\ container[i].mount = "data"
    /\ \A k \in Slots :
          /\ req[i][k].pc \in {"clear", "rename", "lock"} => container[i].port = 0
          /\ req[i][k].pc \in {"lock", "start"} => dir[i].present

RetryInv == \A i \in Instances : ~overlapped[i] => NoOverlap(i)

\* An action touches one instance.
Elsewhere(i) ==
    \A j \in Instances \ {i} :
        /\ req'[j] = req[j] /\ del'[j] = del[j] /\ dir'[j] = dir[j]
        /\ container'[j] = container[j] /\ overlapped'[j] = overlapped[j]

LEMMA RetryOne ==
    ASSUME RetryInv, NEW i \in Instances, Elsewhere(i),
           ~overlapped'[i] => ~overlapped[i],
           ~overlapped'[i] /\ NoOverlap(i) => NoOverlap(i)'
    PROVE  RetryInv'
  <1>1. ASSUME NEW j \in Instances \ {i}, ~overlapped'[j] PROVE NoOverlap(j)'
    <2>1. ~overlapped[j]
      BY <1>1 DEF Elsewhere
    <2>2. NoOverlap(j)
      BY <2>1 DEF RetryInv
    <2> QED
      BY <2>2 DEF NoOverlap, Elsewhere
  <1>2. ASSUME ~overlapped'[i] PROVE NoOverlap(i)'
    BY <1>2 DEF RetryInv
  <1> QED
    BY <1>1, <1>2 DEF RetryInv

\* Requests that end leave an instance no worse.
LEMMA RetryEnds ==
    ASSUME RetryInv, UNCHANGED <<dir, container, overlapped, del>>,
           \A i \in Instances, k \in Slots :
               req'[i][k].pc = req[i][k].pc \/ req'[i][k].pc = "idle"
    PROVE  RetryInv'
  <1>1. ASSUME NEW i \in Instances, NoOverlap(i) PROVE NoOverlap(i)'
    BY <1>1 DEF NoOverlap
  <1> QED
    BY <1>1 DEF RetryInv

\* The answer of a request: it is idle, and nothing else of it changes.
LEMMA AnswerEnds ==
    ASSUME TypeInv, NEW i \in Instances, NEW k \in Slots, NEW ok, Answer(i, k, ok)
    PROVE  /\ \A j \in Instances \ {i} : req'[j] = req[j]
           /\ \A m \in Slots : req'[i][m].pc = IF m = k THEN "idle" ELSE req[i][m].pc
  BY DEF Answer, TypeInv, Shape, IdleRequest

\* A container that is started where there is a directory has its files.
LEMMA StartedHasData ==
    ASSUME TypeInv, NEW i \in Instances, StartContainer(i)
    PROVE  /\ \A j \in Instances \ {i} : container'[j] = container[j]
           /\ container'[i].port = container[i].port /\ container'[i].running
           /\ \/ container'[i].mount = container[i].mount /\ container[i].running
              \/ container'[i].mount = IF dir[i].present THEN "data" ELSE "lost"
  BY DEF StartContainer, TypeInv, TypeOK

\* createInstance, which answers at several places.
LEMMA RetryExecutor ==
    ASSUME TypeInv, RetryInv, NEW i \in Instances, NEW k \in Slots,
           \/ Resolve(i, k) \/ Clear(i, k) \/ Rename(i, k)
           \/ CreateLocked(i, k) \/ Start(i, k) \/ StartFails(i, k)
    PROVE  RetryInv'
  <1> USE DEF diskVars, rowVars, agentVars
  <1>0. PICK F : Shape(F)
    BY DEF TypeInv
  <1>t. /\ req \in [Instances -> [Slots -> [pc : RequestSteps, staged : F]]]
        /\ dir \in [Instances -> [present : BOOLEAN, files : F]]
        /\ container \in [Instances -> Containers]
    BY <1>0 DEF Shape, TypeInv, TypeOK, Containers
  <1>o. UNCHANGED <<overlapped, del>>
    BY DEF Resolve, Clear, Rename, CreateLocked, Start, StartFails
  <1>s. ASSUME Elsewhere(i), NoOverlap(i) => NoOverlap(i)'
        PROVE  RetryInv'
    BY <1>o, <1>s, RetryOne
  <1>6. ASSUME StartContainer(i), Answer(i, k, TRUE), UNCHANGED dir, container[i].port # 0
        PROVE  RetryInv'
    <2>1. Elsewhere(i)
      BY <1>6, <1>o, AnswerEnds, StartedHasData DEF Elsewhere
    <2> SUFFICES ASSUME NoOverlap(i) PROVE NoOverlap(i)'
      BY <1>s, <2>1
    <2>2. \A m \in Slots : req'[i][m].pc = IF m = k THEN "idle" ELSE req[i][m].pc
      BY <1>6, AnswerEnds
    <2>3. dir[i].present /\ del[i] = "idle" /\ container'[i].port = container[i].port
      BY <1>6, StartedHasData DEF NoOverlap
    <2>4. container'[i].mount = "data"
      BY <1>6, <2>3, StartedHasData DEF NoOverlap
    <2> QED
      BY <1>o, <1>6, <2>2, <2>3, <2>4 DEF NoOverlap
  <1>7. ASSUME NEW ok, Answer(i, k, ok), UNCHANGED <<dir, container>> PROVE RetryInv'
    <2>1. /\ \A j \in Instances \ {i} : req'[j] = req[j]
          /\ \A m \in Slots : req'[i][m].pc = IF m = k THEN "idle" ELSE req[i][m].pc
      BY <1>7, AnswerEnds
    <2>2. \A j \in Instances, m \in Slots :
              req'[j][m].pc = req[j][m].pc \/ req'[j][m].pc = "idle"
      BY <2>1
    <2> QED
      BY <1>7, <1>o, <2>2, RetryEnds
  <1>1. CASE Resolve(i, k) /\ Reused(i)
    BY <1>1, <1>6 DEF Resolve, Reused, FindByInstanceId
  <1>2. CASE Resolve(i, k) /\ ~Reused(i)
    <2> DEFINE next == [pc |-> "clear", staged |-> MaterializeLayers(i)]
    <2>1. /\ req' = [req EXCEPT ![i][k] = next] /\ UNCHANGED <<dir, container>>
          /\ container[i].port = 0 /\ req[i][k].pc = "resolve"
      BY <1>2 DEF Resolve, Reused, FindByInstanceId, At
    <2>2. next.pc = "clear"
      OBVIOUS
    <2> HIDE DEF next
    <2>3. /\ \A j \in Instances \ {i} : req'[j] = req[j]
          /\ \A m \in Slots : req'[i][m] = IF m = k THEN next ELSE req[i][m]
      BY <1>t, <2>1
    <2>4. Elsewhere(i)
      BY <1>o, <2>1, <2>3 DEF Elsewhere
    <2>5. NoOverlap(i) => NoOverlap(i)'
      BY <1>o, <2>1, <2>2, <2>3 DEF NoOverlap
    <2> QED
      BY <1>s, <2>4, <2>5
  <1>3. CASE Clear(i, k)
    <2>1. /\ \A j \in Instances \ {i} : req'[j] = req[j]
          /\ \A m \in Slots : req'[i][m].pc = IF m = k THEN "rename" ELSE req[i][m].pc
          /\ req[i][k].pc = "clear"
      BY <1>3, <1>t DEF Clear, Goto, At
    <2>2. /\ \A j \in Instances \ {i} : dir'[j] = dir[j] /\ container'[j] = container[j]
          /\ container'[i].port = container[i].port
          /\ container'[i].running = container[i].running
      BY <1>3, <1>t DEF Clear, RemoveDirectory, Containers
    <2>3. Elsewhere(i)
      BY <1>o, <2>1, <2>2 DEF Elsewhere
    <2>4. NoOverlap(i) => NoOverlap(i)'
      BY <1>o, <2>1, <2>2 DEF NoOverlap
    <2> QED
      BY <1>s, <2>3, <2>4
  <1>4. CASE Rename(i, k) /\ dir[i].present
    BY <1>4, <1>7 DEF Rename
  <1>5. CASE Rename(i, k) /\ ~dir[i].present
    <2>1. /\ \A j \in Instances \ {i} : req'[j] = req[j]
          /\ \A m \in Slots : req'[i][m].pc = IF m = k THEN "lock" ELSE req[i][m].pc
          /\ req[i][k].pc = "rename" /\ UNCHANGED container
      BY <1>5, <1>t DEF Rename, At, IdleRequest
    <2>2. \A j \in Instances \ {i} : dir'[j] = dir[j]
      BY <1>5, <1>t DEF Rename
    <2>5. dir'[i].present
      BY <1>5, <1>t DEF Rename
    <2>3. Elsewhere(i)
      BY <1>o, <2>1, <2>2 DEF Elsewhere
    <2>4. NoOverlap(i) => NoOverlap(i)'
      BY <1>o, <2>1, <2>5 DEF NoOverlap
    <2> QED
      BY <1>s, <2>3, <2>4
  <1>8. CASE CreateLocked(i, k)
    <2>1. CASE FindByInstanceId(i)
      BY <1>6, <1>8, <2>1 DEF CreateLocked, FindByInstanceId
    <2>2. CASE ~FindByInstanceId(i) /\ FreePorts = {}
      BY <1>7, <1>8, <2>2 DEF CreateLocked
    <2>3. CASE ~FindByInstanceId(i) /\ FreePorts # {}
      <3> DEFINE next == [port |-> FirstAvailablePort, running |-> FALSE, mount |-> "none"]
      <3>1. container' = [container EXCEPT ![i] = next] /\ Goto(i, k, "start")
            /\ UNCHANGED dir /\ req[i][k].pc = "lock"
        BY <1>8, <2>3 DEF CreateLocked, At
      <3>2. next.port # 0 /\ ~next.running
        BY <2>3, PortFree DEF FreePorts
      <3> HIDE DEF next
      <3>3. /\ \A j \in Instances \ {i} : req'[j] = req[j] /\ container'[j] = container[j]
            /\ \A m \in Slots : req'[i][m].pc = IF m = k THEN "start" ELSE req[i][m].pc
            /\ container'[i] = next
        BY <1>t, <3>1 DEF Goto
      <3>4. Elsewhere(i)
        BY <1>o, <3>1, <3>3 DEF Elsewhere
      <3>5. NoOverlap(i) => NoOverlap(i)'
        BY <1>o, <3>1, <3>2, <3>3 DEF NoOverlap
      <3> QED
        BY <1>s, <3>4, <3>5
    <2> QED
      BY <2>1, <2>2, <2>3
  <1>9. CASE Start(i, k)
    BY <1>6, <1>7, <1>9 DEF Start, FindByInstanceId
  <1>10. CASE StartFails(i, k)
    <2>1. /\ \A j \in Instances \ {i} : container'[j] = container[j]
          /\ container'[i].port = 0 /\ ~container'[i].running /\ UNCHANGED dir
          /\ Answer(i, k, FALSE)
      BY <1>10, <1>t DEF StartFails, NoContainer
    <2>2. Elsewhere(i)
      BY <1>o, <2>1, AnswerEnds DEF Elsewhere
    <2>4. \A m \in Slots : req'[i][m].pc = IF m = k THEN "idle" ELSE req[i][m].pc
      BY <2>1, AnswerEnds
    <2>5. req[i][k].pc = "start"
      BY <1>10 DEF StartFails, At
    <2>3. NoOverlap(i) => NoOverlap(i)'
      BY <1>o, <2>1, <2>4, <2>5 DEF NoOverlap
    <2> QED
      BY <1>s, <2>2, <2>3
  <1> QED
    BY <1>1, <1>2, <1>3, <1>4, <1>5, <1>8, <1>9, <1>10

\* The orchestrator claims a command, and the deletions.
LEMMA RetryRequests ==
    ASSUME TypeInv, RetryInv, NEW i \in Instances,
           \/ \E k \in Slots : ExecuteCreate(i, k)
           \/ DeleteContainer(i) \/ DeleteDirectory(i) \/ Exit(i)
    PROVE  RetryInv'
  <1> USE DEF diskVars, rowVars, agentVars
  <1>0. PICK F : Shape(F)
    BY DEF TypeInv
  <1>t. /\ req \in [Instances -> [Slots -> [pc : RequestSteps, staged : F]]]
        /\ dir \in [Instances -> [present : BOOLEAN, files : F]]
        /\ del \in [Instances -> {"idle", "directory"}]
        /\ container \in [Instances -> Containers]
        /\ overlapped \in [Instances -> BOOLEAN]
    BY <1>0 DEF Shape, TypeInv, TypeOK, Containers
  <1>1. ASSUME NEW k \in Slots, ExecuteCreate(i, k) PROVE RetryInv'
    <2>1. /\ \A j \in Instances \ {i} : req'[j] = req[j]
          /\ \A m \in Slots : req'[i][m].pc = IF m = k THEN "resolve" ELSE req[i][m].pc
      BY <1>1, <1>t DEF ExecuteCreate
    <2>2. /\ ~overlapped'[i] => ~overlapped[i] /\ ~Busy(i)
          /\ \A j \in Instances \ {i} : overlapped'[j] = overlapped[j]
      BY <1>1, <1>t DEF ExecuteCreate
    <2>3. Elsewhere(i)
      BY <1>1, <2>1, <2>2 DEF Elsewhere, ExecuteCreate
    <2>4. UNCHANGED <<dir, container, del>>
      BY <1>1 DEF ExecuteCreate
    <2>5. ~Busy(i) /\ NoOverlap(i) => NoOverlap(i)'
      BY <2>1, <2>4 DEF Busy, NoOverlap
    <2> QED
      BY <2>2, <2>3, <2>5, RetryOne
  <1>2. CASE DeleteContainer(i)
    <2>1. /\ \A j \in Instances \ {i} : container'[j] = container[j] /\ del'[j] = del[j]
          /\ container'[i].port = 0 /\ ~container'[i].running /\ UNCHANGED <<req, dir>>
      BY <1>2, <1>t DEF DeleteContainer, NoContainer
    <2>2. /\ ~overlapped'[i] => ~overlapped[i] /\ ~Busy(i)
          /\ \A j \in Instances \ {i} : overlapped'[j] = overlapped[j]
      BY <1>2, <1>t DEF DeleteContainer
    <2>3. Elsewhere(i)
      BY <2>1, <2>2 DEF Elsewhere
    <2>4. ~Busy(i) /\ NoOverlap(i) => NoOverlap(i)'
      BY <2>1 DEF Busy, NoOverlap
    <2> QED
      BY <2>2, <2>3, <2>4, RetryOne
  <1>3. CASE DeleteDirectory(i)
    <2>1. /\ \A j \in Instances \ {i} : /\ container'[j] = container[j] /\ del'[j] = del[j]
                                        /\ dir'[j] = dir[j]
          /\ del[i] = "directory" /\ del'[i] = "idle" /\ UNCHANGED <<req, overlapped>>
          /\ container'[i].port = container[i].port
          /\ container'[i].running = container[i].running
      BY <1>3, <1>t DEF DeleteDirectory, RemoveDirectory, Containers
    <2>2. Elsewhere(i)
      BY <2>1 DEF Elsewhere
    <2>3. NoOverlap(i) => NoOverlap(i)'
      BY <2>1 DEF NoOverlap
    <2> QED
      BY <2>1, <2>2, <2>3, RetryOne
  <1>4. CASE Exit(i)
    <2>1. /\ \A j \in Instances \ {i} : container'[j] = container[j]
          /\ UNCHANGED <<req, overlapped, del, dir>>
          /\ container'[i].port = container[i].port /\ ~container'[i].running
      BY <1>4, <1>t DEF Exit, Containers
    <2>2. Elsewhere(i)
      BY <2>1 DEF Elsewhere
    <2>3. NoOverlap(i) => NoOverlap(i)'
      BY <2>1 DEF NoOverlap
    <2> QED
      BY <2>1, <2>2, <2>3, RetryOne
  <1> QED
    BY <1>1, <1>2, <1>3, <1>4

LEMMA RetryNext ==
    ASSUME TypeInv, RetryInv, [Next]_vars
    PROVE  RetryInv'
  <1> USE DEF vars, diskVars, rowVars, agentVars
  <1>1. ASSUME UNCHANGED <<req, del, dir, container, overlapped>> PROVE RetryInv'
    BY <1>1 DEF RetryInv, NoOverlap
  <1>2. CASE \/ EditDocument \/ BootStart \/ BootCommit \/ Crash \/ UNCHANGED vars
             \/ \E l \in Layers : InspectFile(l) \/ \E p \in Paths(l) : EditFile(l, p)
             \/ \E d \in downloads : ReadArchive(d)
             \/ \E i \in Instances :
                   CreateWarm(i) \/ CancelObsolete(i) \/ GiveUp(i) \/ Retire(i)
    <2>1. UNCHANGED <<req, del, dir, container, overlapped>>
      BY <1>2 DEF EditDocument, BootStart, BootCommit, Crash, InspectFile, EditFile,
            ReadArchive, CreateWarm, CancelObsolete, GiveUp, Retire
    <2> QED
      BY <1>1, <2>1
  <1>3. ASSUME UNCHANGED <<dir, container, overlapped, del>>,
               UNCHANGED req \/ \E key : LayerFails(key)
        PROVE  RetryInv'
    <2>1. \A i \in Instances, k \in Slots :
              req'[i][k].pc = req[i][k].pc \/ req'[i][k].pc = "idle"
      BY <1>3 DEF LayerFails, IdleRequest
    <2> QED
      BY <1>3, <2>1, RetryEnds
  <1>4. CASE \/ \E d \in downloads : FinishDownload(d) \/ DownloadBreaks(d)
             \/ \E i \in Instances, k \in Slots :
                   \E n \in DOMAIN frozen[i] : StartDownload(i, k, n)
    BY <1>3, <1>4 DEF FinishDownload, DownloadBreaks, StartDownload
  <1>5. CASE AgentRestart
    <2>1. /\ \A i \in Instances : del'[i] = "idle" /\ \A k \in Slots : req'[i][k].pc = "idle"
          /\ UNCHANGED <<dir, container, overlapped>>
      BY <1>5 DEF AgentRestart, IdleRequest
    <2>2. ASSUME NEW i \in Instances, NoOverlap(i) PROVE NoOverlap(i)'
      BY <2>1, <2>2 DEF NoOverlap
    <2> QED
      BY <2>1, <2>2 DEF RetryInv
  <1>6. CASE \E i \in Instances :
                \/ DeleteContainer(i) \/ DeleteDirectory(i) \/ Exit(i)
                \/ \E k \in Slots : ExecuteCreate(i, k)
    BY <1>6, RetryRequests
  <1>7. CASE \E i \in Instances, k \in Slots :
                \/ Resolve(i, k) \/ Clear(i, k) \/ Rename(i, k)
                \/ CreateLocked(i, k) \/ Start(i, k) \/ StartFails(i, k)
    BY <1>7, RetryExecutor
  <1> QED
    BY <1>2, <1>4, <1>5, <1>6, <1>7 DEF Next

\* createInstance, deleteInstance: unless two requests for an instance were
\* under way at once, its running container has its files.
THEOREM RetriesKeepTheData == Spec => []RetriesKeepData
  <1>1. Init => RetryInv
    BY DEF Init, RetryInv, NoOverlap, IdleRequest, NoContainer
  <1>2. TypeInv /\ RetryInv /\ [Next]_vars => RetryInv'
    BY RetryNext
  <1>3. RetryInv => RetriesKeepData
    BY DEF RetryInv, NoOverlap, RetriesKeepData
  <1> QED
    BY <1>1, <1>2, <1>3, Invariant, PTL DEF Spec

-----------------------------------------------------------------------------
(* Copying layers one over the other is Overlay                            *)

\* The place a path has in the first n layers of a stack is the last of them
\* that has it.
LastOf(stack, n, p, m) ==
    /\ m \in 1..n /\ p \in DOMAIN stack[m]
    /\ \A q \in 1..n : p \in DOMAIN stack[q] => q <= m

LastHolder(stack, n, p) == CHOOSE m : LastOf(stack, n, p, m)

Held(stack, n) == (UNION {DOMAIN stack[m] : m \in 1..n}) \ {Descriptor}

Overlaid(stack, n) ==
    [p \in Held(stack, n) |-> stack[LastHolder(stack, n, p)][p]]

LEMMA HeldIn ==
    \A stack, n, p : p \in Held(stack, n) <=>
                         p # Descriptor /\ \E m \in 1..n : p \in DOMAIN stack[m]
  <1> TAKE stack, n, p
  <1> DEFINE U == UNION {DOMAIN stack[m] : m \in 1..n}
  <1>1. p \in U <=> \E m \in 1..n : p \in DOMAIN stack[m]
    BY Zenon
  <1>2. Held(stack, n) = U \ {Descriptor}
    BY DEF Held
  <1> HIDE DEF U
  <1>3. p \in U \ {Descriptor} <=> p \in U /\ p # Descriptor
    OBVIOUS
  <1> QED
    BY <1>1, <1>2, <1>3

LEMMA LastExists ==
    ASSUME NEW stack, NEW n \in Nat, NEW p, NEW m \in 1..n, p \in DOMAIN stack[m]
    PROVE  LastOf(stack, n, p, LastHolder(stack, n, p))
  <1> DEFINE S == {n - q : q \in {r \in 1..n : p \in DOMAIN stack[r]}}
  <1>1. S \subseteq Nat /\ S # {}
    OBVIOUS
  <1> HIDE DEF S
  <1>2. PICK d \in S : \A e \in S : d <= e
    BY <1>1, Smallest
  <1>3. PICK q \in 1..n : p \in DOMAIN stack[q] /\ d = n - q
    BY <1>2 DEF S
  <1>4. \A r \in 1..n : p \in DOMAIN stack[r] => n - r \in S
    BY DEF S
  <1>5. LastOf(stack, n, p, q)
    BY <1>2, <1>3, <1>4 DEF LastOf
  <1> QED
    BY <1>5 DEF LastHolder

LEMMA LastUnique ==
    ASSUME NEW stack, NEW n \in Nat, NEW p, NEW m, LastOf(stack, n, p, m)
    PROVE  LastHolder(stack, n, p) = m
  <1>1. LastOf(stack, n, p, LastHolder(stack, n, p))
    BY LastExists DEF LastOf
  <1> QED
    BY <1>1 DEF LastOf

\* One more layer is copied over the others.
LEMMA OneMore ==
    ASSUME NEW stack, NEW n \in Nat, n # 0
    PROVE  Overlaid(stack, n) = CopyOver(Overlaid(stack, n - 1), stack[n])
  <1> DEFINE copied == DOMAIN stack[n] \ {Descriptor}
  <1>0. 1..n = 1..(n - 1) \cup {n}
    OBVIOUS
  <1>1. Held(stack, n) = Held(stack, n - 1) \cup copied
    <2>1. ASSUME NEW p
          PROVE  p \in Held(stack, n) <=> p \in Held(stack, n - 1) \/ p \in copied
      BY <1>0, HeldIn
    <2> HIDE DEF copied
    <2> QED
      BY <2>1
  <1>2. ASSUME NEW p \in copied PROVE LastHolder(stack, n, p) = n
    <2>1. LastOf(stack, n, p, n)
      BY DEF LastOf
    <2> QED
      BY <2>1, LastUnique
  <1>3. ASSUME NEW p \in Held(stack, n) \ copied
        PROVE  /\ p \in Held(stack, n - 1)
               /\ LastHolder(stack, n, p) = LastHolder(stack, n - 1, p)
    <2>1. p \in Held(stack, n - 1) /\ p \notin DOMAIN stack[n]
      <3>1. p \in Held(stack, n - 1) /\ p # Descriptor
        BY <1>1, HeldIn
      <3> QED
        BY <3>1
    <2>2. PICK m \in 1..(n - 1) : p \in DOMAIN stack[m]
      BY <2>1, HeldIn
    <2>3. LastOf(stack, n - 1, p, LastHolder(stack, n - 1, p))
      BY <2>2, LastExists
    <2>4. LastOf(stack, n, p, LastHolder(stack, n - 1, p))
      BY <2>1, <2>3 DEF LastOf
    <2> QED
      BY <2>1, <2>4, LastUnique
  <1> DEFINE over == CopyOver(Overlaid(stack, n - 1), stack[n])
  <1>4. over = [p \in Held(stack, n) |->
                   IF p \in copied THEN stack[n][p] ELSE Overlaid(stack, n - 1)[p]]
    BY <1>1 DEF CopyOver, Overlaid
  <1>5. ASSUME NEW p \in Held(stack, n)
        PROVE  stack[LastHolder(stack, n, p)][p] =
                   IF p \in copied THEN stack[n][p] ELSE Overlaid(stack, n - 1)[p]
    BY <1>2, <1>3 DEF Overlaid
  <1> HIDE DEF copied, over
  <1> QED
    BY <1>4, <1>5 DEF Overlaid, over

\* materializeLayers: each path is taken from the last layer that has it.
LEMMA CopyIsOverlay ==
    ASSUME NEW S, NEW stack \in Seq(S)
    PROVE  CopyLayers(stack) = Deployment!Overlay(stack)
  <1> DEFINE N == Len(stack)
             none == [p \in {} |-> Nothing]
             Is(g) == g = [n \in 0..N |-> IF n = 0 THEN none
                                          ELSE CopyOver(g[n - 1], stack[n])]
             G == [n \in 0..N |-> Overlaid(stack, n)]
             chosen == CHOOSE g : Is(g)
  <1>1. CopyLayers(stack) = chosen[N]
    BY DEF CopyLayers
  <1>2. N \in Nat
    OBVIOUS
  <1>3. Is(G)
    <2>1. Overlaid(stack, 0) = none
      BY DEF Overlaid, Held
    <2>2. \A n \in 0..N : n # 0 => Overlaid(stack, n) = CopyOver(G[n - 1], stack[n])
      BY <1>2, OneMore
    <2> HIDE DEF none
    <2> QED
      BY <2>1, <2>2
  <1> HIDE DEF Is
  <1>4. Is(chosen)
    BY <1>3
  <1> HIDE DEF chosen
  <1>5. chosen[N] = Overlaid(stack, N)
    <2> DEFINE Wrong == {n \in 0..N : chosen[n] # Overlaid(stack, n)}
    <2>1. SUFFICES ASSUME Wrong # {} PROVE FALSE
      BY <1>2
    <2>2. PICK n \in Wrong : \A m \in Wrong : n <= m
      <3>1. Wrong \subseteq Nat
        BY <1>2
      <3> HIDE DEF Wrong
      <3> QED
        BY <2>1, <3>1, Smallest
    <2>3. n \in 0..N /\ chosen[n] # Overlaid(stack, n)
      BY <2>2
    <2>4. n # 0 => chosen[n - 1] = Overlaid(stack, n - 1)
      BY <1>2, <2>2, <2>3
    <2>5. chosen[n] = IF n = 0 THEN none ELSE CopyOver(chosen[n - 1], stack[n])
      BY <1>4, <2>3 DEF Is
    <2>6. n = 0 => Overlaid(stack, 0) = none
      BY DEF Overlaid, Held
    <2>7. n # 0 => Overlaid(stack, n) = CopyOver(Overlaid(stack, n - 1), stack[n])
      BY <1>2, <2>3, OneMore
    <2> QED
      BY <2>3, <2>4, <2>5, <2>6, <2>7
  <1>6. DOMAIN stack = 1..N
    OBVIOUS
  <1>7. Deployment!Paths(stack) = Held(stack, N)
    BY <1>6 DEF Deployment!Paths, Held
  <1>8. ASSUME NEW p \in Held(stack, N)
        PROVE  Deployment!TopLayer(stack, p) = LastHolder(stack, N, p)
    <2>1. PICK m \in 1..N : p \in DOMAIN stack[m]
      BY DEF Held
    <2>2. LastOf(stack, N, p, LastHolder(stack, N, p))
      BY <1>2, <2>1, LastExists
    <2> DEFINE Top(q) == /\ p \in DOMAIN stack[q]
                         /\ \A r \in DOMAIN stack : p \in DOMAIN stack[r] => r <= q
    <2>3. Deployment!TopLayer(stack, p) = CHOOSE q \in DOMAIN stack : Top(q)
      BY DEF Deployment!TopLayer
    <2>4. \A q \in DOMAIN stack : Top(q) <=> LastOf(stack, N, p, q)
      BY <1>6 DEF LastOf
    <2>5. LastHolder(stack, N, p) \in DOMAIN stack /\ Top(LastHolder(stack, N, p))
      BY <1>6, <2>2, <2>4 DEF LastOf
    <2> HIDE DEF Top
    <2>6. PICK q \in DOMAIN stack : Top(q) /\ q = Deployment!TopLayer(stack, p)
      BY <2>3, <2>5
    <2> QED
      BY <1>2, <2>4, <2>6, LastUnique
  <1> QED
    BY <1>1, <1>5, <1>7, <1>8 DEF Deployment!Overlay, Overlaid

-----------------------------------------------------------------------------
(* The files of an instance                                                *)

Wanted(i) == Deployment!Overlay(Planned[i])

\* Layers are frozen once, before there is a command or a request; the cache
\* holds what its checksums say; and what a request is about to move into
\* place is the overlay of the frozen layers.
DeployInv ==
    /\ \A i \in Instances : life[i] = "NONE" => frozen[i] = <<>>
    /\ \A i \in Instances : cmd[i] \in {"PENDING", "RUNNING"} => frozen[i] # <<>>
    /\ \A i \in Instances, k \in Slots : req[i][k].pc # "idle" => frozen[i] # <<>>
    /\ \A c \in cache : c.content = c.key.sum
    /\ \A i \in Instances, k \in Slots :
          req[i][k].pc \in {"clear", "rename"} => req[i][k].staged = Wanted(i)

\* Steps that freeze nothing, start no request and stage nothing.
LEMMA DeployKept ==
    ASSUME DeployInv, UNCHANGED frozen,
           \A c \in cache' : c \in cache \/ c.content = c.key.sum,
           \A i \in Instances : life'[i] = "NONE" => life[i] = "NONE",
           \A i \in Instances :
               cmd'[i] \in {"PENDING", "RUNNING"} => cmd[i] \in {"PENDING", "RUNNING"},
           \A i \in Instances, k \in Slots :
               /\ req'[i][k].pc # "idle" => req[i][k].pc # "idle"
               /\ req'[i][k].pc \in {"clear", "rename"} =>
                     /\ req[i][k].pc \in {"clear", "rename"}
                     /\ req'[i][k].staged = req[i][k].staged
    PROVE  DeployInv'
  <1>1. \A i \in Instances : Wanted(i)' = Wanted(i)
    BY DEF Wanted, Planned
  <1> QED
    BY <1>1 DEF DeployInv

\* An answer, or a layer that fails, ends requests.
LEMMA AnswerKept ==
    ASSUME TypeInv, NEW i \in Instances, NEW k \in Slots, NEW ok, Answer(i, k, ok)
    PROVE  /\ \A j \in Instances : life'[j] = "NONE" => life[j] = "NONE"
           /\ \A j \in Instances : cmd'[j] \in {"PENDING", "RUNNING"} =>
                                       cmd[j] \in {"PENDING", "RUNNING"}
           /\ \A j \in Instances, m \in Slots :
                 req'[j][m] = req[j][m] \/ req'[j][m].pc = "idle"
  <1>1. \A j \in Instances : life'[j] = "NONE" => life[j] = "NONE"
    BY DEF Answer, TypeInv, TypeOK
  <1>2. \A j \in Instances : cmd'[j] \in {"PENDING", "RUNNING"} =>
                                 cmd[j] \in {"PENDING", "RUNNING"}
    BY DEF Answer, TypeInv, TypeOK
  <1>3. \A j \in Instances, m \in Slots :
            req'[j][m] = req[j][m] \/ req'[j][m].pc = "idle"
    BY DEF Answer, TypeInv, Shape, IdleRequest
  <1> QED
    BY <1>1, <1>2, <1>3

LEMMA FailureKept ==
    ASSUME NEW key, LayerFails(key) \/ UNCHANGED <<req, awaits, cmd, life>>
    PROVE  /\ \A j \in Instances : life'[j] = "NONE" => life[j] = "NONE"
           /\ \A j \in Instances : cmd'[j] \in {"PENDING", "RUNNING"} =>
                                       cmd[j] \in {"PENDING", "RUNNING"}
           /\ \A j \in Instances, m \in Slots :
                 req'[j][m] = req[j][m] \/ req'[j][m].pc = "idle"
  BY DEF LayerFails, IdleRequest

\* createWarm freezes layers that are recorded, and executeCreate sends them.
LEMMA DeployController ==
    ASSUME TypeInv, BootInv, DeployInv, NEW i \in Instances,
           \/ CreateWarm(i) \/ CancelObsolete(i) \/ GiveUp(i) \/ Retire(i)
           \/ \E k \in Slots : ExecuteCreate(i, k)
    PROVE  DeployInv'
  <1> USE DEF rowVars, agentVars, diskVars
  <1>t. TypeOK
    BY DEF TypeInv
  <1>1. CASE CreateWarm(i)
    <2>1. /\ \A j \in Instances \ {i} : /\ frozen'[j] = frozen[j] /\ life'[j] = life[j]
                                        /\ cmd'[j] = cmd[j]
          /\ frozen'[i] = SelectedLayers /\ life'[i] = "CREATING"
          /\ UNCHANGED <<req, cache>> /\ life[i] = "NONE" /\ db.stack # <<>>
      BY <1>1, <1>t DEF CreateWarm, TypeOK
    <2>2. SelectedLayers # <<>>
      <3>1. DOMAIN SelectedLayers = DOMAIN db.stack /\ DOMAIN db.stack = 1..Len(db.stack)
            /\ Len(db.stack) \in Nat \ {0}
        BY <2>1, <1>t, EmptySeq DEF SelectedLayers, EffectiveChecksum, TypeOK
      <3>2. 1 \in DOMAIN SelectedLayers
        BY <3>1
      <3> QED
        BY <3>2
    <2>3. \A k \in Slots : req[i][k].pc = "idle"
      BY <2>1 DEF DeployInv
    <2>4. \A j \in Instances \ {i} : Wanted(j)' = Wanted(j)
      BY <2>1 DEF Wanted, Planned
    <2> QED
      BY <2>1, <2>2, <2>3, <2>4 DEF DeployInv
  <1>2. CASE CancelObsolete(i) \/ GiveUp(i) \/ Retire(i)
    <2>1. \A j \in Instances : /\ life'[j] = life[j] \/ life'[j] = "FAILED"
                               /\ \/ cmd'[j] = cmd[j]
                                  \/ cmd'[j] = "FAILED" \/ cmd'[j] = "CANCELLED"
      BY <1>2, <1>t DEF CancelObsolete, GiveUp, Retire, TypeOK
    <2>2. UNCHANGED <<frozen, cache, req>>
      BY <1>2 DEF CancelObsolete, GiveUp, Retire
    <2> QED
      BY <2>1, <2>2, DeployKept
  <1>3. ASSUME NEW k \in Slots, ExecuteCreate(i, k) PROVE DeployInv'
    <2>1. UNCHANGED <<frozen, cache, life>> /\ frozen[i] # <<>>
      BY <1>3 DEF ExecuteCreate, DeployInv
    <2>2. \A j \in Instances : cmd'[j] = cmd[j] \/ j = i
      BY <1>3, <1>t DEF ExecuteCreate, TypeOK
    <2>3. \A j \in Instances, m \in Slots :
              req'[j][m] = req[j][m] \/ (j = i /\ req'[j][m].pc = "resolve")
      BY <1>3 DEF ExecuteCreate, TypeInv, Shape
    <2>4. \A j \in Instances : Wanted(j)' = Wanted(j)
      BY <2>1 DEF Wanted, Planned
    <2> QED
      BY <2>1, <2>2, <2>3, <2>4 DEF DeployInv
  <1> QED
    BY <1>1, <1>2, <1>3

\* What has been cached of the frozen layers is what was planned.
LEMMA StagedIsWanted ==
    ASSUME TypeInv, DeployInv, NEW i \in Instances,
           \A n \in DOMAIN frozen[i] : Cached(frozen[i][n])
    PROVE  MaterializeLayers(i) = Wanted(i)
  <1>1. \A n \in DOMAIN frozen[i] : CacheContent(frozen[i][n]) = frozen[i][n].sum
    <2> SUFFICES ASSUME NEW key, Cached(key) PROVE CacheContent(key) = key.sum
      OBVIOUS
    <2>1. PICK c \in cache : c = CHOOSE e \in cache : e.key = key
      BY DEF Cached
    <2>2. c.key = key
      BY <2>1 DEF Cached
    <2> QED
      BY <2>1, <2>2 DEF CacheContent, DeployInv
  <1>2. [n \in DOMAIN frozen[i] |-> CacheContent(frozen[i][n])] = Planned[i]
    BY <1>1 DEF Planned
  <1>3. Planned[i] \in Seq(AnyContent)
    <2>1. /\ frozen[i] \in Seq(Keys) /\ DOMAIN frozen[i] = 1..Len(frozen[i])
          /\ Len(frozen[i]) \in Nat
          /\ \A n \in 1..Len(frozen[i]) : frozen[i][n] \in Keys
      BY DEF TypeInv, TypeOK
    <2>2. \A n \in 1..Len(frozen[i]) : frozen[i][n].sum \in AnyContent
      BY <2>1 DEF Keys
    <2>3. Planned[i] = [n \in 1..Len(frozen[i]) |-> frozen[i][n].sum]
      BY <2>1 DEF Planned
    <2> QED
      BY <2>1, <2>2, <2>3
  <1> QED
    BY <1>2, <1>3, CopyIsOverlay DEF MaterializeLayers, Wanted

LEMMA DeployExecutor ==
    ASSUME TypeInv, DeployInv, NEW i \in Instances, NEW k \in Slots,
           \/ Resolve(i, k) \/ Clear(i, k) \/ Rename(i, k)
           \/ CreateLocked(i, k) \/ Start(i, k) \/ StartFails(i, k)
    PROVE  DeployInv'
  <1> USE DEF rowVars, agentVars, diskVars
  <1>0. PICK F : req \in [Instances -> [Slots -> [pc : RequestSteps, staged : F]]]
    BY DEF TypeInv, Shape
  <1>1. UNCHANGED <<frozen, cache>>
    BY DEF Resolve, Clear, Rename, CreateLocked, Start, StartFails
  <1>2. ASSUME NEW ok, Answer(i, k, ok) PROVE DeployInv'
    BY <1>1, <1>2, AnswerKept, DeployKept
  <1>3. ASSUME UNCHANGED <<cmd, life>>, NEW pc \in RequestSteps,
               \/ Goto(i, k, pc) /\ (pc = "rename" => req[i][k].pc = "clear")
               \/ req' = [req EXCEPT ![i][k] = [IdleRequest EXCEPT !.pc = pc]]
                  /\ pc # "rename",
               pc # "clear", req[i][k].pc # "idle"
        PROVE  DeployInv'
    <2>1. \A j \in Instances, m \in Slots :
              \/ req'[j][m] = req[j][m]
              \/ /\ j = i /\ m = k /\ req'[j][m].pc = pc
                 /\ pc = "rename" => /\ req[j][m].pc = "clear"
                                     /\ req'[j][m].staged = req[j][m].staged
      BY <1>0, <1>3 DEF Goto, IdleRequest
    <2> QED
      BY <1>1, <1>3, <2>1, DeployKept
  <1>4. CASE Resolve(i, k)
    <2>1. CASE Reused(i)
      BY <1>2, <1>4, <2>1 DEF Resolve
    <2>2. CASE ~Reused(i)
      <3>1. MaterializeLayers(i) = Wanted(i)
        BY <1>4, StagedIsWanted DEF Resolve
      <3>2. /\ req' = [req EXCEPT ![i][k] = [pc |-> "clear", staged |-> Wanted(i)]]
            /\ UNCHANGED <<cmd, life>> /\ req[i][k].pc # "idle"
        BY <1>4, <2>2, <3>1 DEF Resolve, At
      <3>3. \A j \in Instances, m \in Slots :
                \/ req'[j][m] = req[j][m]
                \/ j = i /\ m = k /\ req'[j][m].staged = Wanted(i)
        BY <1>0, <3>2
      <3>4. \A j \in Instances : Wanted(j)' = Wanted(j)
        BY <1>1 DEF Wanted, Planned
      <3> QED
        BY <1>1, <3>2, <3>3, <3>4 DEF DeployInv
    <2> QED
      BY <2>1, <2>2
  <1>5. CASE Clear(i, k)
    BY <1>3, <1>5 DEF Clear, At, RequestSteps
  <1>6. CASE Rename(i, k)
    <2>1. CASE dir[i].present
      BY <1>2, <1>6, <2>1 DEF Rename
    <2>2. CASE ~dir[i].present
      BY <1>3, <1>6, <2>2 DEF Rename, At, RequestSteps
    <2> QED
      BY <2>1, <2>2
  <1>7. CASE CreateLocked(i, k)
    <2>1. CASE FindByInstanceId(i) \/ FreePorts = {}
      BY <1>2, <1>7, <2>1 DEF CreateLocked
    <2>2. CASE ~FindByInstanceId(i) /\ FreePorts # {}
      BY <1>3, <1>7, <2>2 DEF CreateLocked, At, RequestSteps
    <2> QED
      BY <2>1, <2>2
  <1>8. CASE Start(i, k) \/ StartFails(i, k)
    BY <1>2, <1>8 DEF Start, StartFails
  <1> QED
    BY <1>4, <1>5, <1>6, <1>7, <1>8

LEMMA DeployNext ==
    ASSUME TypeInv, BootInv, DeployInv, [Next]_vars
    PROVE  DeployInv'
  <1> USE DEF vars, diskVars, rowVars, agentVars
  <1>t. TypeOK
    BY DEF TypeInv
  <1>1. CASE \/ EditDocument \/ BootStart \/ Crash \/ UNCHANGED vars
             \/ \E l \in Layers : InspectFile(l) \/ \E p \in Paths(l) : EditFile(l, p)
             \/ \E d \in downloads : ReadArchive(d)
             \/ \E i \in Instances : DeleteContainer(i) \/ DeleteDirectory(i) \/ Exit(i)
    <2>1. UNCHANGED <<frozen, cache, req, cmd>>
      BY <1>1 DEF EditDocument, BootStart, Crash, InspectFile, EditFile, ReadArchive,
            DeleteContainer, DeleteDirectory, Exit
    <2>2. \A j \in Instances : life'[j] = "NONE" => life[j] = "NONE"
      <3>1. CASE UNCHANGED life
        BY <3>1
      <3>2. CASE \E i \in Instances : DeleteContainer(i) \/ DeleteDirectory(i)
        BY <1>t, <3>2 DEF DeleteContainer, DeleteDirectory, TypeOK
      <3> QED
        BY <1>1, <3>1, <3>2 DEF EditDocument, BootStart, Crash, InspectFile, EditFile,
              ReadArchive, Exit
    <2> QED
      BY <2>1, <2>2, DeployKept
  <1>2. CASE BootCommit
    <2>1. /\ UNCHANGED <<frozen, cache, req, life>>
          /\ \A j \in Instances : cmd'[j] \in {"PENDING", "RUNNING"} =>
                                      cmd[j] \in {"PENDING", "RUNNING"}
      BY <1>2 DEF BootCommit
    <2> QED
      BY <2>1, DeployKept
  <1>3. ASSUME NEW d \in downloads, FinishDownload(d) \/ DownloadBreaks(d)
        PROVE  DeployInv'
    <2>1. UNCHANGED frozen /\ \A c \in cache' : c \in cache \/ c.content = c.key.sum
      BY <1>3 DEF FinishDownload, DownloadBreaks, Verified
    <2>2. LayerFails(d.key) \/ UNCHANGED <<req, awaits, cmd, life>>
      BY <1>3 DEF FinishDownload, DownloadBreaks
    <2> QED
      BY <2>1, <2>2, FailureKept, DeployKept
  <1>4. ASSUME NEW i \in Instances, NEW k \in Slots, NEW n \in DOMAIN frozen[i],
               StartDownload(i, k, n)
        PROVE  DeployInv'
    <2>1. UNCHANGED <<frozen, cache>>
      BY <1>4 DEF StartDownload
    <2>2. LayerFails(frozen[i][n]) \/ UNCHANGED <<req, awaits, cmd, life>>
      BY <1>4 DEF StartDownload
    <2> QED
      BY <2>1, <2>2, FailureKept, DeployKept
  <1>5. CASE AgentRestart
    BY <1>5, DeployKept DEF AgentRestart, IdleRequest
  <1>6. CASE \E i \in Instances :
                \/ CreateWarm(i) \/ CancelObsolete(i) \/ GiveUp(i) \/ Retire(i)
                \/ \E k \in Slots : ExecuteCreate(i, k)
    BY <1>6, DeployController
  <1>7. CASE \E i \in Instances, k \in Slots :
                \/ Resolve(i, k) \/ Clear(i, k) \/ Rename(i, k)
                \/ CreateLocked(i, k) \/ Start(i, k) \/ StartFails(i, k)
    BY <1>7, DeployExecutor
  <1> QED
    BY <1>1, <1>2, <1>3, <1>4, <1>5, <1>6, <1>7 DEF Next

\* createWarm plans, the rename deploys, both ways to remove a directory
\* remove, and every other step is a stutter.
LEMMA DeployStep ==
    ASSUME TypeInv, BootInv, DeployInv, TypeInv', DeployInv', [Next]_vars
    PROVE  [Deployment!Next]_<<Planned, Deployed>>
  <1> USE DEF vars, diskVars, rowVars, agentVars
  <1>t. TypeOK
    BY DEF TypeInv
  <1>0. PICK F : dir \in [Instances -> [present : BOOLEAN, files : F]]
    BY DEF TypeInv, Shape
  <1>1. ASSUME UNCHANGED frozen PROVE Planned' = Planned
    BY <1>1 DEF Planned
  <1>2. ASSUME UNCHANGED dir PROVE Deployed' = Deployed
    BY <1>2 DEF Deployed
  <1>3. ASSUME NEW i \in Instances, CreateWarm(i)
        PROVE  Deployment!Plan(i)
    <2>1. /\ \A j \in Instances \ {i} : frozen'[j] = frozen[j]
          /\ frozen[i] = <<>> /\ frozen'[i] # <<>> /\ UNCHANGED dir
      <3>1. life[i] = "NONE" /\ life'[i] # "NONE" /\ UNCHANGED dir /\ cmd'[i] = "PENDING"
        BY <1>3, <1>t DEF CreateWarm, TypeOK
      <3> QED
        BY <1>3, <1>t, <3>1 DEF CreateWarm, DeployInv, TypeOK
    <2>2. Planned[i] = <<>>
      BY <2>1 DEF Planned
    <2>3. /\ frozen'[i] \in Seq(Keys) /\ DOMAIN frozen'[i] = 1..Len(frozen'[i])
          /\ Len(frozen'[i]) \in Nat /\ frozen'[i] # <<>>
          /\ \A n \in 1..Len(frozen'[i]) : frozen'[i][n] \in Keys
      <3>1. frozen'[i] \in Seq(Keys)
        BY DEF TypeInv, TypeOK
      <3> QED
        BY <2>1, <3>1
    <2>4. /\ \A n \in 1..Len(frozen'[i]) : frozen'[i][n].sum \in AnyContent
          /\ Planned'[i] = [n \in 1..Len(frozen'[i]) |-> frozen'[i][n].sum]
      BY <2>3 DEF Keys, Planned
    <2>5. Planned'[i] \in Seq(AnyContent)
      BY <2>3, <2>4
    <2>6. Planned'[i] # <<>>
      BY <2>3, <2>4, EmptySeq
    <2>7. Planned' = [Planned EXCEPT ![i] = Planned'[i]]
      BY <2>1 DEF Planned
    <2> QED
      BY <1>2, <2>1, <2>2, <2>5, <2>6, <2>7 DEF Deployment!Plan, AnyContent
  <1>4. ASSUME NEW i \in Instances, NEW k \in Slots, Rename(i, k), ~dir[i].present
        PROVE  Deployment!Deploy(i)
    <2>1. /\ req[i][k].staged = Wanted(i) /\ frozen[i] # <<>>
          /\ UNCHANGED frozen
      BY <1>4 DEF Rename, At, DeployInv
    <2>2. /\ \A j \in Instances \ {i} : dir'[j] = dir[j]
          /\ dir'[i].present /\ dir'[i].files = req[i][k].staged
      BY <1>0, <1>4 DEF Rename
    <2>3. Deployed' = [Deployed EXCEPT ![i] = Wanted(i)] /\ Deployed[i] = Nothing
      BY <1>4, <2>1, <2>2 DEF Deployed
    <2>4. Planned[i] # <<>>
      <3>1. frozen[i] \in Seq(Keys) /\ DOMAIN frozen[i] = 1..Len(frozen[i])
            /\ Len(frozen[i]) \in Nat
        BY <1>t DEF TypeOK
      <3>2. Len(frozen[i]) # 0
        BY <2>1, <3>1, EmptySeq
      <3>3. 1 \in DOMAIN Planned[i]
        BY <3>1, <3>2 DEF Planned
      <3> QED
        BY <3>3
    <2> QED
      BY <1>1, <2>1, <2>3, <2>4 DEF Deployment!Deploy, Wanted
  <1>5. ASSUME NEW i \in Instances, RemoveDirectory(i), UNCHANGED frozen
        PROVE  Deployment!Remove(i)
    <2>1. Deployed' = [Deployed EXCEPT ![i] = Nothing]
      BY <1>0, <1>5 DEF RemoveDirectory, NoDirectory, Deployed
    <2> QED
      BY <1>1, <1>5, <2>1 DEF Deployment!Remove
  <1>6. CASE \/ EditDocument \/ BootStart \/ BootCommit \/ Crash \/ AgentRestart
             \/ UNCHANGED vars
             \/ \E l \in Layers : InspectFile(l) \/ \E p \in Paths(l) : EditFile(l, p)
             \/ \E d \in downloads : ReadArchive(d) \/ FinishDownload(d) \/ DownloadBreaks(d)
    <2>1. UNCHANGED <<frozen, dir>>
      BY <1>6 DEF EditDocument, BootStart, BootCommit, Crash, AgentRestart, InspectFile,
            EditFile, ReadArchive, FinishDownload, DownloadBreaks
    <2> QED
      BY <1>1, <1>2, <2>1
  <1>7. ASSUME NEW i \in Instances,
               \/ CancelObsolete(i) \/ GiveUp(i) \/ Retire(i) \/ DeleteContainer(i) \/ Exit(i)
        PROVE  UNCHANGED <<Planned, Deployed>>
    BY <1>1, <1>2, <1>7 DEF CancelObsolete, GiveUp, Retire, DeleteContainer, Exit
  <1>8. ASSUME NEW i \in Instances, NEW k \in Slots,
               \/ ExecuteCreate(i, k) \/ Resolve(i, k) \/ CreateLocked(i, k)
               \/ Start(i, k) \/ StartFails(i, k)
               \/ \E n \in DOMAIN frozen[i] : StartDownload(i, k, n)
               \/ Rename(i, k) /\ dir[i].present
        PROVE  UNCHANGED <<Planned, Deployed>>
    BY <1>1, <1>2, <1>8 DEF ExecuteCreate, Resolve, CreateLocked, Start, StartFails,
          StartDownload, Rename
  <1>9. ASSUME NEW i \in Instances, DeleteDirectory(i)
        PROVE  Deployment!Remove(i)
    BY <1>5, <1>9 DEF DeleteDirectory
  <1>10. ASSUME NEW i \in Instances, NEW k \in Slots, Clear(i, k)
         PROVE  Deployment!Remove(i) \/ UNCHANGED <<Planned, Deployed>>
    BY <1>1, <1>2, <1>5, <1>10 DEF Clear
  <1> QED
    BY <1>3, <1>4, <1>6, <1>7, <1>8, <1>9, <1>10 DEF Next, Deployment!Next

\* The execution side implements Deployments: whatever is edited, retried,
\* interrupted or restarted, a runtime directory holds the layers frozen in the
\* CREATE command of its instance and nothing else.
THEOREM AgentsImplementDeployments == Spec => ImplementsDeployments
  <1>1. Init => DeployInv /\ Deployment!Init
    <2> SUFFICES ASSUME Init PROVE DeployInv /\ Deployment!Init
      OBVIOUS
    <2>1. DeployInv
      BY DEF Init, DeployInv, IdleRequest
    <2>2. Planned = [i \in Instances |-> <<>>]
      BY DEF Init, Planned
    <2>3. Deployed = [i \in Instances |-> Nothing]
      BY DEF Init, Deployed, NoDirectory
    <2> QED
      BY <2>1, <2>2, <2>3 DEF Deployment!Init
  <1>2. TypeInv /\ BootInv /\ DeployInv /\ [Next]_vars => DeployInv'
    BY DeployNext
  <1>3. TypeInv /\ BootInv /\ DeployInv /\ (TypeInv /\ DeployInv)' /\ [Next]_vars
        => [Deployment!Next]_<<Planned, Deployed>>
    BY DeployStep
  <1>4. Spec => [](TypeInv /\ BootInv /\ DeployInv)
    BY <1>1, <1>2, Invariant, PTL DEF Spec
  <1> QED
    BY <1>1, <1>3, <1>4, PTL DEF Spec, ImplementsDeployments, Deployment!Spec
=============================================================================
