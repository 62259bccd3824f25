------------------------------- MODULE Agents -------------------------------
(***************************************************************************)
(* How the files of an instance get from the template directories of the   *)
(* orchestrator into a container: configuration/sync.ts records the        *)
(* checksums of the layers at boot, InstanceController freezes them into a *)
(* CREATE command and calls the agent, TemplateCache downloads and         *)
(* verifies the layers, LocalDockerExecutor materialises them and creates  *)
(* the container.  Files are edited at any time, the orchestrator and the  *)
(* agent restart, and a call the client gave up goes on in the agent.      *)
(*                                                                         *)
(* A checksum is the content it is the hash of.  A layer is a function     *)
(* from its paths to versions; one file is read at a time.  One host.      *)
(***************************************************************************)
EXTENDS Integers, Sequences, SequencesExt, FiniteSets

CONSTANTS
    Instances,      \* ids createWarm may draw
    Documents,      \* the group and variant descriptors an operator may write
    Tree,           \* for each layer the paths of its files, in the order read
    Final,          \* the layer that is the variant of the group
    NumPorts,       \* portEnd - portStart + 1
    Nothing,        \* NULL
    MaxEdits,       \* bound: edits of files and descriptors
    MaxFaults       \* bound: restarts, calls given up, containers that fail

Layers == DOMAIN Tree
Descriptor == 1     \* variant.yml
Slots == 1..2       \* bound: create requests of one instance in the agent

ASSUME BoundsAssumption ==
    NumPorts \in Nat /\ MaxEdits \in Nat /\ MaxFaults \in Nat
ASSUME LayersAssumption ==
    /\ Tree \in Seq(Seq(Nat))
    /\ Final \in Layers
    /\ \A l \in Layers : IsInjective(Tree[l])
ASSUME DocumentsAssumption ==
    \A d \in Documents :
        /\ {d.listed, d.enabled, d.selectable} \subseteq BOOLEAN
        /\ {d.minimum, d.maximum, d.minimumWarm, d.maximumWarm} \subseteq Nat
        /\ d.parents \in Seq(Nat)

VARIABLES
    doc, files,     \* what is on disk: the descriptors, the files of layers
    boot,           \* the orchestrator: down, reading, up; what it has read
    db,             \* server_groups, server_variants, template_layers
    life, cmd,      \* lifecycle_state, state of the CREATE command
    frozen,         \* payload of the CREATE command: ids and checksums
    awaits,         \* the request the orchestrator is waiting for
    req,            \* create requests in the agent
    del,            \* the DELETE request of the instance in the agent
    downloads,      \* TemplateCache.downloads: what has been read so far
    cache,          \* directories below templateCacheRoot
    dir,            \* runtimePath of each instance
    container,      \* the container labelled with the instance
    overlapped,     \* history: two requests of the instance ran at once
    edits, faults

diskVars == <<doc, files, edits>>
rowVars == <<life, cmd, frozen>>
agentVars == <<req, del, downloads, cache, dir, container>>
vars == <<diskVars, boot, db, rowVars, awaits, agentVars, overlapped, faults>>

Paths(l) == Range(Tree[l])
Versions == 0..MaxEdits
Contents(l) == [Paths(l) -> Versions]

AnyContent == UNION {Contents(l) : l \in Layers}

Key(l, sum) == [layer |-> l, sum |-> sum]
Keys == [layer : Layers, sum : AnyContent]

IdleRequest == [pc |-> "idle", staged |-> Nothing]
NoContainer == [port |-> 0, running |-> FALSE, mount |-> "none"]
NoDirectory == [present |-> FALSE, files |-> Nothing]

NothingRead == [l \in Layers |-> <<>>]
Down == [pc |-> "down", doc |-> Nothing, read |-> NothingRead]
EmptyDb == [enabled |-> FALSE, selectable |-> FALSE, minimum |-> 0,
            maximum |-> 0, stack |-> <<>>, runtime |-> Nothing,
            variantSum |-> <<>>, layerSum |-> [l \in Layers |-> Nothing]]

Fault == faults < MaxFaults /\ faults' = faults + 1

Init ==
    /\ doc \in Documents
    /\ files = [l \in Layers |-> [p \in Paths(l) |-> 0]]
    /\ boot = Down
    /\ db = EmptyDb
    /\ life = [i \in Instances |-> "NONE"]
    /\ cmd = [i \in Instances |-> "NONE"]
    /\ frozen = [i \in Instances |-> <<>>]
    /\ awaits = [i \in Instances |-> 0]
    /\ req = [i \in Instances |-> [k \in Slots |-> IdleRequest]]
    /\ del = [i \in Instances |-> "idle"]
    /\ downloads = {}
    /\ cache = {}
    /\ dir = [i \in Instances |-> NoDirectory]
    /\ container = [i \in Instances |-> NoContainer]
    /\ overlapped = [i \in Instances |-> FALSE]
    /\ edits = 0
    /\ faults = 0

\* Every value stays within its columns and directories.
TypeOK ==
    /\ doc \in Documents
    /\ files \in [Layers -> AnyContent]
    /\ \A l \in Layers : files[l] \in [Paths(l) -> 0..edits]
    /\ boot \in [pc : {"down", "reading", "up"}, doc : Documents \cup {Nothing},
                 read : [Layers -> Seq(Versions)]]
    /\ db.stack \in Seq(Layers)
    /\ db.layerSum \in [Layers -> AnyContent \cup {Nothing}]
    /\ life \in [Instances -> {"NONE", "CREATING", "STARTING", "FAILED",
                               "STOPPING", "STOPPED"}]
    /\ cmd \in [Instances -> {"NONE", "PENDING", "RUNNING", "SUCCEEDED",
                              "FAILED", "CANCELLED"}]
    /\ frozen \in [Instances -> Seq(Keys)]
    /\ awaits \in [Instances -> {0} \cup Slots]
    /\ \A i \in Instances, k \in Slots :
          req[i][k].pc \in {"idle", "resolve", "clear", "rename", "lock", "start"}
    /\ del \in [Instances -> {"idle", "directory"}]
    /\ downloads \subseteq [key : Keys, read : Seq(Versions)]
    /\ cache \subseteq [key : Keys, content : AnyContent]
    /\ container \in [Instances -> [port : 0..NumPorts, running : BOOLEAN,
                                    mount : {"none", "data", "lost"}]]
    /\ overlapped \in [Instances -> BOOLEAN]
    /\ edits \in 0..MaxEdits /\ faults \in 0..MaxFaults

-----------------------------------------------------------------------------
(* Edits on disk                                                           *)

EditFile(l, p) ==
    /\ edits < MaxEdits
    /\ edits' = edits + 1
    /\ files' = [files EXCEPT ![l][p] = @ + 1]
    /\ UNCHANGED <<doc, boot, db, rowVars, awaits, agentVars, overlapped,
                   faults>>

EditDocument ==
    /\ edits < MaxEdits
    /\ edits' = edits + 1
    /\ doc' \in Documents \ {doc}
    /\ UNCHANGED <<files, boot, db, rowVars, awaits, agentVars, overlapped,
                   faults>>

-----------------------------------------------------------------------------
(* configuration/sync.ts at boot                                           *)

CapacityLimits(d) ==
    /\ d.maximum >= 1
    /\ d.minimum <= d.maximum
    /\ d.minimumWarm <= d.maximumWarm
    /\ d.maximumWarm <= d.maximum

\* The routing of a hub group: target and maximum players of an instance.
RoutingLimits(d) == d.target >= 1 /\ d.target <= d.players

\* parseGroup: an enabled group has a variant, and its limits agree.
ParseGroup(d) ==
    /\ d.enabled => d.selectable
    /\ CapacityLimits(d)
    /\ RoutingLimits(d)

\* parseVariant: the parents are distinct.
ParseVariant(d) == IsInjective(d.parents)

Stack(d) == d.parents \o <<Final>>

\* mergeRuntime: for each setting the last layer that has it wins.
MergeRuntime(d) ==
    FoldLeft(LAMBDA acc, l : IF d.runtime[l] = Nothing THEN acc
                                                       ELSE d.runtime[l],
             Nothing, Stack(d))

\* loadConfiguration: references exist, inheritance is flat, runtime complete.
LoadConfiguration(d) ==
    d.listed => /\ ParseGroup(d)
                /\ ParseVariant(d)
                /\ Range(d.parents) \subseteq Layers \ {Final}
                /\ MergeRuntime(d) # Nothing

\* effectiveChecksum: the hash of the ids and checksums of the stack.
EffectiveChecksum(stack, sums) ==
    [n \in DOMAIN stack |-> Key(stack[n], sums[stack[n]])]

\* MUTANT of SynchronizeConfiguration: absent groups are left alone.
SynchronizeListed(d, sums) ==
    IF d.listed
    THEN [enabled |-> d.enabled, selectable |-> d.selectable,
          minimum |-> d.minimum, maximum |-> d.maximum, stack |-> Stack(d),
          runtime |-> MergeRuntime(d), layerSum |-> sums,
          variantSum |-> EffectiveChecksum(Stack(d), sums)]
    ELSE [db EXCEPT !.layerSum = sums]

\* synchronizeConfiguration, the transaction: a group that is not in the
\* files is disabled, its variant and layer list stay as they were.
SynchronizeConfiguration(d, sums) ==
    IF d.listed
    THEN [enabled |-> d.enabled, selectable |-> d.selectable,
          minimum |-> d.minimum, maximum |-> d.maximum, stack |-> Stack(d),
          runtime |-> MergeRuntime(d), layerSum |-> sums,
          variantSum |-> EffectiveChecksum(Stack(d), sums)]
    ELSE [db EXCEPT !.enabled = FALSE, !.layerSum = sums]

\* What the files of a layer are when they were read one after the other.
Content(l, read) ==
    [p \in Paths(l) |-> read[CHOOSE n \in DOMAIN Tree[l] : Tree[l][n] = p]]

\* The files of l that inspectTemplateDirectory has still to read.
Unread(l) == Len(boot.read[l]) < Len(Tree[l])

\* The process starts and parses the descriptors.
BootStart ==
    /\ boot.pc = "down"
    /\ boot' = [pc |-> "reading", doc |-> doc, read |-> NothingRead]
    /\ UNCHANGED <<diskVars, db, rowVars, awaits, agentVars, overlapped, faults>>

\* inspectTemplateDirectory reads the next file of the next layer; an edit may
\* fall in between.
InspectFile(l) ==
    /\ boot.pc = "reading"
    /\ Unread(l) /\ \A m \in Layers : m < l => ~Unread(m)
    /\ LET path == Tree[l][Len(boot.read[l]) + 1]
       IN  boot' = [boot EXCEPT !.read[l] = Append(@, files[l][path])]
    /\ UNCHANGED <<diskVars, db, rowVars, awaits, agentVars, overlapped, faults>>

Inspected(l) == Content(l, boot.read[l])

\* The snapshot is committed and the interrupted commands are queued again;
\* a configuration that does not load ends the process.
BootCommit ==
    /\ boot.pc = "reading"
    /\ \A l \in Layers : ~Unread(l)
    /\ IF LoadConfiguration(boot.doc)
       THEN /\ db' = SynchronizeConfiguration(boot.doc,
                         [l \in Layers |-> Inspected(l)])
            /\ cmd' = [i \in Instances |->
                          IF cmd[i] = "RUNNING" THEN "PENDING" ELSE cmd[i]]
            /\ boot' = [Down EXCEPT !.pc = "up"]
       ELSE boot' = Down /\ UNCHANGED <<db, cmd>>
    /\ UNCHANGED <<diskVars, life, frozen, awaits, agentVars, overlapped, faults>>

\* The orchestrator stops or crashes: the calls it waits for go on.
Crash ==
    /\ Fault
    /\ boot.pc = "up"
    /\ boot' = Down
    /\ awaits' = [i \in Instances |-> 0]
    /\ UNCHANGED <<diskVars, db, rowVars, agentVars, overlapped>>

-----------------------------------------------------------------------------
(* InstanceController                                                      *)

Up == boot.pc = "up"

\* The layers of the variant as template_layers has them now.
SelectedLayers == EffectiveChecksum(db.stack, db.layerSum)

CreateWarm(i) ==
    /\ Up /\ db.enabled /\ db.selectable
    /\ life[i] = "NONE"
    /\ db.stack # <<>>
    /\ life' = [life EXCEPT ![i] = "CREATING"]
    /\ cmd' = [cmd EXCEPT ![i] = "PENDING"]
    /\ frozen' = [frozen EXCEPT ![i] = SelectedLayers]
    /\ UNCHANGED <<diskVars, boot, db, awaits, agentVars, overlapped, faults>>

Eligible(i) == life[i] \in {"CREATING", "STARTING"}

\* The layers of the payload still have their checksums in template_layers.
Available(i) ==
    \A n \in DOMAIN frozen[i] :
        db.layerSum[frozen[i][n].layer] = frozen[i][n].sum

Busy(i) == del[i] # "idle" \/ \E k \in Slots : req[i][k].pc # "idle"

\* The worker claims the command and executeCreate calls the agent.
ExecuteCreate(i, k) ==
    /\ Up /\ cmd[i] = "PENDING" /\ Eligible(i)
    /\ Available(i)
    /\ req[i][k].pc = "idle"
    /\ \A m \in Slots : m < k => req[i][m].pc # "idle"
    /\ cmd' = [cmd EXCEPT ![i] = "RUNNING"]
    /\ awaits' = [awaits EXCEPT ![i] = k]
    /\ req' = [req EXCEPT ![i][k].pc = "resolve"]
    /\ overlapped' = [overlapped EXCEPT ![i] = @ \/ Busy(i)]
    /\ UNCHANGED <<diskVars, boot, db, life, frozen, del, downloads, cache, dir,
                   container, faults>>

\* The stored specification is incompatible: OBSOLETE_CREATE.
CancelObsolete(i) ==
    /\ Up /\ cmd[i] = "PENDING" /\ Eligible(i)
    /\ ~Available(i)
    /\ cmd' = [cmd EXCEPT ![i] = "CANCELLED"]
    /\ life' = [life EXCEPT ![i] = "FAILED"]
    /\ UNCHANGED <<diskVars, boot, db, frozen, awaits, agentVars, overlapped,
                   faults>>

\* The request ends; the orchestrator records it if it is still waiting.
Answer(i, k, ok) ==
    /\ req' = [req EXCEPT ![i][k] = IdleRequest]
    /\ IF awaits[i] = k
       THEN /\ awaits' = [awaits EXCEPT ![i] = 0]
            /\ cmd' = [cmd EXCEPT ![i] = IF ok THEN "SUCCEEDED" ELSE "FAILED"]
            /\ life' = [life EXCEPT ![i] =
                           IF ~Eligible(i) THEN @
                           ELSE IF ok THEN "STARTING" ELSE "FAILED"]
       ELSE UNCHANGED <<awaits, cmd, life>>

\* AbortSignal.timeout: HOST_OFFLINE here, and the agent goes on.
GiveUp(i) ==
    /\ Fault
    /\ awaits[i] # 0
    /\ awaits' = [awaits EXCEPT ![i] = 0]
    /\ cmd' = [cmd EXCEPT ![i] = "FAILED"]
    /\ life' = [life EXCEPT ![i] = IF Eligible(i) THEN "FAILED" ELSE @]
    /\ UNCHANGED <<diskVars, boot, db, frozen, agentVars, overlapped>>

\* The reconciler misses the container, or the instance is drained.
Retire(i) ==
    /\ Up /\ life[i] = "STARTING"
    /\ life' = [life EXCEPT ![i] = "FAILED"]
    /\ UNCHANGED <<diskVars, boot, db, cmd, frozen, awaits, agentVars, overlapped,
                   faults>>

-----------------------------------------------------------------------------
(* TemplateCache                                                           *)

Cached(key) == \E c \in cache : c.key = key

CacheContent(key) == (CHOOSE c \in cache : c.key = key).content

Needs(i, key) == \E n \in DOMAIN frozen[i] : frozen[i][n] = key

Waiting(i, k, key) == req[i][k].pc = "resolve" /\ Needs(i, key)

\* The requests that wait for a layer fail together.
LayerFails(key) ==
    LET fails(i, k) == Waiting(i, k, key)
        told(i) == awaits[i] # 0 /\ fails(i, awaits[i])
    IN  /\ req' = [i \in Instances |-> [k \in Slots |->
                      IF fails(i, k) THEN IdleRequest ELSE req[i][k]]]
        /\ awaits' = [i \in Instances |-> IF told(i) THEN 0 ELSE awaits[i]]
        /\ cmd' = [i \in Instances |-> IF told(i) THEN "FAILED" ELSE cmd[i]]
        /\ life' = [i \in Instances |->
                       IF told(i) /\ Eligible(i) THEN "FAILED" ELSE life[i]]

\* ensureLayer, downloadLayer: TemplateArchiveService.open serves the layer
\* only while template_layers has this checksum.
StartDownload(i, k, n) ==
    LET key == frozen[i][n]
    IN  /\ req[i][k].pc = "resolve"
        /\ ~Cached(key)
        /\ \A d \in downloads : d.key # key
        /\ IF Up /\ db.layerSum[key.layer] = key.sum
           THEN /\ downloads' = downloads \cup {[key |-> key, read |-> <<>>]}
                /\ UNCHANGED <<req, awaits, cmd, life>>
           ELSE LayerFails(key) /\ UNCHANGED downloads
        /\ UNCHANGED <<diskVars, boot, db, frozen, del, cache, dir, container,
                       overlapped, faults>>

\* appendDirectory packs the next file as it is on disk now.
ReadArchive(d) ==
    LET order == Tree[d.key.layer]
        path == order[Len(d.read) + 1]
    IN  /\ d \in downloads
        /\ Len(d.read) < Len(order)
        /\ Up
        /\ downloads' = (downloads \ {d}) \cup
               {[d EXCEPT !.read = Append(@, files[d.key.layer][path])]}
        /\ UNCHANGED <<diskVars, boot, db, rowVars, awaits, req, del, cache, dir,
                       container, overlapped, faults>>

Received(d) == Content(d.key.layer, d.read)

\* MUTANT of Verified: the checksum of the archive is not computed again.
NotVerified(d) == TRUE

\* The directory that was unpacked has the checksum that was asked for.
Verified(d) == Received(d) = d.key.sum

\* The staging directory is inspected and renamed, or thrown away.
FinishDownload(d) ==
    /\ d \in downloads
    /\ Len(d.read) = Len(Tree[d.key.layer])
    /\ downloads' = downloads \ {d}
    /\ IF Verified(d)
       THEN /\ cache' = cache \cup {[key |-> d.key, content |-> Received(d)]}
            /\ UNCHANGED <<req, awaits, cmd, life>>
       ELSE LayerFails(d.key) /\ UNCHANGED cache
    /\ UNCHANGED <<diskVars, boot, db, frozen, del, dir, container, overlapped,
                   faults>>

\* The orchestrator that streams the archive has gone away.
DownloadBreaks(d) ==
    /\ d \in downloads
    /\ ~Up
    /\ downloads' = downloads \ {d}
    /\ LayerFails(d.key)
    /\ UNCHANGED <<diskVars, boot, db, frozen, del, cache, dir, container,
                   overlapped, faults>>

-----------------------------------------------------------------------------
(* LocalDockerExecutor.createInstance                                      *)

At(i, k, pc) == req[i][k].pc = pc

Goto(i, k, pc) == req' = [req EXCEPT ![i][k].pc = pc]

FindByInstanceId(i) == container[i].port # 0

\* MUTANT of Reused: the container of an earlier attempt is not looked for.
NeverReused(i) == FALSE

\* CREATE is safe to retry: an earlier attempt may have come this far.
Reused(i) == FindByInstanceId(i)

\* A container mounts the runtime directory when it starts; Docker creates
\* an empty one when there is none.
StartContainer(i) ==
    container' = IF container[i].running THEN container
                 ELSE [container EXCEPT ![i].running = TRUE,
                          ![i].mount = IF dir[i].present THEN "data" ELSE "lost"]

\* cp -r of a layer over what is there, without the descriptor.
CopyOver(there, layer) ==
    LET copied == DOMAIN layer \ {Descriptor}
    IN  [p \in DOMAIN there \cup copied |->
            IF p \in copied THEN layer[p] ELSE there[p]]

\* The layers are copied one over the other into an empty directory.
CopyLayers(stack) ==
    LET copied[n \in 0..Len(stack)] ==
            IF n = 0 THEN [p \in {} |-> Nothing]
                     ELSE CopyOver(copied[n - 1], stack[n])
    IN  copied[Len(stack)]

MaterializeLayers(i) ==
    CopyLayers([n \in DOMAIN frozen[i] |-> CacheContent(frozen[i][n])])

\* All layers are cached.  A container that exists already is started;
\* otherwise the layers are copied into a staging directory of the request
\* (cached layers never change, so the copying interferes with nothing).
Resolve(i, k) ==
    /\ At(i, k, "resolve")
    /\ \A n \in DOMAIN frozen[i] : Cached(frozen[i][n])
    /\ IF Reused(i)
       THEN /\ StartContainer(i)
            /\ Answer(i, k, TRUE)
       ELSE /\ req' = [req EXCEPT ![i][k] =
                          [pc |-> "clear", staged |-> MaterializeLayers(i)]]
            /\ UNCHANGED <<container, awaits, cmd, life>>
    /\ UNCHANGED <<diskVars, boot, db, frozen, del, downloads, cache, dir,
                   overlapped, faults>>

\* rm -r runtimePath: a container that has it mounted loses its files.
RemoveDirectory(i) ==
    /\ dir' = [dir EXCEPT ![i] = NoDirectory]
    /\ container' = [container EXCEPT ![i].mount =
                        IF @ = "data" THEN "lost" ELSE @]

Clear(i, k) ==
    /\ At(i, k, "clear")
    /\ Goto(i, k, "rename")
    /\ IF dir[i].present THEN RemoveDirectory(i) ELSE UNCHANGED <<dir, container>>
    /\ UNCHANGED <<diskVars, boot, db, rowVars, awaits, del, downloads, cache,
                   overlapped, faults>>

\* rename(staging, runtimePath) fails when another request was faster.
Rename(i, k) ==
    /\ At(i, k, "rename")
    /\ IF dir[i].present
       THEN Answer(i, k, FALSE) /\ UNCHANGED dir
       ELSE /\ dir' = [dir EXCEPT ![i] = [present |-> TRUE,
                                         files |-> req[i][k].staged]]
            /\ req' = [req EXCEPT ![i][k] = [IdleRequest EXCEPT !.pc = "lock"]]
            /\ UNCHANGED <<awaits, cmd, life>>
    /\ UNCHANGED <<diskVars, boot, db, frozen, del, downloads, cache, container,
                   overlapped, faults>>

\* MUTANT of UsedPorts: only ports that are bound count.
BoundPorts == {container[i].port : i \in {j \in Instances : container[j].running}}

\* allocatePort: the label of a container counts before its port is bound.
UsedPorts == {container[i].port : i \in Instances}

FreePorts == (1..NumPorts) \ UsedPorts

FirstAvailablePort == CHOOSE p \in FreePorts : \A q \in FreePorts : p <= q

\* withCreationLock: look again, take a port and create the container.
CreateLocked(i, k) ==
    /\ At(i, k, "lock")
    /\ \/ /\ FindByInstanceId(i)
          /\ StartContainer(i)
          /\ Answer(i, k, TRUE)
       \/ /\ ~FindByInstanceId(i)
          /\ FreePorts # {}
          /\ container' = [container EXCEPT ![i] =
                  [port |-> FirstAvailablePort, running |-> FALSE,
                   mount |-> "none"]]
          /\ Goto(i, k, "start")
          /\ UNCHANGED <<awaits, cmd, life>>
       \/ /\ ~FindByInstanceId(i)
          /\ FreePorts = {}
          /\ Answer(i, k, FALSE)
          /\ UNCHANGED container
    /\ UNCHANGED <<diskVars, boot, db, frozen, del, downloads, cache, dir,
                   overlapped, faults>>

\* container.start(); the container may have been deleted in the meantime.
Start(i, k) ==
    /\ At(i, k, "start")
    /\ IF FindByInstanceId(i)
       THEN StartContainer(i) /\ Answer(i, k, TRUE)
       ELSE Answer(i, k, FALSE) /\ UNCHANGED container
    /\ UNCHANGED <<diskVars, boot, db, frozen, del, downloads, cache, dir,
                   overlapped, faults>>

\* It does not start: the unusable container is removed, the directory stays.
StartFails(i, k) ==
    /\ Fault
    /\ At(i, k, "start")
    /\ container' = [container EXCEPT ![i] = NoContainer]
    /\ Answer(i, k, FALSE)
    /\ UNCHANGED <<diskVars, boot, db, frozen, del, downloads, cache, dir,
                   overlapped>>

-----------------------------------------------------------------------------
(* stopAndDelete, orphan cleanup, and what happens to an agent             *)

\* listManagedInstances has the container of an instance that is over.
Orphaned(i) == life[i] = "STOPPED" /\ FindByInstanceId(i)

\* What the DELETE route of the agent removes: the instance the orchestrator
\* gave up, or a container of the list the agent keeps.
Removable(i) == life[i] \in {"FAILED", "STOPPING"} \/ Orphaned(i)

\* deleteInstance or deleteOrphanInstance: first the container.
DeleteContainer(i) ==
    /\ Up /\ del[i] = "idle"
    /\ Removable(i)
    /\ life' = [life EXCEPT ![i] = IF @ = "STOPPED" THEN @ ELSE "STOPPING"]
    /\ container' = [container EXCEPT ![i] = NoContainer]
    /\ del' = [del EXCEPT ![i] = "directory"]
    /\ overlapped' = [overlapped EXCEPT ![i] = @ \/ Busy(i)]
    /\ UNCHANGED <<diskVars, boot, db, cmd, frozen, awaits, req, downloads,
                   cache, dir, faults>>

\* Then its directory; the row is stopped when the orchestrator hears of it.
DeleteDirectory(i) ==
    /\ del[i] = "directory"
    /\ del' = [del EXCEPT ![i] = "idle"]
    /\ RemoveDirectory(i)
    /\ life' = [life EXCEPT ![i] = IF Up THEN "STOPPED" ELSE @]
    /\ UNCHANGED <<diskVars, boot, db, cmd, frozen, awaits, req, downloads,
                   cache, overlapped, faults>>

\* The server in the container exits.
Exit(i) ==
    /\ Fault
    /\ container[i].running
    /\ container' = [container EXCEPT ![i].running = FALSE, ![i].mount = "none"]
    /\ UNCHANGED <<diskVars, boot, db, rowVars, awaits, req, del, downloads,
                   cache, dir, overlapped>>

\* The agent restarts: requests and downloads are gone, the callers that
\* were waiting see the connection fail; disks and containers stay.
AgentRestart ==
    /\ Fault
    /\ req' = [i \in Instances |-> [k \in Slots |-> IdleRequest]]
    /\ del' = [i \in Instances |-> "idle"]
    /\ downloads' = {}
    /\ awaits' = [i \in Instances |-> 0]
    /\ cmd' = [i \in Instances |->
                  IF awaits[i] # 0 THEN "FAILED" ELSE cmd[i]]
    /\ life' = [i \in Instances |->
                  IF awaits[i] # 0 /\ Eligible(i) THEN "FAILED" ELSE life[i]]
    /\ UNCHANGED <<diskVars, boot, db, frozen, cache, dir, container, overlapped>>

-----------------------------------------------------------------------------
Next ==
    \/ \E l \in Layers : \E p \in Paths(l) : EditFile(l, p)
    \/ EditDocument
    \/ BootStart \/ BootCommit \/ Crash \/ AgentRestart
    \/ \E l \in Layers : InspectFile(l)
    \/ \E d \in downloads : ReadArchive(d) \/ FinishDownload(d)
                             \/ DownloadBreaks(d)
    \/ \E i \in Instances :
          \/ CreateWarm(i) \/ CancelObsolete(i) \/ GiveUp(i) \/ Retire(i)
          \/ DeleteContainer(i) \/ DeleteDirectory(i) \/ Exit(i)
          \/ \E k \in Slots :
                \/ ExecuteCreate(i, k) \/ Resolve(i, k) \/ Clear(i, k)
                \/ Rename(i, k) \/ CreateLocked(i, k)
                \/ Start(i, k) \/ StartFails(i, k)
                \/ \E n \in DOMAIN frozen[i] : StartDownload(i, k, n)

Spec == Init /\ [][Next]_vars

-----------------------------------------------------------------------------
(* Properties                                                              *)

\* The layers of a CREATE command as the contents their checksums stand for.
Planned ==
    [i \in Instances |-> [n \in DOMAIN frozen[i] |-> frozen[i][n].sum]]

Deployed ==
    [i \in Instances |-> IF dir[i].present THEN dir[i].files ELSE Nothing]

Deployment == INSTANCE Deployments WITH
    Stacks <- Seq(UNION {Contents(l) : l \in Layers}) \ {<<>>},
    plan <- Planned,
    data <- Deployed

\* Whatever is edited, retried, interrupted or restarted, the runtime
\* directory of an instance holds the layers frozen in its CREATE command and
\* nothing else (createWarm, downloadLayer, materializeLayers, rename).
ImplementsDeployments == Deployment!Spec

\* Two containers never have the same host port, although a port is bound
\* only when its container starts (allocatePort under withCreationLock).
PortsDistinct ==
    \A i, j \in Instances :
        i # j /\ container[i].port # 0 => container[i].port # container[j].port

\* A group that can start instances has a variant whose checksum is that of
\* its layers as they are recorded, and a complete runtime, whatever was
\* added to, removed from or broken in the files between two boots.
SnapshotUsable ==
    db.enabled /\ db.selectable =>
        /\ db.stack # <<>>
        /\ db.runtime # Nothing
        /\ db.minimum <= db.maximum
        /\ db.variantSum = EffectiveChecksum(db.stack, db.layerSum)

\* A running container has its files, unless two requests for its instance
\* were under way in the agent at the same time: sequential retries of
\* CREATE, restarts and deletions never take them away.
RetriesKeepData ==
    \A i \in Instances :
        container[i].running /\ ~overlapped[i] => container[i].mount = "data"
=============================================================================
