------------------------- MODULE VolumeReplicaProofs -------------------------
(***************************************************************************)
(* Theorems about VolumeReplica, for any snapshots, any way the replica    *)
(* came to be, and any number of edits and faults of any kind.  The one on *)
(* the destruction of the dataset assumes that a zfs command reaches a     *)
(* daemon that has imported the pool (~ImportLag).                         *)
(***************************************************************************)
EXTENDS VolumeReplica, TLAPS

Places == {"idle", "pool", "add", "getid", "create", "addstats", "stats", "getip", "setip",
           "capacity", "list", "snapshots", "peers", "write", "fail", "destroy", "finalizer"}
Datasets == [exists : BOOLEAN, quorum : BOOLEAN, ip : BOOLEAN, health : Healths,
             snaps : SUBSET Snap]
Unreported == {"", "Init"}

(* The history agrees with the phase of the CVR, and a copy the worker     *)
(* holds is no older than the report; only a phase that asks for it makes  *)
(* the worker create the dataset.                                          *)
PhaseInv ==
  /\ reported <=> cvr.phase \notin Unreported
  /\ at # "idle" /\ reported => w.phase \notin Unreported
  /\ at = "create" => w.phase \in CreatePhases

(* When the worker is about to remove the finalizer the dataset is gone,   *)
(* and a CVR that is gone has no worker to bring anything back.            *)
GoneInv ==
  /\ at = "finalizer" => ~ds.exists
  /\ cvr.life = "gone" => at = "idle" /\ ~ds.exists
  /\ w.life # "gone"

-----------------------------------------------------------------------------
(* The worker has a copy of a CVR whenever it has none of its own. *)
LEMMA NoCopyType == NoCopy \in CVRs /\ NoCopy.life = "live"
BY DEF NoCopy, NewCVR, CVRs, Phases, CreatePhases

(* The absence of a dataset is a state of one. *)
LEMMA NoDatasetType == NoDataset \in Datasets /\ ~NoDataset.exists
BY DEF NoDataset, Datasets, Healths

(* What the changes to a copy of a CVR leave well formed. *)
LEMMA CopyType ==
  ASSUME NEW obj \in CVRs
  PROVE  /\ \A p \in Phases : [obj EXCEPT !.phase = p] \in CVRs
         /\ \A b \in BOOLEAN : [obj EXCEPT !.id = b] \in CVRs
         /\ \A l \in {"live", "deleting", "gone"} : [obj EXCEPT !.life = l] \in CVRs
         /\ \A a \in {"none", "restore", "completed"} : [obj EXCEPT !.ann = a] \in CVRs
         /\ \A s \in SUBSET Snap : [obj EXCEPT !.snaps = s] \in CVRs /\ [obj EXCEPT !.pending = s] \in CVRs
         /\ \A s \in SUBSET Snap : AddOrDeleteSnapshotListInfo(obj, s) \in CVRs
         /\ ClearPending(obj) \in CVRs
BY Zenon DEF CVRs, AddOrDeleteSnapshotListInfo, ClearPending

(* The phase that the health of a dataset gives is a report. *)
LEMMA MapperType ==
  ASSUME NEW health \in Healths, NEW quorum
  PROVE  ZfsToCvrStatusMapper(health, quorum) \in Phases \ Unreported
BY Zenon DEF Healths, ZfsToCvrStatusMapper, Phases, CreatePhases, Rebuilds, Unreported

(* An edit, a fault or neither: the bound is kept. *)
LEMMA EventType ==
  ASSUME TypeOK, NoEvent \/ \E kind, kinds : Event(kind, kinds)
  PROVE  events' \in 0..MaxEvents
BY ReplicaAssumption DEF TypeOK, NoEvent, Event

(* A zfs command is one of these. *)
LEMMA ZfsType ==
  ASSUME TypeOK, NEW needs, NEW ok, Zfs(needs, ok)
  PROVE  events' \in 0..MaxEvents
BY EventType DEF Zfs, Fault

(* The state of the worker after a step of its program. *)
WorkerType ==
  /\ at \in Places /\ w \in CVRs /\ op \in {"none", "add", "sync", "destroy"}
  /\ fresh \in BOOLEAN /\ listed \subseteq Snap

(* A step of the program keeps the types of the worker's variables. *)
LEMMA GotoType ==
  ASSUME TypeOK, NEW place \in Places, NEW copy \in CVRs, Goto(place, copy)
  PROVE  WorkerType'
<1>1. fresh' \in BOOLEAN
  BY Zenon DEF Goto
<1> QED
  BY <1>1, NoCopyType DEF TypeOK, WorkerType, Goto

(* The steps of the worker keep the types. *)
LEMMA WorkType == ASSUME TypeOK, Work PROVE TypeOK'
<1>t. /\ cvr \in CVRs /\ w \in CVRs /\ ds \in Datasets /\ listed \subseteq Snap /\ peers \subseteq Snap
      /\ events \in 0..MaxEvents /\ cvr.phase \in Phases /\ w.phase \in Phases
      /\ ds.health \in Healths /\ ds.snaps \subseteq Snap /\ w.snaps \subseteq Snap
  BY DEF TypeOK, CVRs, Datasets
<1>p. Places = {"idle", "pool", "add", "getid", "create", "addstats", "stats", "getip", "setip",
                "capacity", "list", "snapshots", "peers", "write", "fail", "destroy", "finalizer"}
  BY DEF Places
<1>h. {"Offline", "DeletionFailed"} \subseteq Phases
  BY DEF Phases
<1>w. ASSUME WorkerType', events' \in 0..MaxEvents, ds' \in Datasets, UNCHANGED <<cvr, reported, Others>>
      PROVE  TypeOK'
  BY <1>w DEF TypeOK, WorkerType, Others, informer, Places, Datasets
<1>1. CASE GetVolumeReplica
  <2>1. events' \in 0..MaxEvents
    BY <1>1, EventType DEF GetVolumeReplica, Fault
  <2>2. WorkerType' /\ queue' \subseteq {"add", "sync", "destroy"}
    <3>1. PICK o \in queue \cup (IF "add" \in queue THEN {UpdateOperation(cvr)} ELSE {}) :
            /\ queue' = queue \ {o}
            /\ \/ at' = "pool" /\ op' = o /\ w' = cvr /\ fresh' = TRUE /\ UNCHANGED listed
               \/ UNCHANGED worker
      BY <1>1 DEF GetVolumeReplica
    <3>2. o \in {"add", "sync", "destroy"}
      BY DEF UpdateOperation, TypeOK
    <3>3. fresh' \in BOOLEAN
      BY <3>1, Zenon DEF TypeOK, worker
    <3> QED
      BY <1>p, <1>t, <3>1, <3>2, <3>3 DEF TypeOK, WorkerType, worker
  <2> QED
    BY <1>1, <2>1, <2>2 DEF GetVolumeReplica, TypeOK, WorkerType, Places, Datasets
<1>2. CASE CVREventHandler
  <2>1. \E place \in Places : Goto(place, w)
    BY <1>2, <1>p DEF CVREventHandler
  <2> QED
    BY <1>2, <1>t, <1>w, <2>1, GotoType DEF CVREventHandler
<1>3. CASE CVRAddEventHandler
  <2>1. \E place \in Places : Goto(place, w) \/ Goto(place, [w EXCEPT !.phase = "Offline"])
    BY <1>3, <1>p, Zenon DEF CVRAddEventHandler
  <2>2. events' \in 0..MaxEvents
    BY <1>3, EventType, ZfsType, Zenon DEF CVRAddEventHandler
  <2>3. initial' \in {"no", "listed", "last"}
    BY <1>3, Zenon DEF CVRAddEventHandler, CheckForInitialImportedPoolVol, TypeOK
  <2>4. WorkerType'
    BY <1>h, <1>t, <2>1, GotoType, CopyType, Zenon
  <2>5. UNCHANGED <<cvr, reported, ds, poolUp, origin, peers, added, cached, queue, imported>>
    BY <1>3, Zenon DEF CVRAddEventHandler, informer
  <2> QED
    BY <2>2, <2>3, <2>4, <2>5 DEF TypeOK, WorkerType, Places, Datasets
<1>4. CASE GetReplicaIDFromZFS
  <2>1. \E place \in Places, ok \in BOOLEAN : Goto(place, [w EXCEPT !.id = ok])
    BY <1>4, <1>p DEF GetReplicaIDFromZFS
  <2>2. events' \in 0..MaxEvents
    BY <1>4, ZfsType DEF GetReplicaIDFromZFS
  <2> QED
    BY <1>4, <1>t, <1>w, <2>1, <2>2, GotoType, CopyType, Zenon DEF GetReplicaIDFromZFS
<1>5. CASE CreateVolumeReplica
  <2> DEFINE obj == [w EXCEPT !.id = w.id \/ w.phase \in {"", "Init"}]
  <2>1. obj \in CVRs
    <3>1. (w.id \/ w.phase \in {"", "Init"}) \in BOOLEAN
      BY Zenon
    <3> QED
      BY <1>t, <3>1, CopyType, Zenon
  <2>2. \E place \in Places : Goto(place, obj)
    BY <1>5, <1>p, Zenon DEF CreateVolumeReplica
  <2>3. events' \in 0..MaxEvents
    BY <1>5, EventType, ZfsType, Zenon DEF CreateVolumeReplica
  <2>4. Build(obj) \in Datasets
    BY Zenon DEF Build, BuildClone, BuildVolume, NoDataset, Datasets, Healths
  <2>5. ds' = ds \/ ds' = Build(obj)
    BY <1>5, Zenon DEF CreateVolumeReplica
  <2> HIDE DEF obj
  <2> QED
    BY <1>5, <1>t, <1>w, <2>1, <2>2, <2>3, <2>4, <2>5, GotoType, Zenon DEF CreateVolumeReplica
<1>6. CASE GetVolumeReplicaStatus \/ GetCVRStatus
  <2>1. ZfsToCvrStatusMapper(ds.health, ds.quorum) \in Phases
    BY <1>t, MapperType
  <2>2. \E place \in Places : \/ Goto(place, w)
                             \/ Goto(place, [w EXCEPT !.phase = ZfsToCvrStatusMapper(ds.health, ds.quorum)])
    BY <1>6, <1>p DEF GetVolumeReplicaStatus, GetCVRStatus, Status
  <2>3. events' \in 0..MaxEvents
    BY <1>6, ZfsType DEF GetVolumeReplicaStatus, GetCVRStatus, Status
  <2> QED
    BY <1>6, <1>t, <1>w, <2>1, <2>2, <2>3, GotoType, CopyType, Zenon DEF GetVolumeReplicaStatus, GetCVRStatus
<1>7. CASE GetTargetIp \/ SetTargetIp
  <2>1. \E place \in Places : Goto(place, w) \/ Goto(place, [w EXCEPT !.ann = "none"])
    BY <1>7, <1>p DEF GetTargetIp, SetTargetIp
  <2>2. events' \in 0..MaxEvents
    BY <1>7, ZfsType DEF GetTargetIp, SetTargetIp
  <2>3. ds' \in Datasets
    <3>1. \A b : [ds EXCEPT !.ip = ds.ip \/ b] \in Datasets
      BY <1>t, Zenon DEF Datasets
    <3> QED
      BY <1>7, <1>t, <3>1 DEF GetTargetIp, SetTargetIp
  <2> QED
    BY <1>7, <1>t, <1>w, <2>1, <2>2, <2>3, GotoType, CopyType, Zenon DEF GetTargetIp, SetTargetIp
<1>8. CASE Capacity \/ GetAndAddPendingSnapshotList
  <2>1. \E place \in Places : Goto(place, w) \/ Goto(place, [w EXCEPT !.pending = peers \ w.snaps])
    BY <1>8, <1>p DEF Capacity, GetAndAddPendingSnapshotList
  <2>2. events' \in 0..MaxEvents
    BY <1>8, ZfsType, EventType DEF Capacity, GetAndAddPendingSnapshotList, Fault
  <2>3. peers \ w.snaps \in SUBSET Snap
    BY <1>t
  <2> QED
    BY <1>8, <1>t, <1>w, <2>1, <2>2, <2>3, GotoType, CopyType, Zenon DEF Capacity, GetAndAddPendingSnapshotList
<1>9. CASE GetSnapshotList
  <2>1. WorkerType'
    BY <1>9, <1>t DEF GetSnapshotList, WorkerType, TypeOK, Places
  <2>2. events' \in 0..MaxEvents
    BY <1>9, ZfsType DEF GetSnapshotList
  <2> QED
    BY <1>9, <1>t, <1>w, <2>1, <2>2 DEF GetSnapshotList
<1>10. CASE GetAndUpdateSnapshotInfo
  <2> DEFINE new == listed \ w.snaps
             obj == AddOrDeleteSnapshotListInfo(w, listed)
  <2>1. \/ Goto("peers", obj) \/ Goto("write", ClearPending(obj))
        \/ \E some \in SUBSET (new \cap ds.snaps) : Goto("write", [w EXCEPT !.snaps = @ \cup some])
    BY <1>10, Zenon DEF GetAndUpdateSnapshotInfo
  <2>2. events' \in 0..MaxEvents
    BY <1>10, ZfsType, EventType DEF GetAndUpdateSnapshotInfo, GetSnapshotInfo
  <2>3. obj \in CVRs /\ ClearPending(obj) \in CVRs
    BY <1>t, CopyType, Zenon
  <2>4. \A some \in SUBSET (new \cap ds.snaps) : [w EXCEPT !.snaps = @ \cup some] \in CVRs
    BY <1>t DEF CVRs
  <2> HIDE DEF obj, new
  <2> QED
    BY <1>10, <1>p, <1>t, <1>w, <2>1, <2>2, <2>3, <2>4, GotoType, Zenon DEF GetAndUpdateSnapshotInfo
<1>11. CASE UpdateCVR
  <2>1. WorkerType'
    BY <1>11, <1>p, <1>t, GotoType, Zenon DEF UpdateCVR
  <2>2. events' \in 0..MaxEvents
    BY <1>11, EventType, Zenon DEF UpdateCVR, Fault
  <2>3. reported' \in BOOLEAN /\ cached' \in BOOLEAN
    BY <1>11, Zenon DEF UpdateCVR, TypeOK
  <2> QED
    BY <1>11, <1>t, <2>1, <2>2, <2>3, Zenon DEF UpdateCVR, TypeOK, WorkerType, Places, Datasets
<1>12. CASE DeleteVolume
  <2>1. \E place \in Places : Goto(place, w) \/ Goto(place, [w EXCEPT !.phase = "DeletionFailed"])
    BY <1>12, <1>p DEF DeleteVolume
  <2>2. events' \in 0..MaxEvents
    BY <1>12, EventType DEF DeleteVolume, Fault
  <2>3. ds' \in Datasets
    <3>1. ds' = ds \/ ds' = NoDataset
      BY <1>12 DEF DeleteVolume
    <3> QED
      BY <1>t, <3>1, NoDatasetType
  <2> QED
    BY <1>12, <1>h, <1>t, <1>w, <2>1, <2>2, <2>3, GotoType, CopyType, Zenon DEF DeleteVolume
<1>13. CASE RemoveFinalizer
  <2>1. Goto("idle", w) \/ Goto("fail", [w EXCEPT !.phase = "DeletionFailed"])
    BY <1>13 DEF RemoveFinalizer
  <2>2. events' \in 0..MaxEvents
    BY <1>13, EventType DEF RemoveFinalizer, Fault
  <2>3. cvr' \in CVRs
    BY <1>13, <1>t, CopyType, Zenon DEF RemoveFinalizer
  <2>4. WorkerType'
    BY <1>h, <1>p, <1>t, <2>1, GotoType, CopyType, Zenon
  <2> QED
    BY <1>13, <2>2, <2>3, <2>4 DEF RemoveFinalizer, TypeOK, WorkerType, Places, Datasets, Others, informer
<1> QED
  BY <1>1, <1>2, <1>3, <1>4, <1>5, <1>6, <1>7, <1>8, <1>9, <1>10, <1>11, <1>12, <1>13 DEF Work

(* The type invariant is inductive. *)
LEMMA TypeStep == TypeOK /\ [Next]_vars => TypeOK'
<1> SUFFICES ASSUME TypeOK, [Next]_vars PROVE TypeOK'
  OBVIOUS
<1>t. /\ cvr \in CVRs /\ w \in CVRs /\ ds \in Datasets /\ peers \subseteq Snap /\ cvr.phase \in Phases
      /\ events \in 0..MaxEvents /\ ds.snaps \subseteq Snap /\ ds.health \in Healths
  BY DEF TypeOK, CVRs, Datasets
<1>d. TypeOK <=> /\ cvr \in CVRs /\ w \in CVRs /\ reported \in BOOLEAN /\ poolUp \in BOOLEAN
                 /\ ds \in Datasets /\ origin \in Origins /\ peers \subseteq Snap
                 /\ added \in BOOLEAN /\ cached \in BOOLEAN
                 /\ queue \subseteq {"add", "sync", "destroy"}
                 /\ imported \in BOOLEAN /\ initial \in {"no", "listed", "last"}
                 /\ WorkerType /\ events \in 0..MaxEvents
  BY DEF TypeOK, WorkerType, Datasets, Places
<1>1. CASE AddFunc
  <2>1. events' \in 0..MaxEvents
    BY <1>1, EventType DEF AddFunc, Fault
  <2>2. /\ reported' \in BOOLEAN /\ added' \in BOOLEAN /\ cached' \in BOOLEAN /\ fresh' \in BOOLEAN
    BY <1>1, Zenon DEF AddFunc, TypeOK
  <2>3. AddPhase(cvr.phase) \in Phases
    BY DEF AddPhase, Phases, CreatePhases
  <2>4. cvr' \in CVRs
    BY <1>1, <1>t, <2>3, CopyType, ZenonT(60) DEF AddFunc
  <2>5. queue' \subseteq {"add", "sync", "destroy"}
    BY <1>1 DEF AddFunc, TypeOK
  <2> QED
    BY <1>1, <2>1, <2>2, <2>4, <2>5 DEF AddFunc, TypeOK
<1>2. CASE UpdateFunc
  BY <1>2 DEF UpdateFunc, UpdateOperation, TypeOK, worker
<1>3. CASE CheckImportedPoolVolume
  <2>1. events' \in 0..MaxEvents
    BY <1>3, EventType DEF CheckImportedPoolVolume, Fault
  <2>2. imported' \in BOOLEAN /\ initial' \in {"no", "listed", "last"}
    BY <1>3, Zenon DEF CheckImportedPoolVolume, TypeOK
  <2> QED
    BY <1>3, <2>1, <2>2 DEF CheckImportedPoolVolume, TypeOK, informer, worker
<1>4. CASE Import
  BY <1>4 DEF Import, TypeOK, informer, worker
<1>5. CASE Work
  BY <1>5, WorkType
<1>6. CASE DeleteCVR \/ CompleteRestore
  <2>1. events' \in 0..MaxEvents
    BY <1>6, EventType DEF DeleteCVR, CompleteRestore, Edit, NoEvent
  <2>2. cvr' \in CVRs
    BY <1>6, <1>t, CopyType, Zenon DEF DeleteCVR, CompleteRestore, WriteByOther
  <2>3. fresh' \in BOOLEAN /\ cached' \in BOOLEAN
    BY <1>6, Zenon DEF DeleteCVR, CompleteRestore, WriteByOther
  <2> QED
    BY <1>6, <2>1, <2>2, <2>3 DEF DeleteCVR, CompleteRestore, WriteByOther, TypeOK
<1>7. CASE TakeSnapshot \/ DeleteSnapshot
  <2>1. events' \in 0..MaxEvents
    BY <1>7, EventType DEF TakeSnapshot, DeleteSnapshot, Edit
  <2>2. \A s \in Snap : [ds EXCEPT !.snaps = @ \cup {s}] \in Datasets /\ [ds EXCEPT !.snaps = @ \ {s}] \in Datasets
    BY <1>t DEF Datasets
  <2>3. ds' \in Datasets /\ peers' \subseteq Snap
    BY <1>7, <1>t, <2>2, Zenon DEF TakeSnapshot, DeleteSnapshot
  <2> QED
    BY <1>7, <1>d, <2>1, <2>3 DEF TakeSnapshot, DeleteSnapshot, TypeOK, informer, worker, Datasets
<1>8. CASE Connect
  <2>1. NextHealth(ds.health) \in Healths
    BY DEF NextHealth, Healths
  <2>2. ds' \in Datasets
    BY <1>8, <1>t, <2>1, Zenon DEF Connect, Datasets
  <2> QED
    BY <1>8, <2>2 DEF Connect, TypeOK, informer, worker, Datasets
<1>9. CASE ContainerRestarts
  <2>1. events' \in 0..MaxEvents
    BY <1>9, EventType DEF ContainerRestarts, Fault
  <2>2. ds' \in Datasets
    BY <1>9, <1>t DEF ContainerRestarts, Datasets, Healths
  <2>3. poolUp' \in BOOLEAN
    BY <1>9, Zenon DEF ContainerRestarts
  <2> QED
    BY <1>9, <2>1, <2>2, <2>3 DEF ContainerRestarts, TypeOK, informer, worker, Datasets
<1>10. CASE ManagerRestarts
  <2>1. events' \in 0..MaxEvents
    BY <1>10, EventType DEF ManagerRestarts, Fault
  <2>2. Offline(cvr) \in CVRs
    BY <1>t, CopyType, Zenon DEF Offline, Phases
  <2>3. cvr' \in CVRs /\ w' \in CVRs /\ ds' \in Datasets
    BY <1>10, <1>t, <2>2, NoCopyType, NoDatasetType DEF ManagerRestarts
  <2>4. poolUp' \in BOOLEAN
    BY <1>10, Zenon DEF ManagerRestarts, TypeOK
  <2> QED
    BY <1>10, <2>1, <2>3, <2>4, Zenon DEF ManagerRestarts, TypeOK, Datasets
<1>11. CASE UNCHANGED vars
  BY <1>11 DEF vars, informer, worker, TypeOK
<1> QED
  BY <1>1, <1>2, <1>3, <1>4, <1>5, <1>6, <1>7, <1>8, <1>9, <1>10, <1>11 DEF Next

-----------------------------------------------------------------------------
(* Every step keeps the history and the phases in agreement. *)
LEMMA PhaseStep == TypeOK /\ PhaseInv /\ [Next]_vars => PhaseInv'
<1> SUFFICES ASSUME TypeOK, PhaseInv, [Next]_vars PROVE PhaseInv'
  OBVIOUS
<1>t. cvr \in CVRs /\ w \in CVRs /\ ds.health \in Healths
  BY DEF TypeOK
<1>e. ASSUME NEW obj \in CVRs
      PROVE  /\ \A p : [obj EXCEPT !.phase = p].phase = p
             /\ \A b : [obj EXCEPT !.id = b].phase = obj.phase
             /\ \A l : [obj EXCEPT !.life = l].phase = obj.phase
             /\ \A a : [obj EXCEPT !.ann = a].phase = obj.phase
             /\ \A s : [obj EXCEPT !.snaps = s].phase = obj.phase
             /\ \A s : [obj EXCEPT !.pending = s].phase = obj.phase
             /\ \A s : AddOrDeleteSnapshotListInfo(obj, s).phase = obj.phase
             /\ ClearPending(obj).phase = obj.phase
  BY <1>e DEF CVRs, AddOrDeleteSnapshotListInfo, ClearPending
(* A step of the program that keeps the phase, or reports one. *)
<1>g. ASSUME UNCHANGED <<cvr, reported>>, at # "idle", NEW place, NEW copy, Goto(place, copy),
             copy.phase = w.phase \/ copy.phase \notin Unreported,
             place = "create" => copy.phase \in CreatePhases
      PROVE  PhaseInv'
  BY <1>g DEF PhaseInv, Goto
<1>1. CASE AddFunc
  <2>1. UNCHANGED <<cvr, reported, at, w>> =>  PhaseInv'
    BY DEF PhaseInv
  <2>2. CASE /\ cvr' = [cvr EXCEPT !.phase = AddPhase(cvr.phase)] /\ UNCHANGED <<at, w>>
             /\ reported' = (reported \/ cvr'.phase = "Recreate")
    <3>1. cvr'.phase = AddPhase(cvr.phase)
      BY <1>e, <1>t, <2>2
    <3>2. /\ cvr.phase \in Unreported => cvr'.phase # "Recreate" /\ cvr'.phase \in Unreported
          /\ cvr.phase \notin Unreported => cvr'.phase = "Recreate" /\ cvr'.phase \notin Unreported
      BY <3>1, Zenon DEF AddPhase, Unreported
    <3>3. reported' <=> reported
      BY <2>2, <3>2, Zenon DEF PhaseInv
    <3> QED
      BY <2>2, <3>2, <3>3, Zenon DEF PhaseInv
  <2> QED
    BY <1>1, <2>1, <2>2 DEF AddFunc
<1>2. CASE \/ UpdateFunc \/ CheckImportedPoolVolume \/ Import \/ TakeSnapshot \/ DeleteSnapshot
           \/ Connect \/ ContainerRestarts \/ UNCHANGED vars
  <2>1. UNCHANGED <<cvr, reported, at, w>>
    BY <1>2 DEF UpdateFunc, CheckImportedPoolVolume, Import, TakeSnapshot, DeleteSnapshot,
                Connect, ContainerRestarts, vars, worker
  <2> QED
    BY <2>1 DEF PhaseInv
<1>3. CASE DeleteCVR \/ CompleteRestore
  <2>1. UNCHANGED <<reported, at, w>>
    BY <1>3 DEF DeleteCVR, CompleteRestore, WriteByOther
  <2>2. (\E l : cvr' = [cvr EXCEPT !.life = l]) \/ (\E a : cvr' = [cvr EXCEPT !.ann = a])
    BY <1>3 DEF DeleteCVR, CompleteRestore, WriteByOther
  <2>3. cvr'.phase = cvr.phase
    BY <1>t, <2>2 DEF CVRs
  <2> QED
    BY <2>1, <2>3 DEF PhaseInv
<1>4. CASE ManagerRestarts
  <2>1. cvr' = Offline(cvr) \/ cvr' = cvr
    BY <1>4 DEF ManagerRestarts
  <2>2. cvr'.phase \in Unreported <=> cvr.phase \in Unreported
    BY <1>e, <1>t, <2>1 DEF Offline, Unreported
  <2>3. at' = "idle" /\ UNCHANGED reported
    BY <1>4 DEF ManagerRestarts
  <2> QED
    BY <2>2, <2>3 DEF PhaseInv
<1>5. CASE GetVolumeReplica
  BY <1>5 DEF GetVolumeReplica, worker, PhaseInv
<1>6. CASE CVREventHandler
  BY <1>6, <1>g DEF CVREventHandler
<1>7. CASE CVRAddEventHandler
  <2>1. [w EXCEPT !.phase = "Offline"].phase \notin Unreported
    BY <1>e, <1>t DEF Unreported
  <2>2. \/ \E place \in {"addstats", "getid"} : Goto(place, w)
        \/ w.phase \in CreatePhases /\ Goto("create", w)
        \/ Goto("fail", [w EXCEPT !.phase = "Offline"])
    BY <1>7, Zenon DEF CVRAddEventHandler
  <2>3. at # "idle" /\ UNCHANGED <<cvr, reported>>
    BY <1>7, Zenon DEF CVRAddEventHandler
  <2> QED
    BY <1>g, <2>1, <2>2, <2>3, Zenon
<1>8. CASE GetReplicaIDFromZFS
  BY <1>8, <1>e, <1>g, <1>t, Zenon DEF GetReplicaIDFromZFS
<1>9. CASE CreateVolumeReplica
  BY <1>9, <1>e, <1>g, <1>t, ZenonT(60) DEF CreateVolumeReplica
<1>10. CASE GetVolumeReplicaStatus \/ GetCVRStatus
  <2> DEFINE phase == ZfsToCvrStatusMapper(ds.health, ds.quorum)
  <2>1. [w EXCEPT !.phase = phase].phase \notin Unreported
    BY <1>e, <1>t, MapperType
  <2>2. Goto("capacity", [w EXCEPT !.phase = phase]) \/ Goto("fail", w) \/ Goto("idle", w)
    BY <1>10 DEF GetVolumeReplicaStatus, GetCVRStatus, Status
  <2>3. at # "idle" /\ UNCHANGED <<cvr, reported>>
    BY <1>10 DEF GetVolumeReplicaStatus, GetCVRStatus
  <2> QED
    BY <1>g, <2>1, <2>2, <2>3, Zenon
<1>11. CASE GetTargetIp \/ SetTargetIp
  BY <1>11, <1>e, <1>g, <1>t, Zenon DEF GetTargetIp, SetTargetIp
<1>12. CASE Capacity \/ GetAndAddPendingSnapshotList
  BY <1>12, <1>e, <1>g, <1>t, Zenon DEF Capacity, GetAndAddPendingSnapshotList
<1>13. CASE GetSnapshotList
  BY <1>13 DEF GetSnapshotList, PhaseInv
<1>14. CASE GetAndUpdateSnapshotInfo
  <2> DEFINE obj == AddOrDeleteSnapshotListInfo(w, listed)
  <2>1. obj \in CVRs
    BY <1>t, CopyType, Zenon DEF TypeOK
  <2>2. obj.phase = w.phase /\ ClearPending(obj).phase = w.phase
    BY <1>e, <1>t, <2>1
  <2>3. \/ Goto("peers", obj) \/ Goto("write", ClearPending(obj))
        \/ \E some : Goto("write", [w EXCEPT !.snaps = @ \cup some])
    BY <1>14, Zenon DEF GetAndUpdateSnapshotInfo
  <2>4. at # "idle" /\ UNCHANGED <<cvr, reported>>
    BY <1>14 DEF GetAndUpdateSnapshotInfo
  <2> HIDE DEF obj
  <2> QED
    BY <1>e, <1>g, <1>t, <2>2, <2>3, <2>4, Zenon
<1>15. CASE UpdateCVR
  <2>1. at # "idle" /\ at' = "idle" /\ at' # "create"
    BY <1>15, Zenon DEF UpdateCVR, Goto
  <2>2. \/ cvr' = w /\ reported' = (reported \/ w.phase \notin Unreported)
        \/ UNCHANGED <<cvr, reported>>
    BY <1>15, Zenon DEF UpdateCVR, Unreported
  <2>3. reported => w.phase \notin Unreported
    BY <2>1 DEF PhaseInv
  <2>4. reported' <=> cvr'.phase \notin Unreported
    <3>1. CASE UNCHANGED <<cvr, reported>>
      BY <3>1 DEF PhaseInv
    <3>2. CASE cvr' = w /\ reported' = (reported \/ w.phase \notin Unreported)
      <4>1. reported' = (w.phase \notin Unreported)
        BY <2>3, <3>2, Zenon
      <4> QED
        BY <3>2, <4>1, Zenon
    <3> QED
      BY <2>2, <3>1, <3>2
  <2> QED
    BY <2>1, <2>4 DEF PhaseInv
<1>16. CASE DeleteVolume
  BY <1>16, <1>e, <1>g, <1>t, ZenonT(60) DEF DeleteVolume, Unreported
<1>17. CASE RemoveFinalizer
  <2>1. [w EXCEPT !.phase = "DeletionFailed"].phase \notin Unreported
    BY <1>e, <1>t DEF Unreported
  <2>2. cvr'.phase = cvr.phase /\ UNCHANGED reported
    <3>1. UNCHANGED reported /\ (cvr' = cvr \/ cvr' = [cvr EXCEPT !.life = "gone"])
      BY <1>17 DEF RemoveFinalizer
    <3> QED
      BY <1>t, <3>1 DEF CVRs
  <2>3. at' = "idle" \/ (at' = "fail" /\ w'.phase \notin Unreported)
    BY <1>17, <2>1, Zenon DEF RemoveFinalizer, Goto
  <2> QED
    BY <2>2, <2>3 DEF PhaseInv
<1> QED
  BY <1>1, <1>2, <1>3, <1>4, <1>5, <1>6, <1>7, <1>8, <1>9, <1>10, <1>11, <1>12, <1>13, <1>14,
     <1>15, <1>16, <1>17
  DEF Next, Work

(* The steps of the worker keep a CVR that is gone at rest. *)
LEMMA GoneWork == ASSUME ~ImportLag, TypeOK, GoneInv, Work PROVE GoneInv'
<1>t. cvr \in CVRs /\ w \in CVRs /\ ds \in Datasets /\ at \in Places
  BY DEF TypeOK, Datasets, Places
(* A step of the program that leaves the dataset alone, or one elsewhere. *)
<1>g. ASSUME at # "idle", UNCHANGED cvr, NEW place, NEW copy, Goto(place, copy),
             copy.life = w.life, place = "finalizer" => ~ds'.exists
      PROVE  GoneInv'
  BY <1>g, NoCopyType DEF GoneInv, Goto
<1>e. /\ \A p : [w EXCEPT !.phase = p].life = w.life
      /\ \A b : [w EXCEPT !.id = b].life = w.life
      /\ \A a : [w EXCEPT !.ann = a].life = w.life
      /\ \A s : [w EXCEPT !.snaps = s].life = w.life
      /\ \A s : [w EXCEPT !.pending = s].life = w.life
      /\ \A s : AddOrDeleteSnapshotListInfo(w, s).life = w.life
      /\ \A s : ClearPending(AddOrDeleteSnapshotListInfo(w, s)).life = w.life
  BY <1>t DEF CVRs, AddOrDeleteSnapshotListInfo, ClearPending
<1>1. CASE GetVolumeReplica
  BY <1>1 DEF GetVolumeReplica, worker, GoneInv
<1>2. CASE CVREventHandler
  BY <1>2, <1>g DEF CVREventHandler
<1>3. CASE CVRAddEventHandler
  <2>1. \/ \E place \in {"addstats", "getid", "create"} : Goto(place, w)
        \/ Goto("fail", [w EXCEPT !.phase = "Offline"])
    BY <1>3, Zenon DEF CVRAddEventHandler
  <2> QED
    BY <1>3, <1>e, <1>g, <2>1, Zenon DEF CVRAddEventHandler
<1>4. CASE GetReplicaIDFromZFS
  BY <1>4, <1>e, <1>g, Zenon DEF GetReplicaIDFromZFS
<1>5. CASE CreateVolumeReplica
  BY <1>5, <1>e, <1>g, Zenon DEF CreateVolumeReplica
<1>6. CASE GetVolumeReplicaStatus \/ GetCVRStatus
  <2>1. \/ \E p : Goto("capacity", [w EXCEPT !.phase = p])
        \/ Goto("fail", w) \/ Goto("idle", w)
    BY <1>6, Zenon DEF GetVolumeReplicaStatus, GetCVRStatus, Status
  <2>2. at # "idle" /\ UNCHANGED cvr
    BY <1>6 DEF GetVolumeReplicaStatus, GetCVRStatus
  <2> QED
    BY <1>e, <1>g, <2>1, <2>2, Zenon
<1>7. CASE GetTargetIp \/ SetTargetIp
  BY <1>7, <1>e, <1>g, Zenon DEF GetTargetIp, SetTargetIp
<1>8. CASE Capacity \/ GetAndAddPendingSnapshotList
  <2>1. \/ \E place \in {"list", "write"} : Goto(place, w)
        \/ \E s : Goto("write", [w EXCEPT !.pending = s])
    BY <1>8, Zenon DEF Capacity, GetAndAddPendingSnapshotList
  <2>2. at # "idle" /\ UNCHANGED cvr
    BY <1>8 DEF Capacity, GetAndAddPendingSnapshotList
  <2> QED
    BY <1>e, <1>g, <2>1, <2>2, Zenon
<1>9. CASE GetSnapshotList
  BY <1>9 DEF GetSnapshotList, GoneInv
<1>10. CASE GetAndUpdateSnapshotInfo
  <2>1. \/ Goto("peers", AddOrDeleteSnapshotListInfo(w, listed))
        \/ Goto("write", ClearPending(AddOrDeleteSnapshotListInfo(w, listed)))
        \/ \E s : Goto("write", [w EXCEPT !.snaps = s])
    BY <1>10, Zenon DEF GetAndUpdateSnapshotInfo
  <2>2. at # "idle" /\ UNCHANGED cvr
    BY <1>10 DEF GetAndUpdateSnapshotInfo
  <2> QED
    BY <1>e, <1>g, <2>1, <2>2, Zenon
<1>11. CASE UpdateCVR
  BY <1>11, NoCopyType, Zenon DEF UpdateCVR, Goto, GoneInv
<1>12. CASE DeleteVolume
  <2>1. CASE ds' = NoDataset /\ Goto("finalizer", w)
    BY <1>12, <1>g, <2>1, NoDatasetType DEF DeleteVolume
  <2>2. CASE Goto("fail", [w EXCEPT !.phase = "DeletionFailed"])
    BY <1>12, <1>e, <1>g, <2>2, Zenon DEF DeleteVolume
  <2> QED
    BY <1>12, <2>1, <2>2 DEF DeleteVolume, Destroyed
<1>13. CASE RemoveFinalizer
  <2>1. at = "finalizer" /\ UNCHANGED ds
    BY <1>13 DEF RemoveFinalizer
  <2>2. CASE cvr' = [cvr EXCEPT !.life = "gone"] /\ Goto("idle", w)
    BY <2>1, <2>2, NoCopyType DEF GoneInv, Goto
  <2>3. CASE UNCHANGED cvr /\ Goto("fail", [w EXCEPT !.phase = "DeletionFailed"])
    BY <1>e, <1>g, <2>1, <2>3, Zenon
  <2> QED
    BY <1>13, <2>2, <2>3 DEF RemoveFinalizer
<1> QED
  BY <1>1, <1>2, <1>3, <1>4, <1>5, <1>6, <1>7, <1>8, <1>9, <1>10, <1>11, <1>12, <1>13 DEF Work

(* So do the informer, the pool's worker and the environment. *)
LEMMA GoneStep == ASSUME ~ImportLag PROVE TypeOK /\ GoneInv /\ [Next]_vars => GoneInv'
<1> SUFFICES ASSUME TypeOK, GoneInv, [Next]_vars PROVE GoneInv'
  OBVIOUS
<1>t. cvr \in CVRs /\ ds \in Datasets
  BY DEF TypeOK, Datasets
<1>1. CASE UpdateFunc \/ CheckImportedPoolVolume \/ Import \/ UNCHANGED vars
  <2>1. UNCHANGED <<cvr, ds, at, w>>
    BY <1>1 DEF UpdateFunc, CheckImportedPoolVolume, Import, vars, worker
  <2> QED
    BY <2>1 DEF GoneInv
<1>2. CASE AddFunc \/ DeleteCVR \/ CompleteRestore
  <2>1. UNCHANGED <<ds, at, w>>
    BY <1>2 DEF AddFunc, DeleteCVR, CompleteRestore, WriteByOther
  <2>2. cvr'.life # "gone"
    <3>1. cvr.life # "gone"
      BY <1>2 DEF AddFunc, DeleteCVR, CompleteRestore
    <3>2. \/ cvr' = cvr \/ (\E p : cvr' = [cvr EXCEPT !.phase = p])
          \/ cvr' = [cvr EXCEPT !.life = "deleting"] \/ (\E a : cvr' = [cvr EXCEPT !.ann = a])
      BY <1>2 DEF AddFunc, DeleteCVR, CompleteRestore, WriteByOther
    <3> QED
      BY <1>t, <3>1, <3>2 DEF CVRs
  <2> QED
    BY <2>1, <2>2 DEF GoneInv
<1>3. CASE TakeSnapshot \/ DeleteSnapshot \/ Connect \/ ContainerRestarts
  <2>1. UNCHANGED <<cvr, at, w>>
    BY <1>3 DEF TakeSnapshot, DeleteSnapshot, Connect, ContainerRestarts, worker
  <2>2. ds'.exists = ds.exists
    BY <1>3, <1>t, Zenon DEF TakeSnapshot, DeleteSnapshot, Connect, ContainerRestarts, Datasets
  <2> QED
    BY <2>1, <2>2 DEF GoneInv
<1>4. CASE ManagerRestarts
  <2>1. cvr' = Offline(cvr) \/ cvr' = cvr
    BY <1>4 DEF ManagerRestarts
  <2>2. cvr'.life # "gone"
    BY <1>4, <1>t, <2>1, Zenon DEF ManagerRestarts, Offline, CVRs
  <2>3. at' = "idle" /\ w' = NoCopy
    BY <1>4 DEF ManagerRestarts
  <2> QED
    BY <2>2, <2>3, NoCopyType DEF GoneInv
<1>5. CASE Work
  BY <1>5, GoneWork
<1> QED
  BY <1>1, <1>2, <1>3, <1>4, <1>5 DEF Next

-----------------------------------------------------------------------------
(* A new CVR, whatever it is made for, satisfies the invariants. *)
LEMMA InvInit == Init => TypeOK /\ PhaseInv /\ GoneInv
<1> SUFFICES ASSUME Init PROVE TypeOK /\ PhaseInv /\ GoneInv
  OBVIOUS
<1>1. PICK how \in Origins : origin = how /\ cvr = NewCVR(how)
  BY DEF Init
<1>2. cvr \in CVRs /\ cvr.life = "live"
  BY <1>1, Zenon DEF NewCVR, CVRs, Phases, CreatePhases
<1>3. cvr.phase \notin Unreported <=> cvr.phase = "Recreate"
  BY <1>1, Zenon DEF NewCVR, Unreported
<1>4. reported \in BOOLEAN /\ (reported <=> cvr.phase = "Recreate")
  BY Zenon DEF Init
<1>5. /\ poolUp \in BOOLEAN /\ added \in BOOLEAN /\ cached \in BOOLEAN
      /\ imported \in BOOLEAN /\ initial \in {"no", "listed", "last"} /\ fresh \in BOOLEAN
  BY Zenon DEF Init
<1>6. TypeOK
  BY <1>1, <1>2, <1>4, <1>5, NoCopyType, NoDatasetType, ReplicaAssumption
  DEF Init, TypeOK, Datasets
<1>7. at = "idle" /\ w = NoCopy
  BY DEF Init
<1> QED
  BY <1>2, <1>3, <1>4, <1>6, <1>7, NoCopyType DEF PhaseInv, GoneInv

(* The types of VolumeReplica are kept by every handler and the worker. *)
THEOREM TypeCorrect == Spec => []TypeOK
BY InvInit, TypeStep, PTL DEF Spec

(* cVREventHandler with QOpDestroy: whatever the worker was about, and    *)
(* however the pool and the manager restart, a CVR goes after its dataset. *)
THEOREM Destruction == ASSUME ~ImportLag PROVE Spec => []GoneIsDestroyed
<1>1. GoneInv => GoneIsDestroyed
  BY DEF GoneInv, GoneIsDestroyed
<1> QED
  BY <1>1, InvInit, GoneStep, TypeCorrect, PTL DEF Spec

(* createVolumeReplica and AddFunc: a replica that was reported before and *)
(* is made again has no say in the quorum of its volume.                   *)
THEOREM Recreation == Spec => RecreatedWithoutQuorum
<1>1. TypeOK /\ PhaseInv /\ [Next]_vars =>
        [~ds.exists /\ ds'.exists /\ reported /\ origin # "clone" => ~ds'.quorum]_vars
  <2> SUFFICES ASSUME TypeOK, PhaseInv, Next, ~ds.exists, ds'.exists, reported, origin # "clone"
               PROVE  ~ds'.quorum
    OBVIOUS
  <2>1. CASE CreateVolumeReplica
    <3> DEFINE obj == [w EXCEPT !.id = w.id \/ w.phase \in {"", "Init"}]
    <3>1. w.phase = "Recreate"
      BY <2>1, Zenon DEF CreateVolumeReplica, PhaseInv, CreatePhases, Unreported
    <3>2. obj.phase = "Recreate"
      BY <3>1 DEF TypeOK, CVRs
    <3>3. ds' = Build(obj)
      BY <2>1, Zenon DEF CreateVolumeReplica
    <3>4. ds' = BuildVolume(obj)
      BY <3>3, Zenon DEF Build
    <3> HIDE DEF obj
    <3> QED
      BY <3>2, <3>4, Zenon DEF BuildVolume, NoDataset
  <2>2. CASE Work /\ ~CreateVolumeReplica
    <3>1. UNCHANGED ds \/ ds' = NoDataset \/ \E b : ds' = [ds EXCEPT !.ip = b]
      BY <2>2, Zenon DEF Work, GetVolumeReplica, CVREventHandler, CVRAddEventHandler, GetReplicaIDFromZFS,
                  GetVolumeReplicaStatus, GetCVRStatus, GetTargetIp, SetTargetIp, Capacity,
                  GetSnapshotList, GetAndUpdateSnapshotInfo, GetAndAddPendingSnapshotList,
                  UpdateCVR, DeleteVolume, RemoveFinalizer
    <3> QED
      BY <3>1, NoDatasetType DEF TypeOK
  <2>3. CASE ~Work
    <3>1. \/ UNCHANGED ds \/ ds' = NoDataset \/ ds' = [ds EXCEPT !.health = "Offline"]
          \/ Connect \/ TakeSnapshot \/ DeleteSnapshot
      BY <2>3, Zenon DEF Next, AddFunc, UpdateFunc, CheckImportedPoolVolume, Import, DeleteCVR,
                  CompleteRestore, ContainerRestarts, ManagerRestarts
    <3>2. CASE Connect \/ TakeSnapshot \/ DeleteSnapshot
      BY <3>2, Zenon DEF Connect, TakeSnapshot, DeleteSnapshot, Present
    <3> QED
      BY <3>1, <3>2, NoDatasetType DEF TypeOK
  <2> QED
    BY <2>1, <2>2, <2>3
<1> QED
  BY <1>1, InvInit, PhaseStep, TypeCorrect, PTL DEF Spec, RecreatedWithoutQuorum
=============================================================================
