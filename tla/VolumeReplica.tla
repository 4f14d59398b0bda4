---------------------------- MODULE VolumeReplica ---------------------------
(***************************************************************************)
(* One replica of a volume on one pool: the CStorVolumeReplica (CVR), the  *)
(* ZFS dataset that holds its data, and the replica controller of the pool *)
(* manager (pkg/controllers/replica-controller), which creates, watches    *)
(* and destroys the dataset with the commands of pkg/volumereplica.        *)
(*                                                                         *)
(* The informer handlers and the one worker interleave; every API call and *)
(* zfs command of the worker is a step of its own, and may fail.  fresh    *)
(* says that nobody else has written the CVR since the worker read it: an  *)
(* Update is refused otherwise.  ZFS, the target that connects to the      *)
(* replica and the peers of the replica are external.                      *)
(***************************************************************************)
EXTENDS Integers, FiniteSets

CONSTANTS
  Snap,       \* the snapshots of the volume
  Origins,    \* how the CVR may have come to be: "new", "scaleup", "restore", "clone"
  ImportLag,  \* a zfs command may reach a daemon that has not imported the pool yet
  EditKinds,  \* what users do
  FaultKinds, \* the kinds of fault that happen
  MaxEvents   \* bound: edits and faults together

ASSUME ReplicaAssumption ==
  /\ IsFiniteSet(Snap)
  /\ Origins \subseteq {"new", "scaleup", "restore", "clone"} /\ Origins # {}
  /\ ImportLag \in BOOLEAN
  /\ EditKinds \subseteq {"snapshot", "unsnapshot", "delete"}
  /\ FaultKinds \subseteq {"call", "add", "zfs", "container", "manager", "pool"}
  /\ MaxEvents \in Nat

VARIABLES
  cvr,      \* the CVR
  reported, \* history: it has had a phase after Init
  ds,       \* the dataset
  poolUp,   \* whether the cstor-pool container has imported the pool
  origin,   \* how the CVR came to be
  peers,    \* the snapshots that the peers of the CVR list
  added,    \* the informer: whether it has handled the CVR since the manager started,
  cached,   \*   and whether the CVR it is to handle is the latest
  queue,    \* the operations in the workqueue
  imported, \* SyncResources.IsImported
  initial,  \* InitialImportedPoolVol: the volume is in it ("listed"), at its end ("last")
            \*   or not ("no")
  at,       \* the worker: where it is,
  op,       \*   the operation,
  w,        \*   its copy of the CVR,
  fresh,    \*   whether that is the latest,
  listed,   \*   and the snapshots that ZFS has listed
  events

informer == <<added, cached, queue>>
worker == <<at, op, w, fresh, listed>>
vars == <<cvr, reported, ds, poolUp, origin, peers, informer, imported, initial, worker, events>>

CreatePhases == {"", "Init", "Recreate"}
Rebuilds == {"Rebuilding", "ReconstructingNewReplica"}
Phases == CreatePhases \cup Rebuilds \cup
          {"Online", "Offline", "Degraded", "NewReplicaDegraded", "DeletionFailed"}
Healths == {"Offline", "Degraded", "Rebuilding", "Healthy"}

NoDataset == [exists |-> FALSE, quorum |-> FALSE, ip |-> FALSE, health |-> "Offline",
              snaps |-> {}]

\* The CVR that createCVR makes: a replica added to a volume that exists has a ReplicaID
\* and the phase Recreate; one that a restore fills has the annotation isRestoreVol.
NewCVR(how) ==
  [life |-> "live",
   phase |-> IF how = "scaleup" THEN "Recreate" ELSE "",
   id |-> how = "scaleup",
   ann |-> IF how = "restore" THEN "restore" ELSE "none",
   snaps |-> {}, pending |-> {}]

NoCopy == NewCVR("new")

Init ==
  /\ \E how \in Origins : origin = how /\ cvr = NewCVR(how)
  /\ reported = (cvr.phase = "Recreate")
  /\ ds = NoDataset
  /\ poolUp = TRUE
  /\ peers = {}
  /\ added = FALSE /\ cached = TRUE /\ queue = {}
  /\ imported = TRUE
  /\ initial = "no"
  /\ at = "idle" /\ op = "none" /\ w = NoCopy /\ fresh = FALSE /\ listed = {}
  /\ events = 0

Event(kind, kinds) ==
  /\ kind \in kinds
  /\ events < MaxEvents
  /\ events' = events + 1

Edit(kind) == Event(kind, EditKinds)
Fault(kind) == Event(kind, FaultKinds)
NoEvent == UNCHANGED events

-----------------------------------------------------------------------------
(* The informer                                                            *)

\* Mutant: the handler takes every CVR for a new one.
AddPhaseInit(phase) == "Init"

\* AddFunc sees every CVR when the manager starts: one with data is to be re-created.
AddPhase(phase) == IF phase \in {"", "Init"} THEN "Init" ELSE "Recreate"

\* AddFunc writes the phase and queues the operation.  When the Update fails the object
\* it returns is empty, and so is the key that is queued.
AddFunc ==
  /\ ~added
  /\ cvr.life # "gone"
  /\ added' = TRUE
  /\ cached' = FALSE
  /\ \/ /\ cached
        /\ NoEvent
        /\ cvr' = [cvr EXCEPT !.phase = AddPhase(cvr.phase)]
        /\ reported' = (reported \/ cvr'.phase = "Recreate")
        /\ queue' = queue \cup {"add"}
        /\ fresh' = FALSE
     \/ /\ IF cached THEN Fault("add") ELSE NoEvent
        /\ UNCHANGED <<cvr, reported, queue, fresh>>
  /\ UNCHANGED <<ds, poolUp, origin, peers, imported, initial, at, op, w, listed>>

\* UpdateFunc: which operation an update of the CVR, or the resync, asks for.
UpdateOperation(obj) == IF obj.life = "deleting" THEN "destroy" ELSE "sync"

\* UpdateFunc, at the latest when the informer resyncs.  An update seen during a pass may as
\* well be seen after it: the workqueue holds an operation once.
UpdateFunc ==
  /\ added
  /\ cvr.life # "gone"
  /\ at = "idle"
  /\ queue = {}
  /\ queue' = {UpdateOperation(cvr)}
  /\ UNCHANGED <<cvr, reported, ds, poolUp, origin, peers, added, cached, imported, initial,
                 worker, events>>

-----------------------------------------------------------------------------
(* The pool's worker, as far as replicas depend on it                      *)

\* CheckImportedPoolVolume, once the pool is there: the volumes it has are noted, unless
\* this process has imported the pool or noted them before.
CheckImportedPoolVolume ==
  /\ poolUp /\ ~imported
  /\ \/ /\ NoEvent
        /\ imported' = TRUE
        /\ initial' \in IF ds.exists THEN {"listed", "last"} ELSE {"no"}
     \/ Fault("zfs") /\ UNCHANGED <<imported, initial>>
  /\ UNCHANGED <<cvr, reported, ds, poolUp, origin, peers, informer, worker>>

\* Import
Import ==
  /\ ~poolUp
  /\ poolUp' = TRUE
  /\ imported' = TRUE
  /\ UNCHANGED <<cvr, reported, ds, origin, peers, informer, initial, worker, events>>

-----------------------------------------------------------------------------
(* The worker: syncHandler and cVREventHandler                             *)

Goto(place, copy) ==
  /\ at' = place
  /\ w' = IF place = "idle" THEN NoCopy ELSE copy
  /\ op' = IF place = "idle" THEN "none" ELSE op
  /\ fresh' = (place # "idle" /\ fresh)
  /\ listed' = IF place = "idle" THEN {} ELSE listed

\* What a worker step leaves alone, apart from the dataset and the CVR.
Others == <<poolUp, origin, peers, informer, imported, initial>>

\* A zfs command succeeds if what it needs is there; otherwise, or by a fault, it fails.
Zfs(needs, ok) ==
  \/ ok /\ needs /\ NoEvent
  \/ ~ok /\ ~needs /\ NoEvent
  \/ ~ok /\ needs /\ Fault("zfs")

Present == poolUp /\ ds.exists

\* syncHandler reads the CVR; one that is gone, or that cannot be read, is dropped.  The
\* queue delays what it is given (AddRateLimited): an update may overtake the add.
GetVolumeReplica ==
  /\ at = "idle"
  /\ \E o \in queue \cup (IF "add" \in queue THEN {UpdateOperation(cvr)} ELSE {}) :
       /\ queue' = queue \ {o}
       /\ \/ /\ cvr.life # "gone" /\ NoEvent
             /\ at' = "pool" /\ op' = o /\ w' = cvr /\ fresh' = TRUE /\ UNCHANGED listed
          \/ /\ IF cvr.life = "gone" THEN NoEvent ELSE Fault("call")
             /\ UNCHANGED worker
  /\ UNCHANGED <<cvr, reported, ds, poolUp, origin, peers, added, cached, imported, initial>>

\* PoolNameHandler looks for the pool a few times.
PoolNameHandler == poolUp

\* cVREventHandler: the pool first, then what the operation and the phase ask for.
CVREventHandler ==
  /\ at = "pool"
  /\ IF ~PoolNameHandler
     THEN Goto("idle", w)
     ELSE Goto(CASE op = "destroy" -> "destroy"
                 [] op = "add" \/ (op = "sync" /\ w.phase \in CreatePhases) -> "add"
                 [] OTHER -> IF w.ann = "completed" THEN "getip" ELSE "stats",
               w)
  /\ UNCHANGED <<cvr, reported, ds, Others, events>>

\* CheckForInitialImportedPoolVol takes what it finds out of a slice that the caller keeps at
\* its old length: the others move up, and the last one stays.
CheckForInitialImportedPoolVol ==
  initial' = IF imported /\ initial = "listed" THEN "no" ELSE initial

\* cVRAddEventHandler: a volume that came with the pool needs no look at ZFS; any other is
\* looked up there, and a failure of the command counts as absence.
CVRAddEventHandler ==
  /\ at = "add"
  /\ CheckForInitialImportedPoolVol
  /\ IF imported /\ initial # "no" /\ w.phase # ""
     THEN NoEvent /\ Goto("addstats", w)
     ELSE \E found \in BOOLEAN :
            /\ Zfs(Present, found)
            /\ CASE found -> Goto(IF w.id THEN "addstats" ELSE "getid", w)
                 [] ~found /\ w.phase \in CreatePhases -> Goto("create", w)
                 [] OTHER -> Goto("fail", [w EXCEPT !.phase = "Offline"])
  /\ UNCHANGED <<cvr, reported, ds, poolUp, origin, peers, informer, imported>>

\* GetReplicaIDFromZFS, for a replica whose dataset was created but whose CVR was not
\* written.
GetReplicaIDFromZFS ==
  /\ at = "getid"
  /\ \E ok \in BOOLEAN :
       Zfs(Present, ok) /\ Goto(IF ok THEN "addstats" ELSE "fail", [w EXCEPT !.id = ok])
  /\ UNCHANGED <<cvr, reported, ds, Others>>

\* The dataset that createVolumeReplica asks for, from scratch (buildVolumeCreateCommand).
\* A replica that holds nothing of a volume with data has no say in its quorum.
BuildVolume(obj) == [NoDataset EXCEPT !.exists = TRUE, !.ip = (obj.ann = "none"),
                                      !.quorum = (obj.phase # "Recreate")]

\* The same as a clone of a snapshot of another volume (buildVolumeCloneCommand).
BuildClone == [NoDataset EXCEPT !.exists = TRUE, !.ip = TRUE, !.quorum = TRUE]

\* CreateVolumeReplica of package volumereplica: zfs create or zfs clone.
Build(obj) == IF origin = "clone" THEN BuildClone ELSE BuildVolume(obj)

\* createVolumeReplica: a new replica gets its ReplicaID, and its dataset is made.
CreateVolumeReplica ==
  /\ at = "create"
  /\ LET obj == [w EXCEPT !.id = w.id \/ w.phase \in {"", "Init"}] IN
     IF ~obj.id
     THEN NoEvent /\ Goto("fail", obj) /\ UNCHANGED ds
     ELSE \E ok \in BOOLEAN :
            /\ Zfs(poolUp /\ ~ds.exists, ok)
            /\ ds' = IF ok THEN Build(obj) ELSE ds
            /\ Goto(IF ok THEN "addstats" ELSE "fail", obj)
  /\ UNCHANGED <<cvr, reported, Others>>

\* ZfsToCvrStatusMapper
ZfsToCvrStatusMapper(health, quorum) ==
  CASE health = "Healthy" -> "Online"
    [] health = "Offline" -> "Offline"
    [] health = "Degraded" -> IF quorum THEN "Degraded" ELSE "NewReplicaDegraded"
    [] health = "Rebuilding" -> IF quorum THEN "Rebuilding" ELSE "ReconstructingNewReplica"

\* Status: zfs stats of the dataset.
Status(ok) ==
  /\ Zfs(Present, ok)
  /\ ok => Goto("capacity", [w EXCEPT !.phase = ZfsToCvrStatusMapper(ds.health, ds.quorum)])

\* getVolumeReplicaStatus: after an add, a failure is written with the phase the CVR has.
GetVolumeReplicaStatus ==
  /\ at = "addstats"
  /\ \E ok \in BOOLEAN : Status(ok) /\ (~ok => Goto("fail", w))
  /\ UNCHANGED <<cvr, reported, ds, Others>>

\* getCVRStatus: in a sync, a failure is not written at all.
GetCVRStatus ==
  /\ at = "stats"
  /\ \E ok \in BOOLEAN : Status(ok) /\ (~ok => Goto("idle", w))
  /\ UNCHANGED <<cvr, reported, ds, Others>>

\* A restore is complete: GetTargetIp.
GetTargetIp ==
  /\ at = "getip"
  /\ \E ok \in BOOLEAN :
       /\ Zfs(Present, ok)
       /\ CASE ~ok -> Goto("idle", w)
            [] ok /\ ds.ip -> Goto("stats", [w EXCEPT !.ann = "none"])
            [] OTHER -> Goto("setip", w)
  /\ UNCHANGED <<cvr, reported, ds, Others>>

\* SetTargetIp
SetTargetIp ==
  /\ at = "setip"
  /\ \E ok \in BOOLEAN :
       /\ Zfs(Present, ok)
       /\ ds' = [ds EXCEPT !.ip = ds.ip \/ ok]
       /\ IF ok THEN Goto("stats", [w EXCEPT !.ann = "none"]) ELSE Goto("idle", w)
  /\ UNCHANGED <<cvr, reported, Others>>

-----------------------------------------------------------------------------
(* The worker: syncCVRStatus                                               *)

\* syncCVRStatus: what fails here is left as it is on the CVR, which is written all the same.
Capacity ==
  /\ at = "capacity"
  /\ \E ok \in BOOLEAN : Zfs(Present, ok) /\ Goto(IF ok THEN "list" ELSE "write", w)
  /\ UNCHANGED <<cvr, reported, ds, Others>>

\* GetSnapshotList: zfs listsnap.
GetSnapshotList ==
  /\ at = "list"
  /\ \E ok \in BOOLEAN :
       /\ Zfs(Present, ok)
       /\ at' = IF ok THEN "snapshots" ELSE "write"
       /\ listed' = IF ok THEN ds.snaps ELSE {}
  /\ UNCHANGED <<cvr, reported, ds, Others, op, w, fresh>>

\* Mutant: a snapshot that ZFS does not have any more stays listed.
AddSnapshotListInfo(obj, snaps) ==
  [obj EXCEPT !.snaps = @ \cup snaps, !.pending = @ \ snaps]

\* addOrDeleteSnapshotListInfo, when every new snapshot could be looked at.
AddOrDeleteSnapshotListInfo(obj, snaps) ==
  [obj EXCEPT !.snaps = snaps, !.pending = @ \ snaps]

\* A replica that is whole awaits no snapshot.
ClearPending(obj) == IF obj.phase = "Online" THEN [obj EXCEPT !.pending = {}] ELSE obj

\* getSnapshotInfo of every one of the snapshots that are new to the CVR.
GetSnapshotInfo(new, ok) ==
  IF new = {} THEN ok /\ NoEvent ELSE Zfs(poolUp /\ new \subseteq ds.snaps, ok)

\* GetAndUpdateSnapshotInfo: one listed snapshot that has gone since, and nothing but the
\* ones looked at before it is recorded.
GetAndUpdateSnapshotInfo ==
  /\ at = "snapshots"
  /\ LET new == listed \ w.snaps IN
     \E ok \in BOOLEAN :
       /\ GetSnapshotInfo(new, ok)
       /\ IF ok
          THEN LET obj == AddOrDeleteSnapshotListInfo(w, listed) IN
               IF obj.phase \in Rebuilds
               THEN Goto("peers", obj)
               ELSE Goto("write", ClearPending(obj))
          ELSE \E some \in SUBSET (new \cap ds.snaps) :
                 some # new /\ Goto("write", [w EXCEPT !.snaps = @ \cup some])
  /\ UNCHANGED <<cvr, reported, ds, Others>>

\* getAndAddPendingSnapshotList: a replica under rebuild awaits what its peers have.
GetAndAddPendingSnapshotList ==
  /\ at = "peers"
  /\ \/ NoEvent /\ Goto("write", [w EXCEPT !.pending = peers \ w.snaps])
     \/ Fault("call") /\ Goto("write", w)
  /\ UNCHANGED <<cvr, reported, ds, Others>>

\* The CVR is written: after a sync, or with the phase that a failure leaves it.  An empty
\* phase is not written.
UpdateCVR ==
  /\ at \in {"write", "fail"}
  /\ \/ /\ fresh /\ w.phase # "" /\ NoEvent
        /\ cvr' = w
        /\ reported' = (reported \/ w.phase \notin {"", "Init"})
        /\ cached' = FALSE
     \/ /\ IF fresh /\ w.phase # "" THEN Fault("call") ELSE NoEvent
        /\ UNCHANGED <<cvr, reported, cached>>
  /\ Goto("idle", w)
  /\ UNCHANGED <<ds, poolUp, origin, peers, added, queue, imported, initial>>

-----------------------------------------------------------------------------
(* The worker: the CVR has been deleted                                    *)

\* Mutant: a failure of the command is taken for success.
DestroyedAnyway(gone) == gone = TRUE

\* DeleteVolume: whether zfs destroy has succeeded, or has found no such dataset.
Destroyed(gone) ==
  gone = (poolUp \/ ImportLag)

DeleteVolume ==
  /\ at = "destroy"
  /\ \/ \E gone \in BOOLEAN :
          /\ Destroyed(gone) /\ NoEvent
          /\ ds' = IF poolUp THEN NoDataset ELSE ds
          /\ Goto(IF gone THEN "finalizer" ELSE "fail",
                  IF gone THEN w ELSE [w EXCEPT !.phase = "DeletionFailed"])
     \/ /\ Fault("zfs")
        /\ Goto("fail", [w EXCEPT !.phase = "DeletionFailed"])
        /\ UNCHANGED ds
  /\ UNCHANGED <<cvr, reported, Others>>

\* removeFinalizer, a patch.
RemoveFinalizer ==
  /\ at = "finalizer"
  /\ \/ NoEvent /\ cvr' = [cvr EXCEPT !.life = "gone"] /\ Goto("idle", w)
     \/ /\ Fault("call")
        /\ UNCHANGED cvr
        /\ Goto("fail", [w EXCEPT !.phase = "DeletionFailed"])
  /\ UNCHANGED <<reported, ds, Others>>

-----------------------------------------------------------------------------
(* The environment                                                         *)

\* Another client writes the CVR.
WriteByOther(obj) ==
  /\ cvr' = obj
  /\ fresh' = FALSE
  /\ cached' = FALSE
  /\ UNCHANGED <<reported, origin, added, queue, imported, initial, at, op, w, listed>>

DeleteCVR ==
  /\ cvr.life = "live"
  /\ Edit("delete")
  /\ WriteByOther([cvr EXCEPT !.life = "deleting"])
  /\ UNCHANGED <<ds, poolUp, peers>>

\* The data has been received: the client of the restore says so on the CVR.
CompleteRestore ==
  /\ cvr.life = "live" /\ cvr.ann = "restore" /\ Present
  /\ WriteByOther([cvr EXCEPT !.ann = "completed"])
  /\ UNCHANGED <<ds, poolUp, peers, events>>

\* The target takes or deletes a snapshot on the replicas that are connected.
TakeSnapshot ==
  /\ Edit("snapshot")
  /\ \E s \in Snap \ peers :
       /\ peers' = peers \cup {s}
       /\ ds' = IF Present /\ ds.health = "Healthy" THEN [ds EXCEPT !.snaps = @ \cup {s}] ELSE ds
  /\ UNCHANGED <<cvr, reported, poolUp, origin, informer, imported, initial, worker>>

DeleteSnapshot ==
  /\ Edit("unsnapshot")
  /\ \E s \in peers :
       /\ peers' = peers \ {s}
       /\ ds' = IF Present /\ ds.health # "Offline" THEN [ds EXCEPT !.snaps = @ \ {s}] ELSE ds
  /\ UNCHANGED <<cvr, reported, poolUp, origin, informer, imported, initial, worker>>

\* The replica connects to the target and catches up with its peers.
NextHealth(health) == CASE health = "Offline" -> "Degraded"
                        [] health = "Degraded" -> "Rebuilding"
                        [] OTHER -> "Healthy"

Connect ==
  /\ Present /\ ds.ip /\ ds.health # "Healthy"
  /\ LET to == NextHealth(ds.health) IN
     ds' = [ds EXCEPT !.health = to,
                      !.quorum = ds.quorum \/ to = "Healthy",
                      !.snaps = IF to = "Healthy" THEN peers ELSE @]
  /\ UNCHANGED <<cvr, reported, poolUp, origin, peers, informer, imported, initial, worker, events>>

ContainerRestarts ==
  /\ poolUp
  /\ Fault("container")
  /\ poolUp' = FALSE
  /\ ds' = [ds EXCEPT !.health = "Offline"]
  /\ UNCHANGED <<cvr, reported, origin, peers, informer, imported, initial, worker>>

\* The pool is re-created, on other disks, and the manager with it.
\* markCVRStatusToOffline comes first if the manager ends in good order.
Offline(obj) == IF obj.phase \in {"", "Init"} THEN obj ELSE [obj EXCEPT !.phase = "Offline"]

ManagerRestarts ==
  /\ cvr.life # "gone"
  /\ \E inOrder \in BOOLEAN : cvr' = IF inOrder THEN Offline(cvr) ELSE cvr
  /\ \/ Fault("manager") /\ UNCHANGED <<poolUp, ds>>
     \/ Fault("pool") /\ poolUp' = TRUE /\ ds' = NoDataset
  /\ added' = FALSE /\ cached' = TRUE /\ queue' = {}
  /\ imported' = FALSE /\ initial' = "no"
  /\ at' = "idle" /\ op' = "none" /\ w' = NoCopy /\ fresh' = FALSE /\ listed' = {}
  /\ UNCHANGED <<reported, origin, peers>>

-----------------------------------------------------------------------------
Work ==
  \/ GetVolumeReplica \/ CVREventHandler \/ CVRAddEventHandler \/ GetReplicaIDFromZFS
  \/ CreateVolumeReplica \/ GetVolumeReplicaStatus \/ GetCVRStatus \/ GetTargetIp \/ SetTargetIp
  \/ Capacity \/ GetSnapshotList \/ GetAndUpdateSnapshotInfo \/ GetAndAddPendingSnapshotList \/ UpdateCVR
  \/ DeleteVolume \/ RemoveFinalizer

Next ==
  \/ AddFunc \/ UpdateFunc \/ CheckImportedPoolVolume \/ Import \/ Work
  \/ DeleteCVR \/ CompleteRestore \/ TakeSnapshot \/ DeleteSnapshot \/ Connect
  \/ ContainerRestarts \/ ManagerRestarts

Spec == Init /\ [][Next]_vars

\* Informer, resync and worker run for ever; the pool is imported, the target reconnects,
\* and a restore ends.
FairSpec ==
  /\ Spec
  /\ WF_vars(AddFunc) /\ WF_vars(UpdateFunc) /\ WF_vars(Work)
  /\ WF_vars(CheckImportedPoolVolume) /\ WF_vars(Import)
  /\ WF_vars(Connect) /\ WF_vars(CompleteRestore)

-----------------------------------------------------------------------------
(* Properties                                                              *)

CVRs == [life : {"live", "deleting", "gone"}, phase : Phases, id : BOOLEAN,
         ann : {"none", "restore", "completed"}, snaps : SUBSET Snap, pending : SUBSET Snap]

\* The state of the replica and of the worker.  Only a snapshot of the volume is listed, and
\* a worker at work on an add has a phase that AddFunc or the creation of the CVR gave it.
TypeOK ==
  /\ cvr \in CVRs /\ w \in CVRs
  /\ reported \in BOOLEAN /\ poolUp \in BOOLEAN
  /\ ds \in [exists : BOOLEAN, quorum : BOOLEAN, ip : BOOLEAN, health : Healths,
             snaps : SUBSET Snap]
  /\ origin \in Origins
  /\ peers \subseteq Snap /\ listed \subseteq Snap
  /\ added \in BOOLEAN /\ cached \in BOOLEAN /\ fresh \in BOOLEAN
  /\ queue \subseteq {"add", "sync", "destroy"}
  /\ imported \in BOOLEAN /\ initial \in {"no", "listed", "last"}
  /\ op \in {"none", "add", "sync", "destroy"}
  /\ at \in {"idle", "pool", "add", "getid", "create", "addstats", "stats", "getip", "setip",
             "capacity", "list", "snapshots", "peers", "write", "fail", "destroy", "finalizer"}
  /\ events \in 0..MaxEvents

\* A replica whose CVR was ever reported beyond Init comes back empty when its pool is
\* re-created: its dataset is then made with quorum=off (createVolumeReplica, AddFunc), so
\* that it takes no part in the consistency of the volume until it is rebuilt.  Clones are
\* the exception: buildVolumeCloneCommand knows quorum=on only.
RecreatedWithoutQuorum ==
  [][~ds.exists /\ ds'.exists /\ reported /\ origin # "clone" => ~ds'.quorum]_vars

\* A CVR goes only when its dataset has been destroyed, whatever the manager was doing
\* (cVREventHandler, QOpDestroy): an add that comes late is not the last word.
GoneIsDestroyed ==
  cvr.life = "gone" => ~ds.exists

\* A replica that has lost its dataset and has no ReplicaID is not created again.
Unnamed == reported /\ ~cvr.id /\ ~ds.exists

\* In the end a CVR that was deleted is gone (QOpDestroy; DeletionFailed is retried by the
\* resync), and any other has its replica and tells the truth about it: its phase, its
\* snapshots, nothing pending once it is whole (syncHandler, GetAndUpdateSnapshotInfo), and
\* a replica that is not under restore is connected to the target (buildVolumeCreateCommand,
\* GetTargetIp), the annotation of a completed restore being dropped.  The exception is a
\* replica whose ReplicaID was never recorded because the write after its creation failed and
\* the manager restarted.
CVRFollowsReplica ==
  <>[](/\ cvr.life # "deleting"
       /\ cvr.life = "live" /\ ~Unnamed =>
            /\ ds.exists
            /\ cvr.phase = ZfsToCvrStatusMapper(ds.health, ds.quorum)
            /\ cvr.snaps = ds.snaps
            /\ cvr.phase = "Online" => cvr.pending = {}
            /\ cvr.ann # "completed"
            /\ cvr.ann = "none" => ds.ip)
=============================================================================
