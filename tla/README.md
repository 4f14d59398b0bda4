# Verification of the cStor operators

TLA+ models of the cStor control plane (`src/`), model-checked with TLC; the
safety of most of them is also proved with TLAPS, for all values of the
constants. `PROJECT.json` maps each definition to
the lines it models, and lists components, runs, mutants, hazards and theorems.

## The system

Users edit custom resources in etcd, and controllers carry them out. Every
controller may act on a stale copy, fail between two calls, and be restarted.

| Part | Code | Talks to |
|---|---|---|
| CSPC operator | `pkg/controllers/cspc-controller`, `pkg/cspc/algorithm` | CSPC, CSPI, block devices and their claims |
| Pool manager, one per pool | `pkg/controllers/{cspi,replica,backup,restore}-controller`, `pkg/pool`, `pkg/volumereplica`, `pkg/zcmd` | CSPI, CVR, backups and restores, zpool and zfs |
| CVC operator | `pkg/controllers/cstorvolumeconfig`, `pkg/server`, `pkg/snapshot` | CVC, CV, CVR, PDB, target Deployment and Service; REST for backups |
| Volume manager, in the target pod | `pkg/controllers/volume-mgmt`, `pkg/volume-rpc` | CV, `istgt.conf`, the iSCSI target istgt |
| Admission server | `pkg/webhook`, `cmd/webhook` | edits of CSPC, CVC, PVC and the namespace |

CSPC = CStorPoolCluster, CSPI = CStorPoolInstance, CVC = CStorVolumeConfig,
CV = CStorVolume, CVR = CStorVolumeReplica, PDB = PodDisruptionBudget.

The CSPC and the CVC operator run two workers each. A work queue never gives one
key to two workers, so one volume or one cluster meets one worker at a time.
Pool and volume managers run one worker per controller. The target server of the
volume manager serves istgt in its own goroutine. Informers resync every 30 s.

## The modules

| Module | Contents | Run |
|---|---|---|
| `VolumeResize` | capacity of one volume: user, CVC worker, volume manager, istgt | `resize` |
| `VolumeExpansion` | what a CVC promises about its capacity (abstract) | `resize` |
| `VolumeScale` | replicas of one volume: CVC webhook, CVC worker, volume manager, target server, replicas | `scale_restarts`, `scale_live` |
| `VolumeProvision` | several volumes from request to deletion under two CVC workers: placement, clones, shared PDBs, policies | `provision`, `provision_live` |
| `PoolCluster` | CSPCs: node and device selection, claims, CSPIs and Deployments, scaling, node renames, finalizers | `cluster`, `cluster_live` |
| `PoolInstance` | one CSPI and its zpool, with the webhook and the CSPC operator that replace and add devices | `pool` |
| `VolumeReplica` | one CVR and its dataset: informer, queue, handlers, restarts | `replica` |
| `VolumeBackup`, `VolumeRestore` | the backups of one schedule and a restore: REST server and pool managers | `backup` |
| `CommandLine`, `ZpoolCommands`, `ZfsCommands`, `ZCommands` | the zpool and zfs command builders, and how the commands read their lines | `commands` |
| `AdmissionServer` | start and upgrade of the admission pods, removal of the namespace, deletion of a PVC | `admission` |
| `VolumeResizeProofs`, `VolumeProvisionProofs`, `VolumeReplicaProofs`, `VolumeBackupProofs`, `PoolInstanceProofs`, `PoolReplacementProofs`, `AdmissionServerProofs`, `VolumeScaleProofs` | theorems about the modules they are named after; the two on pools are about `PoolInstance` | |

`MC...` modules give the constants their values; each `.cfg` names the bounds.

**Conventions.** An action is the code between two calls to the API server, to
istgt, to zpool or zfs, or to the file system. An Update succeeds only on the
version that was read: either an `Update` compares the whole record (volumes,
admission server), or a flag `fresh` says that nobody else has written (pools).
A worker holds its copy of an object and changes it in place as the code does,
so that an ignored error leaves a changed object behind. Restarts empty what is
in memory. What is not in this repository (istgt, zpool, zfs, the node disk
manager NDM, the garbage collector, the API types) is modelled from how the code
uses it and is marked external in the map. Definitions whose comment starts with
"Mutant", "Mutation" or "A plausible slip" are altered forms of the definition
that follows; the specifications do not use them.

**VolumeResize.** `cvc`, `cvcCache`, `cv` are the objects and the informer's
copy, `opCVC` and `vmCV` the copies of the two workers, `conf` and `target` the
size in `istgt.conf` and the size exported.

**VolumeScale.** The CVC's two pool lists, the CV's factors and known replicas, a
CVR per pool, PDBs, `istgt.conf` and istgt. It starts when the CVRs exist and the
target pod is about to start. `Discipline` names what users keep to beyond what
the webhook enforces, following `docs/tutorial/volumes/migration.md`: one edit
after the other (`settled`), one pool added at a time (`one`), a removed replica
gone before the next edit (`gone`), additions (`ready`) and removals (`joined`)
only when all replicas are Healthy. A request that istgt has hung up on is served
on in its own goroutine and moves to `late`, where it stays on record.

**VolumeProvision.** Per volume the step of `createVolumeOperation`,
`syncPolicySpec` or `deleteCVC` its worker is at, and the objects made so far.
`generation` counts the edits of a CVC's spec, `labelled` is the generation that
its hash label was written for; no worker reads either.

**PoolCluster.** `w[c]` is the pass over CSPC `c`. Two simplifications of time:
the loop that creates missing Deployments and the one that syncs CSPIs are single
steps, and a CSPI vanishes together with its Deployment. `Patient` says that
pools are added, removed and deleted only when the spec has been realised; edits
follow renamed nodes.

**PoolInstance.** Only data groups. An edit is one replacement or one added
group, and compression changes once. A CSPI of a migrated pool starts with an
empty phase. `BlankVdev` says what the look-up of a vdev by an empty path finds, in
a library outside this repository.

**VolumeReplica.** `origin` says how the replica came about: new, scaled up,
restored or cloned. The snapshots of the peers' CVRs are the set `peers`. The
source snapshot of a clone is assumed present. A queued update may overtake an
add. `initial` is the replica's entry in the list of volumes noted at import; taking
it out shifts the caller's slice, so that the last entry stays. `zfs destroy -R` of
dependents is left out.

**VolumeBackup, VolumeRestore.** The client sends one request at a time with
unique names. A pool older than 2.2.0 is served through v1alpha1 resources; its
manager is not in this repository and is taken to run the same protocol. The
Get and Update of the record of completed backups are one step. A local backup
is its snapshot alone. The two controllers of a manager share only the process,
so a behaviour of the run has either backups or a restore (`Together = FALSE`).
Left out: the GET of a finished backup, the DELETE of one that does not exist,
and the v1alpha1 forms of a restore.

**ZCommands.** A line is a sequence of atoms, so that a missing space shows.
`Read` is the shell and the command's option parser, `Meant` what the object
asks for. `Validate` wraps a nil error and so never refuses.

**AdmissionServer.** A certificate is the identity of its CA. A PVC stands for
one outside `kube-system` and `kube-public`. Objects of earlier releases are
there at first, their pods are not. `ns` follows a removal of the namespace: the
request is `asked` of a pod, whose handler deletes the configuration and has
`agreed` or refuses; the API server then goes on (`closing`) or has `dropped` it. The branch of `addNSWithDeleteRule` for
releases before 2.5.0 is dead: configurations before 2.8.0 are deleted.

## The runs

All pass. Every property has a mutant of the code that TLC finds to violate it.

| Run | Distinct states | Shows |
|---|---|---|
| `resize` | 38 k | what the CVC announces is in `istgt.conf`; resizes do not overlap; no capacity shrinks; `VolumeExpansion` is implemented; every expansion completes |
| `scale_restarts` | 350 k | no replica is deleted that CV, file or target counts; quorums before and after a change meet; only a requested replica leaves; a volume at rest has its PDB |
| `scale_live` | 32 k | an added pool gets a replica that the target admits |
| `provision` | 499 k | no attempt places more replicas than asked; Bound means complete; clones stand beside their source |
| `provision_live` | 19 k | a requested volume is provisioned; a hash label written for the present spec means that the Deployment has its policy; nothing of a deleted volume stays |
| `pool` | 73 k | a reported pool is never created anew; a device leaves only when no longer named, and keeps its claim until its successor is in place; the pool follows the spec; a deleted CSPI goes |
| `replica` | 205 k | a CVR goes only after its dataset; a lost dataset comes back without quorum; the CVR ends up true and its replica connected |
| `cluster` | 572 k | no device is in two pools; a pool's claims outlive it; a CSPC that is gone leaves nothing |
| `cluster_live` | 104 k | pools, Deployments and status follow the spec; no pool is deleted that the stored spec asks for; a deleted CSPC goes |
| `backup` | 130 k | Done means transferred; the base of the next backup exists; outcomes stay; every request ends |
| `commands` | 4 k | each command line is read as what was set |
| `admission` | 73 k | every server is trusted and registered, if no removal was dropped; no PVC with a clone goes; a removed namespace leaves no configuration |

**Bounds.** Faults and edits are bounded, and may strike at any step.

| Run | Instance | Why it is enough to be interesting |
|---|---|---|
| `resize` | three capacities, three faults | a second expansion meets the first |
| `scale_restarts` | one to three replicas on three pools, three edits, one fault | three replicas are the least for a highly available volume; a pool can leave, come back and leave. The pools are alike: symmetry |
| `scale_live` | two pools, two edits, two faults | up and down again |
| `provision` | a volume of two replicas and a clone of one, three pools, one fault or edit of the policy object | both workers are busy; the clone has a choice of pools |
| `provision_live` | one volume of three replicas, three edits between two policies, two faults | it needs a PDB; an edit is taken back and made again around failed attempts |
| `pool` | a mirror of two out of four devices, two edits or faults | one device replaced, or a group added, with a fault in between |
| `replica` | four origins, one snapshot, two edits or faults | a loss of the pool and a failed write |
| `cluster` | two CSPCs wanting the devices of one node, two edits or faults | the workers race for them; a pool is added after its node was renamed; a call fails during a deletion. The clusters are alike: symmetry |
| `cluster_live` | one CSPC on two nodes, two edits or faults | an edit meets a failure |
| `backup` | two pools, two snapshots, five requests or faults | an incremental backup with a failure and a deletion |
| `commands` | every builder, lists of two, any order of calls | adjacent elements of a list |
| `admission` | two pods, three earlier releases, two faults, two removals | pods race on each kind of upgrade; a removal is refused or dropped before the next |

A sequence that needs more faults than its bound is not covered. With the bound
on edits and faults raised by one (`backup` by two, `resize` also by a fourth
capacity, `provision_live` also by a fourth edit) `resize`, both provisioning
runs, `pool`, `replica`, `cluster`, `backup` and `admission` still pass, in up to
3.8 million states; `scale_restarts` and `cluster_live` do not, for the reasons
given below. Runs whose system may come to rest (a volume with its edits used up, a deleted pool) do not
check for deadlock; `resize`, `commands` and `admission` do.

Each module has a type invariant `TypeOK`, except `ZCommands`. Only that of
`VolumeResize` is checked by a run. Those of `VolumeProvision`, `VolumeReplica`,
`VolumeBackup`, `VolumeScale`, `PoolInstance` and `AdmissionServer` are proved as part of the
inductive invariants; the others hold in the same instances and document the
state.

**Fairness.** Faults and edits are never fair. Weak fairness for

- workers and informers, because work queues and the resync come back to what is
  undone (`resize`, `scale_live`, `provision_live`, `pool`, `replica`,
  `cluster_live`);
- the REST handlers and the start of a stopped pool manager or admission pod,
  because the kubelet restarts containers (`backup`, `admission`);
- what is outside: NDM binds a claim, zpool finishes a resilver, pools are
  repaired and imported, the target reconnects, a client completes its restore,
  the garbage collector collects.

Faults that nothing repairs are left out where a liveness property is checked.
`resize` and `scale_live` have no failed write of `istgt.conf` when the target pod
starts, since `CreateVolumeTarget` only logs it. `scale_live` has no restart of
istgt or of the volume manager alone: whether a running istgt then learns its DRF
is not visible in this repository. `provision_live` has no policy edited while a
volume is provisioned with it.

Strong fairness only for istgt's request to admit a replica in `scale_live`,
which the target server may refuse many times and istgt repeats.

## Where the code falls short

The runs make assumptions, as constants, where the code does not keep a
property. Giving the constant the value below, in a copy of the `.cfg`, makes
TLC show the sequence of steps (`VolumeScale`: in a copy of that of
`scale_restarts`). Four properties except such a case in their
statement instead; there the row says how the statement without the exception reads.

| Module | Set | Then | Because |
|---|---|---|---|
| `VolumeResize` | `ExpandWhilePending = TRUE` | `AnnouncedIsConfigured` fails | provisioning is retried on an older CV and announces the new size |
| | fault `target`, as in the run | `AnnouncedIsExported` fails | istgt alone restarts between the resize command and the write of `istgt.conf` |
| `VolumeProvision` | edits taken back, as in `provision_live` | `HashMeansPatched` with `c.hash = c.policy` for `c.labelled = c.generation` fails | the Deployment is patched, the Update of the label fails and the user takes the edit back: the old label agrees with the spec, and the Deployment keeps the edit for ever |
| | fault `edit` in `provision_live` | `HashMeansPatched` fails | a pass after an error finds the Deployment of the older policy and stores the hash of the newer one |
| | `edit` with other pools, `MaxFaults = 2` | `BoundIsComplete` fails | replicas made for the older policy count, and the status lists the pools of the newer one too |
| `VolumeScale` | `Discipline` without `settled` | `DepartureIsRequested` fails | the webhook compares only lengths of pool lists |
| | without `one` or without `ready` | `QuorumsOverlap` fails | two replicas have yet to join when a write of `istgt.conf` fails: the CV knows both with the factor of one |
| | without `gone` | `MembersLive` fails | a CVR being deleted counts as existing |
| | without `joined` | `MembersLive` fails | a replica that has not joined is deleted while istgt may admit it |
| | fault `target`, as in the run | `QuorumsOverlap`, `MembersLive` without their exceptions for `late` fail | istgt restarts alone (fault `target`) while a request of its is served; the request goes on beside the next one and writes the line of a replica into `istgt.conf` that has left and is gone |
| | `MaxFaults = 2`, one of them `target` | `QuorumsOverlap`, `MembersLive` fail | the same, and `QOpAdd` writes `istgt.conf` from a CV read before another party changed it. Without `target` no request is late, and both hold for any number of faults (`Members`, `Quorums` below) |
| | fault `call` in `scale_restarts` | `RestingVolumeIsGuarded` fails | a failed PDB call is not repeated |
| `PoolInstance` | `ScanLag = TRUE` | `ReplacedDeviceClaimed` fails | a resilver without a byte processed reads as none |
| | `BlankVdev = TRUE` | `ReplacedDeviceClaimed` fails | the path of the new device cannot be read, and the resilver is looked for by an empty path: if that matches the vdev of the raid group, the resilver reads as done |
| | edit `reject` | `NamedDeviceStays` fails | the webhook marks claims for an edit it then refuses |
| `PoolCluster` | edit `swap` on one pool | `PoolsFollowSpec` fails | only the numbers of pools are compared |
| | `MaxEvents = 3` in `cluster_live` | `PoolsFollowSpec` fails | a node is renamed to what another node was called; the pool of the other is created on it, with devices it does not have. Without such reuse the property holds for three events |
| | `Patient = FALSE` | `WantedPoolKept` fails | a pool is removed and added again before `ScaleDown` deletes it |
| `VolumeReplica` | `ImportLag = TRUE` | `GoneIsDestroyed` fails | a destroy before the import finds no dataset |
| | fault `add` | `CVRFollowsReplica` fails | after a failed Update an empty object is queued |
| `VolumeBackup` | `ReadyLag = TRUE` | `OutcomesStay` fails | a GET marks a running backup failed |
| | fault `check` | `OutcomesStay`, `DoneIsDone`, `LastSnapHeld` fail | a GET that cannot read the pod or its node takes the manager for down and marks a running backup failed; a client may then delete the snapshot under it |
| | fault `cleanup` | `OutcomesStay`, `DoneIsDone` fail | a manager that starts only logs a failing list or Update: it leaves backups unfinished, and takes one up that a GET is marking failed |
| | `Careful = FALSE` | `DoneIsDone`, `LastSnapHeld` fail | a deletion during a backup |
| | fault `zfs` | `DoneIsDone` fails | `zfs send` is piped without `pipefail` |
| | pools of both versions | `LastSnapHeld` fails | only one version's record is deleted |
| `ZCommands` | `AllSettings = TRUE` | `ReadAsMeant` fails | settings no `Build` honours (`Unheard`); no caller uses them |
| `AdmissionServer` | `Calm = FALSE` | `RemovedLeavesNoConfig`, `ServersAreTrusted` fail | a pod that is starting registers again |
| | removals dropped, as in the run | `ServersSettle` with `ns \in {"yes", "dropped"}` for `ns = "yes"` fails | the handler deletes the configuration for a removal that does not happen: a dry run (the webhook declares no side effects), another webhook's refusal, a reply after the timeout. Pods that listen do not register again |

Further disagreements met while reading, which no property covers:

- A PDB can be deleted by one worker while another labels its CVC with it.
- A scale down whose last Update conflicts tries for ever to delete an empty
  name, since the client's object for "not found" is not nil.
- A failed write of `istgt.conf` at start is only logged.
- The Resizing and ReplacementInProgress conditions may outlive their cause.
- A pool that cannot be read for a moment counts as absent in `Delete`, and its
  devices are released.
- An edit that replaces a device and adds a group with the outgoing one never
  adds the group.
- Two CSPCs that claim two devices in opposite order block each other.
- The answer about a restore is the status of the last replica visited.
- A recreated clone has quorum on.
- `util.go` says that equal versions compare true; the code returns false.

## Proofs

Every theorem holds for all values of the constants that meet the named
assumption of its module (`ResizeAssumption`, `ProvisionAssumption`, ...): any
number of pods, pools, volumes, devices, snapshots, requests, edits and faults.
A theorem that needs more says so in its hypothesis. Every part of a hypothesis
is a row of the table above, where TLC refutes a property it is assumed for.

| Module | Theorem | States | Assumes |
|---|---|---|---|
| `VolumeResizeProofs` | `TypeCorrect` | `[]TypeOK` | |
| | `AnnouncedConfigured`, `ResizesSerialised`, `CapacitiesGrow` | `[]AnnouncedIsConfigured`; the action properties `OneResizeAtATime`, `NoCapacityShrinks` | a CVC is expanded only once Bound |
| | `PromiseKept` | `VolumeResize` implements `VolumeExpansion` | the same |
| | `AnnouncedExported` | `[]AnnouncedIsExported` | also: istgt does not restart alone |
| `VolumeProvisionProofs` | `Replicas`, `Clones` | `[]NoExtraReplicas`, `[]CloneBesideSource` | |
| | `Complete` | `[]BoundIsComplete` | an edit of the policy object leaves its pools alone |
| | `Patched` | `[]HashMeansPatched` | the policy object is not edited; the policy of a CVC may be, back and forth |
| `VolumeReplicaProofs` | `Recreation` | the action property `RecreatedWithoutQuorum` | |
| | `Destruction` | `[]GoneIsDestroyed` | `~ImportLag` |
| `VolumeBackupProofs` | `Outcomes` | the action property `OutcomesStay` | `ManagersTold` |
| | `Held`, `Sent` | `[]LastSnapHeld`, `[]DoneIsDone` | `ManagersTold`, `SentAsSaid` |
| `PoolInstanceProofs` | `Kept` | the action property `ReportedPoolKept` | |
| `PoolReplacementProofs` | `Claimed`, `Named` | `[]ReplacedDeviceClaimed`, `[]NamedDeviceStays` | `Orderly` |
| `AdmissionServerProofs` | `SourceKept` | `[]ClonedSourceKept` | |
| | `Trusted`, `RemovedClean` | `[]ServersAreTrusted`, `[]RemovedLeavesNoConfig` | `Calm` |
| `VolumeScaleProofs` | `TypeCorrect` | `[]TypeOK` | |
| | `Departures` | `[]DepartureIsRequested` | `settled`: an edit of the pool list waits for the one before |
| | `Guarded` | `[]RestingVolumeIsGuarded` | `settled`, and no fault `call` |
| | `Members`, `Quorums` | `[](MembersLive /\ late = {})`, `[](QuorumsOverlap /\ late = {})`: the exception for late requests is not used | the whole of `Discipline` (`settled`, `one`, `gone`, `ready`, `joined`), and no fault `target` |

`ManagersTold`: a manager at work is not reported as down (`~ReadyLag`, no fault
`check`) and its cleanup when it starts succeeds (no fault `cleanup`). `SentAsSaid`: backups are
deleted only while none is under way (`Careful`), `zfs send` does not fail unseen
(no fault `zfs`), and the pools have one version. `Orderly`: a resilver shows once
it has begun (`~ScanLag`), an empty path leads to no vdev (`~BlankVdev`), and an edit the webhook lets pass is stored (no edit
`reject`).

None of these properties is inductive as it stands: each speaks of objects, and
not of the copies the workers hold. The strengthenings are, by module:

- **Resize.** `TypeOK /\ Requests /\ Copies /\ Achievements`. `Requests` orders
  the requested capacities (a copy lags behind its source, the CV behind the
  CVC), `Copies` ties the volume manager's copies to the CV, and `Achievements`
  says that each report is backed by the layer below: CVC status by CV status,
  CV status by `istgt.conf`. `AnnouncedExported` adds `Exports`, the same for the
  running target.
- **Provisioning.** `TypeOK` and `Inv(v)` for each volume: what the worker does
  fits the phase it started from (`PhaseInv`), replicas present and about to be
  created are never too many (`CountInv`), what a pass has made stays while the
  CVC exists (`ObjectInv`), and a clone's pools are its source's (`CloneInv`).
  `Complete` adds that the pools a policy names are fixed (`StatusInv`), `Patched`
  that the worker's copy and the cache lag behind the CVC by edits made since the
  label was written, and that who is about to write the label has patched the
  Deployment (`HashInv`).
- **Replicas.** `PhaseInv`: the worker's copy is not older than the first report,
  and only a phase that asks for it leads to a creation. `GoneInv`: whoever is
  about to remove the finalizer has destroyed the dataset.
- **Backups.** `HoldInv`: who may write a backup that is unfinished, and that
  nobody has heard of one that is not created yet (theorem `OneWriter`).
  `RecordInv` and `SendInv`: a backup under way and its base are on the volume, and
  the record names snapshots that were sent (`RecordKept`).
- **Pools.** `PhaseInv`: until the pool is there, the phase that the worker read is
  that of the CSPI, so that a creation is undone only for a pool never reported.
  `LoopInv`: the worker goes through the devices of its own copy.
- **Replacement.** `ReplaceInv` follows one replacement through its five places.
  `SpecInv` and `MarkInv`: raid groups are disjoint, and a marked claim is that of
  the one device of its group that stands for another. `GroupInv`: the CSPI and
  the worker's copy differ from the CSPC by marked replacements that have not come
  to them, and by groups to come; the copy has no replacement that the CSPI lacks.
  `MemberInv` and `SwapInv`: the pool has each group as a whole or not at all, but
  for the replacement under way, which the CSPI has. `ClaimInv`: what is in the
  pool or on the CSPI is claimed. `ListInv`: the claims the worker listed are still
  true where it acts on them. A stripe has no replacements (`StripeInv`).
- **Scaling.** `ScaleInv` has three parts. `CopyInv`: the lists are such as the
  webhook lets pass, and a copy of the CVC, in the cache or with the worker, has
  the lists of the CVC or asks for the status that has been reported since.
  `DRFInv`: the DRF is that of the status, or of the spec once a worker has changed
  it, which it does on the latest lists. `WorkInv`: the worker reports scaling as
  done in its own object only when the CV has the new DRF and no replica on its way
  out. `GuardInv`: the label of every copy is that of the pools in its status, and
  the worker that stores a label has made its PDB.
- **Members and quorums.** `MemberInv`, on top of `ScaleInv`. One pool leaves at a
  time (`ListInv`), a CVR outside the lists is one being deleted, whose replica
  the CV and istgt have let go (`PlaceInv`), and a worker on lists that are done
  with finds nothing to create or delete (`LagInv`). `StepInv` says what the volume
  manager may rely on between two of its steps. While no pool leaves, `istgt.conf`
  and istgt know no replica that the CV does not, and istgt lacks at most one of
  the pools beyond its factor (`UpInv`). While one leaves, CV, `istgt.conf` and istgt
  each have the members of the spec or of the status and give the replica up in
  this order, the factor of each after the members (`DownInv`), and nobody joins;
  a replica that joins is on the list and alive (`JoinInv`). `MeetInv` is the
  arithmetic: twice the union of the members of istgt and of `istgt.conf`, present
  or about to be written, is at most the sum of their factors and one, which is
  what makes a majority of one meet a majority of the other. `MembersLive` alone
  is not enough, since the volume manager may write an earlier CV; neither is
  `QuorumsOverlap`, since the factors change in steps that can fail one by one.
- **Admission.** `PodInv`: a pod past the Secret holds its CA, and has the
  configuration of an earlier release behind it. `ConfigInv`: a configuration
  carries the CA of the Secret.

TLC checked each of these strengthenings on the instances of the runs before it
was proved. What `VolumeScaleProofs` and `PoolReplacementProofs` need of
`FiniteSetTheorems` they collect in one predicate (`Counting`, `Sizes`), which the
lemma `Counts` derives at the end: the library's theorems in the context of every
proof would make all of them slow.

Only model-checked:

- liveness, which is out of the prover's reach;
- `MembersLive` and `QuorumsOverlap` of `VolumeScale` where istgt may restart alone,
  for a single fault and apart from late requests (`scale_restarts`);
- `PoolCluster`, for which no inductive invariant has been worked out;
- `ReadAsMeant` of `ZCommands`: what recursive definitions compute for every
  input cannot be proved without induction over data.

## Not modelled, and why

- `reconcileVersion` of every controller, the disable annotations, capacities of
  pools and replicas, device tags, and write-cache groups: they add fields to
  objects whose reads and Updates are modelled, and no property here is about them.
- The contents of Deployments, Services and certificates: no property tells them
  apart.
- The gRPC chain between REST server, volume manager and istgt for snapshots: a
  snapshot is created or deleted in one step that may fail.
- The webhook's counts of devices per RAID type and checks of single devices:
  they depend on one object and no other party.
- Start-up wiring, signals, logging, version strings, hashing and the error
  injection of `pkg/debug`: no state that several steps or parties share.
- Resizing and scaling of one volume at the same time: both write the same CV, and
  a product of the two modules is beyond TLC's reach at these bounds. Each module
  has the conflicts of its own parties only.
