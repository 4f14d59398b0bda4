--------------------------- MODULE VolumeProvision ---------------------------
(***************************************************************************)
(* The life of volumes outside resizing and scaling: the workers of the    *)
(* CVC controller (pkg/controllers/cstorvolumeconfig) provision a pending  *)
(* CStorVolumeConfig (CVC), carry changes of its policy to the target's    *)
(* Deployment, and take its finalizer off once it is deleted.              *)
(*                                                                         *)
(* Every API call is a step of its own: each may fail, and the operator    *)
(* may restart between two of them.  The workqueue never gives one key to  *)
(* two workers, so a worker is known by the volume it works on.  A worker  *)
(* starts from the informer's cache, which may lag behind.  A              *)
(* resourceVersion is equality of records.  A policy is a number, its      *)
(* hash that number.                                                       *)
(***************************************************************************)
EXTENDS Integers, Sequences, FiniteSets

CONSTANTS
  Vol, Pool,      \* the volumes, and the pools of their CSPC
  ReplicaCount,   \* spec.provision.replicaCount of each volume
  Source,         \* spec.cstorVolumeSource: the volume it clones (a set of at most one)
  Near,           \* with replica affinity: the pools on the node of the application
  PolicyPools,    \* replicaPoolInfo of each policy ({}: any pool will do)
  MaxPolicy,      \* bound: policies are 0 .. MaxPolicy
  SpecPolicy,     \* the policies users put into the spec of a provisioned volume
  MaxEdits,       \* bound: how often they do
  Workers,        \* workers of the controller
  MaxFaults,      \* bound: faults
  FaultKinds      \* the kinds of fault that happen

Policy == 0 .. MaxPolicy

ASSUME ProvisionAssumption ==
  /\ IsFiniteSet(Vol) /\ IsFiniteSet(Pool)
  /\ ReplicaCount \in [Vol -> Nat \ {0}]
  /\ Source \in [Vol -> SUBSET Vol]
  /\ Near \in [Vol -> SUBSET Pool]
  /\ MaxPolicy \in Nat
  /\ SpecPolicy \subseteq Policy
  /\ MaxEdits \in Nat
  /\ PolicyPools \in [Policy -> SUBSET Pool]
  /\ Workers \in Nat \ {0}
  /\ MaxFaults \in Nat
  /\ FaultKinds \subseteq {"call", "operator", "pool", "edit"}

VARIABLES
  cvc,       \* the CVCs
  cache,     \* the CVCs in the informer's cache
  policyObj, \* the CStorVolumePolicy the volumes name
  svc,       \* the volumes that have a target Service,
  cv,        \*   a CStorVolume,
  deploy,    \*   and the policy of their target Deployment
  cvr,       \* the pools that hold a CStorVolumeReplica (CVR) of each volume
  healthy,   \* the pools that are neither offline nor read-only
  pdbs,      \* the pools every PodDisruptionBudget (PDB) covers, in the order of
             \*   their creation; {} once it is deleted
  opAt,      \* the worker on each volume: where it is,
  opBase,    \*   the CVC it last read or wrote,
  opCVC,     \*   its copy, changed in place,
  opPending, \*   how many replicas it has to create,
  opPools,   \*   the pools it has chosen for them, or has found replicas on,
  opPDB,     \*   and the PDB it has found or created
  faults

opVars == <<opAt, opBase, opCVC, opPending, opPools, opPDB>>
objects == <<svc, cv, deploy, cvr, pdbs>>
vars == <<cvc, cache, policyObj, objects, healthy, opVars, faults>>

\* minHAReplicaCount
minHAReplicaCount == 3

NoPolicy == -1

\* A PDB is known by the order of creation: generateName never repeats.
NoPDB == 0

\* The generation counts the edits of the spec; "labelled", a history, is the generation that
\* the hash label was written for.
NoCVC == [phase |-> "none", deleting |-> FALSE, versioned |-> FALSE, pdb |-> NoPDB,
          status |-> {}, policy |-> NoPolicy, generation |-> 0,
          hash |-> NoPolicy, labelled |-> 0]

\* The CSI driver creates a CVC with its finalizer, for the controller to provision.
NewCVC == [NoCVC EXCEPT !.phase = "Pending"]

\* The name of a volume is never used again.
GoneCVC == [NoCVC EXCEPT !.phase = "gone"]

Exists(c) == c.phase \in {"Pending", "Bound"}

\* isHAVolume: before there are pools in the status, the replica count decides.
IsHAVolume(v, c) ==
  IF c.status = {} THEN ReplicaCount[v] >= minHAReplicaCount
  ELSE Cardinality(c.status) >= minHAReplicaCount

Init ==
  /\ cvc = [v \in Vol |-> NoCVC]
  /\ cache = cvc
  /\ policyObj = 0
  /\ svc = {} /\ cv = {}
  /\ deploy = [v \in Vol |-> NoPolicy]
  /\ cvr = [v \in Vol |-> {}]
  /\ healthy = Pool
  /\ pdbs = <<>>
  /\ opAt = [v \in Vol |-> "idle"]
  /\ opBase = cvc /\ opCVC = cvc
  /\ opPending = [v \in Vol |-> 0]
  /\ opPools = [v \in Vol |-> {}]
  /\ opPDB = [v \in Vol |-> NoPDB]
  /\ faults = 0

Fault(kind) ==
  /\ kind \in FaultKinds
  /\ faults < MaxFaults
  /\ faults' = faults + 1

-----------------------------------------------------------------------------
(* Users, pools, the informer and the garbage collector                    *)

\* A volume is asked for (external: the CSI driver).  A clone is asked for when its
\* source is provisioned.
CreateCVC(v) ==
  /\ cvc[v] = NoCVC
  /\ \A s \in Source[v] : cvc[s].phase = "Bound"
  /\ cvc' = [cvc EXCEPT ![v] = NewCVC]
  /\ UNCHANGED <<cache, policyObj, objects, healthy, opVars, faults>>

\* A volume is deleted: the finalizer keeps the CVC for the controller.
DeleteCVC(v) ==
  /\ Exists(cvc[v])
  /\ ~cvc[v].deleting
  /\ cvc' = [cvc EXCEPT ![v].deleting = TRUE]
  /\ UNCHANGED <<cache, policyObj, objects, healthy, opVars, faults>>

Edited(c, k) == [c EXCEPT !.policy = k, !.generation = c.generation + 1]

\* The user changes the target's settings in the policy of a provisioned volume, or takes a
\* change back.
EditSpecPolicy(v, k) ==
  /\ cvc[v].phase = "Bound"
  /\ k # cvc[v].policy
  /\ cvc[v].generation < MaxEdits
  /\ PolicyPools[k] = PolicyPools[cvc[v].policy]
  /\ cvc' = [cvc EXCEPT ![v] = Edited(cvc[v], k)]
  /\ UNCHANGED <<cache, policyObj, objects, healthy, opVars, faults>>

\* The user changes the policy object, perhaps in the middle of a provisioning.
EditPolicyObject(k) ==
  /\ k > policyObj
  /\ Fault("edit")
  /\ policyObj' = k
  /\ UNCHANGED <<cvc, cache, objects, healthy, opVars>>

\* A watch event brings the cache up to date.
WatchCVC(v) ==
  /\ cache[v] # cvc[v]
  /\ cache' = [cache EXCEPT ![v] = cvc[v]]
  /\ UNCHANGED <<cvc, policyObj, objects, healthy, opVars, faults>>

\* A pool goes offline or read-only.
PoolFails(p) ==
  /\ p \in healthy
  /\ Fault("pool")
  /\ healthy' = healthy \ {p}
  /\ UNCHANGED <<cvc, cache, policyObj, objects, opVars>>

PoolRecovers(p) ==
  /\ p \notin healthy
  /\ healthy' = healthy \cup {p}
  /\ UNCHANGED <<cvc, cache, policyObj, objects, opVars, faults>>

\* The garbage collector deletes what a CVC that is gone, or a CStorVolume that is
\* gone, owned (external); the pool managers then take the CVRs' finalizers off.
CollectGarbage(v) ==
  /\ \/ /\ ~Exists(cvc[v])
        /\ v \in svc \cup cv
        /\ svc' = svc \ {v}
        /\ cv' = cv \ {v}
        /\ UNCHANGED <<deploy, cvr>>
     \/ /\ v \notin cv
        /\ deploy[v] # NoPolicy \/ cvr[v] # {}
        /\ deploy' = [deploy EXCEPT ![v] = NoPolicy]
        /\ cvr' = [cvr EXCEPT ![v] = {}]
        /\ UNCHANGED <<svc, cv>>
  /\ UNCHANGED <<cvc, cache, policyObj, pdbs, healthy, opVars, faults>>

-----------------------------------------------------------------------------
(* A worker of the CVC controller                                          *)

outsideOp == <<cache, policyObj, healthy>>

\* The worker goes on to another step
Goto(v, step) == opAt' = [opAt EXCEPT ![v] = step]

\* The worker is done with the key: the handler has returned.
Release(v) ==
  /\ Goto(v, "idle")
  /\ opBase' = [opBase EXCEPT ![v] = NoCVC]
  /\ opCVC' = [opCVC EXCEPT ![v] = NoCVC]
  /\ opPending' = [opPending EXCEPT ![v] = 0]
  /\ opPools' = [opPools EXCEPT ![v] = {}]
  /\ opPDB' = [opPDB EXCEPT ![v] = NoPDB]

\* syncCVC once the version is populated: deletion, provisioning or the policy
AfterVersion(v, c) ==
  CASE c.deleting /\ IsHAVolume(v, c)    -> "listUsers"
    [] c.deleting /\ ~IsHAVolume(v, c)   -> "unfinalize"
    [] ~c.deleting /\ c.phase = "Pending" -> "policy"
    [] OTHER                             -> "sync"

\* processNextWorkItem and syncHandler: events, the resync every 30 seconds and
\* errors put a key in the queue.  A CVC that is not in the cache is left alone.
SyncHandler(v) ==
  /\ opAt[v] = "idle"
  /\ Cardinality({w \in Vol : opAt[w] # "idle"}) < Workers
  /\ Exists(cache[v])
  /\ opBase' = [opBase EXCEPT ![v] = cache[v]]
  /\ opCVC' = [opCVC EXCEPT ![v] = cache[v]]
  /\ Goto(v, IF cache[v].versioned THEN AfterVersion(v, cache[v]) ELSE "version")
  /\ UNCHANGED <<cvc, objects, opPending, opPools, opPDB, faults, outsideOp>>

\* populateVersion: without the Update, the handler gives up until the next event.
PopulateVersion(v) ==
  LET new == [opCVC[v] EXCEPT !.versioned = TRUE]
  IN  /\ opAt[v] = "version"
      /\ \/ /\ cvc[v] = opBase[v]
            /\ cvc' = [cvc EXCEPT ![v] = new]
            /\ opBase' = [opBase EXCEPT ![v] = new]
            /\ opCVC' = [opCVC EXCEPT ![v] = new]
            /\ Goto(v, AfterVersion(v, new))
            /\ UNCHANGED <<opPending, opPools, opPDB>>
         \/ /\ cvc[v] # opBase[v]
            /\ Release(v)
            /\ UNCHANGED cvc
      /\ UNCHANGED <<objects, faults, outsideOp>>
\* getVolumePolicy
GetVolumePolicy(v) ==
  /\ opAt[v] = "policy"
  /\ opCVC' = [opCVC EXCEPT ![v].policy = policyObj]
  /\ Goto(v, "service")
  /\ UNCHANGED <<cvc, objects, opBase, opPending, opPools, opPDB, faults, outsideOp>>

GetOrCreateTargetService(v) ==
  /\ opAt[v] = "service"
  /\ svc' = svc \cup {v}
  /\ Goto(v, "volume")
  /\ UNCHANGED <<cvc, cv, deploy, cvr, pdbs, opBase, opCVC, opPending, opPools, opPDB,
                 faults, outsideOp>>

GetOrCreateCStorVolumeResource(v) ==
  /\ opAt[v] = "volume"
  /\ cv' = cv \cup {v}
  /\ Goto(v, "target")
  /\ UNCHANGED <<cvc, svc, deploy, cvr, pdbs, opBase, opCVC, opPending, opPools, opPDB,
                 faults, outsideOp>>

\* A Deployment that an earlier attempt has created is left as it is.
GetOrCreateCStorTargetDeployment(v) ==
  /\ opAt[v] = "target"
  /\ deploy' = [deploy EXCEPT ![v] = IF @ = NoPolicy THEN opCVC[v].policy ELSE @]
  /\ Goto(v, "count")
  /\ UNCHANGED <<cvc, svc, cv, cvr, pdbs, opBase, opCVC, opPending, opPools, opPDB,
                 faults, outsideOp>>

\* Mutation: the replicas of an earlier attempt are forgotten.
PendingIsReplicaCount(v) ==
  /\ opAt[v] = "count"
  /\ opPending' = [opPending EXCEPT ![v] = ReplicaCount[v]]
  /\ Goto(v, "place")
  /\ UNCHANGED <<cvc, objects, opBase, opCVC, opPools, opPDB, faults, outsideOp>>

\* distributePendingCVRs, and the List of getCurrentReplicaCount
GetPendingCVRCount(v) ==
  /\ opAt[v] = "count"
  /\ opPending' = [opPending EXCEPT ![v] = ReplicaCount[v] - Cardinality(cvr[v])]
  /\ Goto(v, "place")
  /\ UNCHANGED <<cvc, objects, opBase, opCVC, opPools, opPDB, faults, outsideOp>>

\* getPolicyBasedPoolList: the pools the policy names, or all of them
CandidatePools(k) == IF PolicyPools[k] = {} THEN Pool ELSE PolicyPools[k]

\* Mutation: a clone goes to any pool.
UsablePoolsOfAny(v) == CandidatePools(opCVC[v].policy) \ cvr[v]

\* getUsablePoolList and getUsablePoolListForClone
UsablePools(v) ==
  {p \in CandidatePools(opCVC[v].policy) \ cvr[v] : \A s \in Source[v] : p \in cvr[s]}

\* sanitizePoolList
SanitizedPools(v) == UsablePools(v) \cap healthy

\* randomizePoolList and prioritizedPoolList: any n of them, one near the
\* application first
Choices(v, n) ==
  {S \in SUBSET SanitizedPools(v) :
     /\ Cardinality(S) = n
     /\ n > 0 /\ Near[v] \cap SanitizedPools(v) # {} => Near[v] \cap S # {}}

\* Mutation: with too few pools, the replicas that find one are created.
DistributeSome(v) ==
  /\ opAt[v] = "place"
  /\ \E S \in SUBSET SanitizedPools(v) :
       /\ Cardinality(S) <= opPending[v]
       /\ S # SanitizedPools(v) => Cardinality(S) = opPending[v]
       /\ opPools' = [opPools EXCEPT ![v] = S]
  /\ Goto(v, "create")
  /\ UNCHANGED <<cvc, objects, opBase, opCVC, opPending, opPDB, faults, outsideOp>>

\* distributeCVRs, up to the loop: the pools for the pending replicas, or an error.
DistributeCVRs(v) ==
  /\ opAt[v] = "place"
  /\ \/ /\ PolicyPools[opCVC[v].policy] # {} =>
             Cardinality(PolicyPools[opCVC[v].policy]) = ReplicaCount[v]
        /\ Cardinality(SanitizedPools(v)) >= opPending[v]
        /\ \E S \in Choices(v, opPending[v]) : opPools' = [opPools EXCEPT ![v] = S]
        /\ Goto(v, "create")
        /\ UNCHANGED <<opBase, opCVC, opPending, opPDB>>
     \/ /\ \/ /\ PolicyPools[opCVC[v].policy] # {}
              /\ Cardinality(PolicyPools[opCVC[v].policy]) # ReplicaCount[v]
           \/ Cardinality(SanitizedPools(v)) < opPending[v]
        /\ Release(v)
  /\ UNCHANGED <<cvc, objects, faults, outsideOp>>

\* createCVR for one pool of the loop of distributeCVRs, in any order
CreateCVR(v) ==
  /\ opAt[v] = "create"
  /\ \/ \E p \in opPools[v] :
          /\ cvr' = [cvr EXCEPT ![v] = @ \cup {p}]
          /\ opPools' = [opPools EXCEPT ![v] = @ \ {p}]
          /\ UNCHANGED opAt
     \/ /\ opPools[v] = {}
        /\ Goto(v, "names")
        /\ UNCHANGED <<cvr, opPools>>
  /\ UNCHANGED <<cvc, svc, cv, deploy, pdbs, opBase, opCVC, opPending, opPDB, faults,
                 outsideOp>>

GetVolumeReplicaPoolNames(v) ==
  /\ opAt[v] = "names"
  /\ opPools' = [opPools EXCEPT ![v] = cvr[v]]
  /\ Goto(v, IF IsHAVolume(v, opCVC[v]) THEN "listPDBs" ELSE "bind")
  /\ UNCHANGED <<cvc, objects, opBase, opCVC, opPending, opPDB, faults, outsideOp>>

\* getOrCreatePodDisruptionBudget: a PDB over exactly the pools of the volume, ...
ListPDBs(v) ==
  /\ opAt[v] = "listPDBs"
  /\ \/ /\ \E i \in DOMAIN pdbs : /\ pdbs[i] = opPools[v]
                                  /\ opPDB' = [opPDB EXCEPT ![v] = i]
        /\ Goto(v, "bind")
     \/ /\ \A i \in DOMAIN pdbs : pdbs[i] # opPools[v]
        /\ Goto(v, "createPDB")
        /\ UNCHANGED opPDB
  /\ UNCHANGED <<cvc, objects, opBase, opCVC, opPending, opPools, faults, outsideOp>>

\* ... or a new one
CreatePDB(v) ==
  /\ opAt[v] = "createPDB"
  /\ pdbs' = Append(pdbs, opPools[v])
  /\ opPDB' = [opPDB EXCEPT ![v] = Len(pdbs')]
  /\ Goto(v, "bind")
  /\ UNCHANGED <<cvc, svc, cv, deploy, cvr, opBase, opCVC, opPending, opPools,
                 faults, outsideOp>>

\* addPolicySpecHash
Labelled(c) == [c EXCEPT !.hash = c.policy, !.labelled = c.generation]

\* The end of createVolumeOperation: addPDBLabelOnCVC, addReplicaPoolInfo,
\* addPolicySpecHash, and the Update of updateCVCObj
BoundCVC(v) ==
  [Labelled(opCVC[v]) EXCEPT !.phase = "Bound", !.pdb = opPDB[v],
                             !.status = PolicyPools[opCVC[v].policy] \cup opPools[v]]

UpdateCVCObj(v) ==
  /\ opAt[v] = "bind"
  /\ cvc' = IF cvc[v] = opBase[v] THEN [cvc EXCEPT ![v] = BoundCVC(v)] ELSE cvc
  /\ Release(v)
  /\ UNCHANGED <<objects, faults, outsideOp>>

\* Mutation: a Deployment that exists is taken for up to date.
KeepTargetDeploymentSpec(v) ==
  /\ opAt[v] = "sync"
  /\ Goto(v, "hash")
  /\ UNCHANGED <<cvc, objects, opBase, opCVC, opPending, opPools, opPDB, faults,
                 outsideOp>>

\* syncPolicySpec, with the Patch of patchTargetDeploymentSpec: the Deployment and
\* the CStorVolume have to be there.
PatchTargetDeploymentSpec(v) ==
  /\ opAt[v] = "sync"
  /\ \/ /\ opCVC[v].hash # opCVC[v].policy
        /\ deploy[v] # NoPolicy /\ v \in cv
        /\ deploy' = [deploy EXCEPT ![v] = opCVC[v].policy]
        /\ Goto(v, "hash")
        /\ UNCHANGED <<opBase, opCVC, opPending, opPools, opPDB>>
     \/ /\ opCVC[v].hash = opCVC[v].policy \/ deploy[v] = NoPolicy \/ v \notin cv
        /\ Release(v)
        /\ UNCHANGED deploy
  /\ UNCHANGED <<cvc, svc, cv, cvr, pdbs, faults, outsideOp>>

\* The Update of the hash label
SyncPolicySpec(v) ==
  /\ opAt[v] = "hash"
  /\ cvc' = IF cvc[v] = opBase[v] THEN [cvc EXCEPT ![v] = Labelled(opCVC[v])] ELSE cvc
  /\ Release(v)
  /\ UNCHANGED <<objects, faults, outsideOp>>

\* deletePDBIfNotInUse: "if no volume is refering to the PDB" is "if one volume has
\* its label"; a volume without a label finds none.
ListUsers(v) ==
  LET users == {w \in Vol : Exists(cvc[w]) /\ cvc[w].pdb = opCVC[v].pdb}
  IN  /\ opAt[v] = "listUsers"
      /\ Goto(v, IF opCVC[v].pdb # NoPDB /\ Cardinality(users) = 1
                 THEN "deletePDB" ELSE "unfinalize")
      /\ UNCHANGED <<cvc, objects, opBase, opCVC, opPending, opPools, opPDB, faults,
                     outsideOp>>

DeletePDB(v) ==
  /\ opAt[v] = "deletePDB"
  /\ pdbs' = [pdbs EXCEPT ![opCVC[v].pdb] = {}]
  /\ Goto(v, "unfinalize")
  /\ UNCHANGED <<cvc, svc, cv, deploy, cvr, opBase, opCVC, opPending, opPools, opPDB,
                 faults, outsideOp>>

\* Mutation: the finalizer stays until the replicas are gone.
AwaitReplicas(v) ==
  /\ opAt[v] = "unfinalize"
  /\ cvc' = IF Exists(cvc[v]) /\ cvr[v] = {} THEN [cvc EXCEPT ![v] = GoneCVC] ELSE cvc
  /\ Release(v)
  /\ UNCHANGED <<objects, faults, outsideOp>>

\* removeClaimFinalizer: the Patch carries no resourceVersion.
RemoveClaimFinalizer(v) ==
  /\ opAt[v] = "unfinalize"
  /\ cvc' = IF Exists(cvc[v]) THEN [cvc EXCEPT ![v] = GoneCVC] ELSE cvc
  /\ Release(v)
  /\ UNCHANGED <<objects, faults, outsideOp>>

ReleaseAll ==
  /\ opAt' = [v \in Vol |-> "idle"]
  /\ opBase' = [v \in Vol |-> NoCVC] /\ opCVC' = [v \in Vol |-> NoCVC]
  /\ opPending' = [v \in Vol |-> 0]
  /\ opPools' = [v \in Vol |-> {}]
  /\ opPDB' = [v \in Vol |-> NoPDB]

\* The process starts again, and lists the CVCs anew.
Restart == ReleaseAll /\ cache' = cvc

\* A call fails: the handler returns.
CallFails(v) ==
  /\ opAt[v] # "idle"
  /\ Fault("call")
  /\ Release(v)
  /\ UNCHANGED <<cvc, objects, outsideOp>>

\* The List of getUsablePoolList is different: its error becomes a nil list, which
\* sanitizePoolList dereferences, and the operator panics.
ListPanics(v) ==
  /\ opAt[v] = "place"
  /\ Fault("call")
  /\ Restart
  /\ UNCHANGED <<cvc, policyObj, objects, healthy>>

OperatorRestart ==
  /\ Fault("operator")
  /\ Restart
  /\ UNCHANGED <<cvc, policyObj, objects, healthy>>

-----------------------------------------------------------------------------
\* createVolumeOperation
CreateVolumeOperation(v) ==
  \/ GetVolumePolicy(v) \/ GetOrCreateTargetService(v)
  \/ GetOrCreateCStorVolumeResource(v) \/ GetOrCreateCStorTargetDeployment(v)
  \/ GetPendingCVRCount(v) \/ DistributeCVRs(v) \/ CreateCVR(v)
  \/ GetVolumeReplicaPoolNames(v) \/ ListPDBs(v) \/ CreatePDB(v) \/ UpdateCVCObj(v)

\* syncCVC
SyncCVC(v) ==
  \/ SyncHandler(v) \/ PopulateVersion(v) \/ CreateVolumeOperation(v)
  \/ PatchTargetDeploymentSpec(v) \/ SyncPolicySpec(v)
  \/ ListUsers(v) \/ DeletePDB(v) \/ RemoveClaimFinalizer(v)

Next ==
  \/ \E v \in Vol :
       \/ CreateCVC(v) \/ DeleteCVC(v) \/ WatchCVC(v) \/ CollectGarbage(v)
       \/ SyncCVC(v) \/ CallFails(v) \/ ListPanics(v)
       \/ \E k \in SpecPolicy : EditSpecPolicy(v, k)
  \/ \E k \in Policy : EditPolicyObject(k)
  \/ \E p \in Pool : PoolFails(p) \/ PoolRecovers(p)
  \/ OperatorRestart

Spec == Init /\ [][Next]_vars

\* The queue, the informer and the garbage collector get to every volume, and pools
\* are repaired.
FairSpec ==
  /\ Spec
  /\ \A v \in Vol : WF_vars(SyncCVC(v)) /\ WF_vars(WatchCVC(v)) /\ WF_vars(CollectGarbage(v))
  /\ \A p \in Pool : WF_vars(PoolRecovers(p))

-----------------------------------------------------------------------------
(* Properties                                                              *)

CVC == [phase : {"none", "Pending", "Bound", "gone"}, deleting : BOOLEAN,
        versioned : BOOLEAN, pdb : Nat, status : SUBSET Pool,
        policy : Policy \cup {NoPolicy}, generation : Nat,
        hash : Policy \cup {NoPolicy}, labelled : Nat]

Steps == {"idle", "version", "policy", "service", "volume", "target", "count", "place",
          "create", "names", "listPDBs", "createPDB", "bind", "sync", "hash",
          "listUsers", "deletePDB", "unfinalize"}

\* The type invariant.
TypeOK ==
  /\ cvc \in [Vol -> CVC] /\ cache \in [Vol -> CVC]
  /\ policyObj \in Policy
  /\ svc \subseteq Vol /\ cv \subseteq Vol
  /\ deploy \in [Vol -> Policy \cup {NoPolicy}]
  /\ cvr \in [Vol -> SUBSET Pool]
  /\ healthy \subseteq Pool
  /\ pdbs \in Seq(SUBSET Pool)
  /\ opAt \in [Vol -> Steps]
  /\ opBase \in [Vol -> CVC] /\ opCVC \in [Vol -> CVC]
  /\ opPending \in [Vol -> Nat]
  /\ opPools \in [Vol -> SUBSET Pool]
  /\ opPDB \in [Vol -> Nat]
  /\ faults \in 0 .. MaxFaults

\* However often createVolumeOperation starts over, after failed calls, conflicts,
\* panics and restarts, a volume never has more replicas than it asks for.
NoExtraReplicas == \A v \in Vol : Cardinality(cvr[v]) <= ReplicaCount[v]

\* "bound with cstorvolume": a Bound CVC has its Service, CStorVolume, Deployment
\* and replicas, and its status lists the pools of exactly these replicas.
BoundIsComplete ==
  \A v \in Vol : cvc[v].phase = "Bound" =>
    /\ v \in svc \cap cv
    /\ deploy[v] # NoPolicy
    /\ Cardinality(cvr[v]) = ReplicaCount[v]
    /\ cvc[v].status = cvr[v]

\* getUsablePoolListForClone: the replicas of a clone are on pools that hold a
\* replica of its source, as long as the source is there.
CloneBesideSource ==
  \A v \in Vol : \A s \in Source[v] : Exists(cvc[s]) => cvr[v] \subseteq cvr[s]

\* syncPolicySpec: a hash label that was written for the present spec says that the Deployment
\* has its policy, whatever edits, patches from stale caches and failed attempts came before.
\* (An older label may agree by chance: the user changes the policy and takes the change back
\* before the label is written.  The Deployment then keeps the policy that was taken back.)
HashMeansPatched ==
  \A v \in Vol :
    LET c == cvc[v]
    IN  c.phase = "Bound" /\ c.labelled = c.generation => c.hash = c.policy /\ deploy[v] = c.policy

\* A volume that is asked for is provisioned.
PendingIsProvisioned ==
  \A v \in Vol : cvc[v].phase = "Pending" ~> cvc[v].phase # "Pending"

\* Nothing of a deleted volume stays, even if the delete comes in the middle of
\* createVolumeOperation (its PDB is a different matter).
DeletedIsCleaned ==
  \A v \in Vol : cvc[v].deleting ~>
    [](v \notin svc \cup cv /\ deploy[v] = NoPolicy /\ cvr[v] = {})
=============================================================================
