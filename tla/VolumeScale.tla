----------------------------- MODULE VolumeScale -----------------------------
(***************************************************************************)
(* Adding replicas to, and removing them from, one provisioned volume.     *)
(*   - The user edits the pool list of the CVC; the admission webhook      *)
(*     (pkg/webhook/cvc.go) decides which edits pass.                      *)
(*   - A worker of the CVC controller, on a cached CVC, moves the desired  *)
(*     replication factor (DRF) of the CStorVolume (CV), creates or        *)
(*     deletes CStorVolumeReplicas (CVRs), and keeps the volume's          *)
(*     PodDisruptionBudget (PDB).                                          *)
(*   - The volume manager carries the CV's DRF to istgt and istgt.conf.    *)
(*   - istgt asks the target server (pkg/volume-rpc), a goroutine of the   *)
(*     volume manager's process, to record a replica it wants to admit.    *)
(*                                                                         *)
(* Pool lists are sets: the webhook refuses repetitions and the code only  *)
(* compares lengths and differences.  A volume has one replica per pool,   *)
(* so a replica id is its pool.  A resourceVersion is equality of records: *)
(* an Update on a record that came back to what was read passes here,      *)
(* where the code would read the same values again and then write them.    *)
(***************************************************************************)
EXTENDS Integers, FiniteSets

CONSTANTS
  Pool,          \* the pools of the cluster
  Placements,    \* where the volume's replicas may have been placed
  MaxEdits,      \* bound: edits of the pool list
  MaxFaults,     \* bound: failed calls, crashes and restarts
  FaultKinds,    \* the kinds of fault that happen
  Discipline     \* what users keep to, beyond what the webhook enforces

ASSUME ScaleAssumption ==
  /\ IsFiniteSet(Pool)
  /\ Placements \subseteq SUBSET Pool
  /\ Placements # {} /\ {} \notin Placements
  /\ MaxEdits \in Nat
  /\ MaxFaults \in Nat
  /\ FaultKinds \subseteq {"call", "disk", "create", "operator", "volume-mgmt",
                           "target", "pod", "replica"}
  /\ Discipline \subseteq {"settled", "one", "gone", "ready", "joined"}

VARIABLES
  cvc,      \* the CVC: spec and status pool lists, policy hash and PDB labels
  cvcCache, \* the CVC in the informer cache of the CVC controller
  cv,       \* the CV: factors, and known replicas of spec and of status
  cvr,      \* the CVR on each pool
  hasID,    \* the pools whose CVR holds its spec.replicaID
  pdbs,     \* the PDBs that exist, each named by the pools it covers
  opAt,     \* the CVC worker: where it is,
  opBase,   \*   the CVC it started from,
  opCVC,    \*   its copy, changed in place,
  opCV,     \*   the CV it read,
  opPool,   \*   the pool a scale down removes (a set of at most one),
  opFound,  \*   and what the GET of that pool's CVR found
  vmAt,     \* the volume manager's worker: where it is,
  vmCV,     \*   and the CV it read or wrote
  rpcAt,    \* the target server: where it is with istgt's connection,
  rpcReq,   \*   the request it serves on it,
  rpcCV,    \*   the CV it read,
  late,     \*   and the requests it has gone on serving after istgt hung up
  conf,     \* istgt.conf: factors and Replica lines
  tgt,      \* istgt: factors and admitted replicas
  up,       \* the replicas that are connected and hold all the data
  edits, faults

opVars == <<opAt, opBase, opCVC, opCV, opPool, opFound>>
vmVars == <<vmAt, vmCV>>
rpcVars == <<rpcAt, rpcReq, rpcCV, late>>
cvrVars == <<cvr, hasID>>
vars == <<cvc, cvcCache, cv, cvrVars, pdbs, opVars, vmVars, rpcVars, conf, tgt,
          up, edits, faults>>

Factor == 0 .. Cardinality(Pool)

\* ConsistencyFactor of a ReplicationFactor
Quorum(rf) == rf \div 2 + 1

CVC == [spec : SUBSET Pool, status : SUBSET Pool, hash : SUBSET Pool,
        pdb : SUBSET Pool]

CV == [drf : Factor, rf : Factor, cf : 0 .. Cardinality(Pool) + 1,
       known : SUBSET Pool, seen : SUBSET Pool]

\* A request to the target server
Request == [id : SUBSET Pool, rf : Factor, cf : 0 .. Cardinality(Pool) + 1]

\* A goroutine of the target server whose connection the n-th fault has broken
Goroutine == [at : {"update", "conf", "done"}, req : Request, cv : CV, n : 1 .. MaxFaults]

\* istgt.conf; drf = 0 is "no such file"
Conf == [drf : Factor, rf : Factor, cf : 0 .. Cardinality(Pool) + 1,
         known : SUBSET Pool]

\* istgt; drf = 0 is "not running"
Target == [drf : Factor, rf : Factor, known : SUBSET Pool]

\* What a party that is idle holds
NoCVC == [spec |-> {}, status |-> {}, hash |-> {}, pdb |-> {}]

NoCV == [drf |-> 0, rf |-> 0, cf |-> 0, known |-> {}, seen |-> {}]

NoRequest == [id |-> {}, rf |-> 0, cf |-> 0]

NoConf == [drf |-> 0, rf |-> 0, cf |-> 0, known |-> {}]

\* CreateIstgtConf
ConfOf(c) == [drf |-> c.drf, rf |-> c.rf, cf |-> c.cf, known |-> c.known]

\* istgt after it has read a configuration file (external)
StartedFrom(c) == [drf |-> c.drf, rf |-> c.rf, known |-> c.known]

\* isHAVolume
IsHAVolume(pools) == Cardinality(pools) >= 3

\* The label of the PDB a volume on these pools points to
PDBFor(pools) == IF IsHAVolume(pools) THEN pools ELSE {}

\* createVolumeOperation has placed the volume, with CVRs that hold no replica id
\* yet; the target pod is about to start for the first time.
Init ==
  /\ \E pools \in Placements :
       /\ cvc = [spec |-> pools, status |-> pools, hash |-> pools, pdb |-> PDBFor(pools)]
       /\ cv = [drf |-> Cardinality(pools), rf |-> Cardinality(pools),
                cf |-> Quorum(Cardinality(pools)), known |-> {}, seen |-> {}]
       /\ cvr = [p \in Pool |-> IF p \in pools THEN "live" ELSE "none"]
       /\ pdbs = {PDBFor(pools)} \ {{}}
  /\ cvcCache = cvc
  /\ hasID = {}
  /\ opAt = "idle"
  /\ opBase = NoCVC
  /\ opCVC = NoCVC
  /\ opCV = NoCV
  /\ opPool = {}
  /\ opFound = {}
  /\ vmAt = "down"
  /\ vmCV = NoCV
  /\ rpcAt = "idle"
  /\ rpcReq = NoRequest
  /\ rpcCV = NoCV
  /\ late = {}
  /\ conf = NoConf
  /\ tgt = StartedFrom(NoConf)
  /\ up = {}
  /\ edits = 0
  /\ faults = 0

Fault(kind) ==
  /\ kind \in FaultKinds
  /\ faults < MaxFaults
  /\ faults' = faults + 1

-----------------------------------------------------------------------------
(* The user, the webhook and the informer                                  *)

\* validatePoolListChanges: compares the new spec with the old status.
ValidatePoolListChanges(old, new) ==
  LET modified == old.status \ new.spec
  IN  IF Cardinality(new.spec) >= Cardinality(old.status)
      THEN modified = {}
      ELSE Cardinality(modified) <= 1

\* isScalingInProgress
IsScalingInProgress(c) == Cardinality(c.spec) # Cardinality(c.status)

\* validateReplicaScaling: while scaling is in progress, the length stays.
ValidateReplicaScaling(old, new) ==
  IsScalingInProgress(old) => Cardinality(new.spec) = Cardinality(old.spec)

\* validateCVCSpecChanges, for the users' and for the controller's Updates.
\* Nothing else in this model touches the fields of the other validations.
ValidateCVCSpecChanges(old, new) ==
  /\ ValidatePoolListChanges(old, new)
  /\ ValidateReplicaScaling(old, new)

\* Every replica has its id, is connected and is admitted by istgt.
AllHealthy == cvc.status \subseteq tgt.known \cap up \cap hasID

\* What the tutorial on migration does, step by step:
\*   settled - one edit after the other;
\*   one     - an edit adds one pool, or removes one;
\*   gone    - the replica an earlier edit has removed is gone;
\*   ready   - a pool is added when every replica is Healthy;
\*   joined  - a pool is removed when every replica is Healthy.
Disciplined(pools) ==
  /\ "settled" \in Discipline => cvc.spec = cvc.status
  /\ "one" \in Discipline => Cardinality(pools \ cvc.spec) <= 1
  /\ "gone" \in Discipline => \A p \in Pool : cvr[p] # "deleting"
  /\ "ready" \in Discipline /\ pools \ cvc.spec # {} => AllHealthy
  /\ "joined" \in Discipline /\ cvc.spec \ pools # {} => AllHealthy

\* The user edits the pool list.
EditPools(pools) ==
  /\ edits < MaxEdits
  /\ pools \notin {{}, cvc.spec}
  /\ ValidateCVCSpecChanges(cvc, [cvc EXCEPT !.spec = pools])
  /\ Disciplined(pools)
  /\ cvc' = [cvc EXCEPT !.spec = pools]
  /\ edits' = edits + 1
  /\ UNCHANGED <<cvcCache, cv, cvrVars, pdbs, opVars, vmVars, rpcVars, conf, tgt,
                 up, faults>>

\* A watch event brings the informer cache of the CVC controller up to date.
WatchCVC ==
  /\ cvcCache # cvc
  /\ cvcCache' = cvc
  /\ UNCHANGED <<cvc, cv, cvrVars, pdbs, opVars, vmVars, rpcVars, conf, tgt, up,
                 edits, faults>>

-----------------------------------------------------------------------------
(* The CVC controller: one worker at a time holds the key of this CVC      *)

outsideOp == <<cvcCache, vmVars, rpcVars, conf, tgt, up, edits>>

\* isCVCScalePending
IsCVCScalePending(c) == c.spec # c.status

\* The worker is done with the key.
Release ==
  /\ opAt' = "idle"
  /\ opBase' = NoCVC
  /\ opCVC' = NoCVC
  /\ opCV' = NoCV
  /\ opPool' = {}
  /\ opFound' = {}

\* The rest of syncCVC for a Bound CVC without a pending resize, on the cached
\* CVC: scaleVolumeReplicas (whose result is ignored), then syncPolicySpec.
\* Lists of equal length mean "Migration of volume replicas is not supported".
SyncCVC ==
  /\ opAt = "idle"
  /\ IsCVCScalePending(cvcCache) \/ cvcCache.hash # cvcCache.spec
  /\ opAt' = IF Cardinality(cvcCache.spec) > Cardinality(cvcCache.status)
               THEN "up"
             ELSE IF Cardinality(cvcCache.spec) < Cardinality(cvcCache.status)
               THEN "down"
             ELSE "policy"
  /\ opBase' = cvcCache
  /\ opCVC' = cvcCache
  /\ UNCHANGED <<cvc, cv, cvrVars, pdbs, opCV, opPool, opFound, faults, outsideOp>>

\* scaleUpVolumeReplicas: GET the CV, and whether its DRF has to grow.
ScaleUpVolumeReplicas ==
  /\ opAt = "up"
  /\ opAt' = IF cv.drf < Cardinality(opCVC.spec) THEN "raise" ELSE "create"
  /\ opCV' = cv
  /\ UNCHANGED <<cvc, cv, cvrVars, pdbs, opBase, opCVC, opPool, opFound, faults,
                 outsideOp>>

\* updateCStorVolumeInfo with the larger DRF.
RaiseDRF ==
  /\ opAt = "raise"
  /\ IF cv = opCV
     THEN /\ cv' = [cv EXCEPT !.drf = Cardinality(opCVC.spec)]
          /\ opAt' = "create"
     ELSE /\ opAt' = "policy"
          /\ UNCHANGED cv
  /\ opCV' = NoCV
  /\ UNCHANGED <<cvc, cvrVars, pdbs, opBase, opCVC, opPool, opFound, faults,
                 outsideOp>>

\* handleVolumeReplicaCreation: a CVR on each new pool that has none, with its
\* replica id; if some could not be created, the rest is, and an error returned.
HandleVolumeReplicaCreation ==
  LET missing == {p \in opCVC.spec \ opCVC.status : cvr[p] = "none"}
  IN  /\ opAt = "create"
      /\ \E made \in SUBSET missing :
           /\ IF made = missing
              THEN opAt' = "check" /\ UNCHANGED faults
              ELSE opAt' = "policy" /\ Fault("call")
           /\ cvr' = [p \in Pool |-> IF p \in made THEN "live" ELSE cvr[p]]
           /\ hasID' = hasID \cup made
      /\ opCV' = NoCV
      /\ UNCHANGED <<cvc, cv, pdbs, opBase, opCVC, opPool, opFound, outsideOp>>

\* updateCVCWithScaledUpInfo: LIST the CVRs; when each new pool has one, the
\* pools go to the status of the worker's own object.
UpdateCVCWithScaledUpInfo ==
  /\ opAt = "check"
  /\ IF \A p \in opCVC.spec \ opCVC.status : cvr[p] # "none"
     THEN /\ opCVC' = [opCVC EXCEPT !.status = @ \cup opCVC.spec]
          /\ opAt' = "deletePDB"
     ELSE /\ opAt' = "policy"
          /\ UNCHANGED opCVC
  /\ UNCHANGED <<cvc, cv, cvrVars, pdbs, opBase, opCV, opPool, opFound, faults,
                 outsideOp>>

\* scaleDownVolumeReplicas: GET the CV.
ScaleDownVolumeReplicas ==
  /\ opAt = "down"
  /\ opCV' = cv
  /\ opAt' = "getCVR"
  /\ UNCHANGED <<cvc, cv, cvrVars, pdbs, opBase, opCVC, opPool, opFound, faults,
                 outsideOp>>

\* getScaleDownCVR: GET the CVR on the first pool that is to go.  When there is
\* none the client returns an empty object, not nil.
GetScaleDownCVR ==
  /\ opAt = "getCVR"
  /\ \E p \in opCVC.status \ opCVC.spec :
       /\ opPool' = {p}
       /\ opFound' = IF cvr[p] = "none" THEN {}
                     ELSE IF p \in hasID THEN {"object", "id"}
                     ELSE {"object"}
  /\ opAt' = "lower"
  /\ UNCHANGED <<cvc, cv, cvrVars, pdbs, opBase, opCVC, opCV, faults, outsideOp>>

\* IsScaleDownInProgress
IsScaleDownInProgress(c) == Cardinality(c.seen) > Cardinality(c.known)

\* Mutation: the CVR is deleted without waiting for the scale down.
AfterLowerAtOnce(c) == "deleteCVR"

\* Where scaleDownVolumeReplicas goes once it holds the latest CV.
AfterLower(c) == IF IsScaleDownInProgress(c) THEN "policy" ELSE "deleteCVR"

\* The smaller DRF, and the known replicas without the one that goes, are
\* written unless the DRF is there already.
LowerDRF ==
  LET n == Cardinality(opCVC.spec)
      gone == IF "id" \in opFound THEN opPool ELSE {}
  IN  /\ opAt = "lower"
      /\ \/ /\ opCV.drf <= n
            /\ opAt' = AfterLower(opCV)
            /\ UNCHANGED cv
         \/ /\ opCV.drf > n
            /\ cv = opCV
            /\ cv' = [cv EXCEPT !.drf = n, !.known = @ \ gone]
            /\ opAt' = AfterLower(cv')
         \/ /\ opCV.drf > n
            /\ cv # opCV
            /\ opAt' = "policy"
            /\ UNCHANGED cv
      /\ opCV' = NoCV
      /\ UNCHANGED <<cvc, cvrVars, pdbs, opBase, opCVC, opPool, opFound, faults,
                     outsideOp>>

\* The DELETE of the CVR, which its finalizer keeps until the pool manager is
\* done.  The empty object has no name, and the client refuses to delete it.
DeleteCVR ==
  /\ opAt = "deleteCVR"
  /\ IF "object" \in opFound /\ (\A p \in opPool : cvr[p] # "none")
     THEN /\ cvr' = [p \in Pool |-> IF p \in opPool THEN "deleting" ELSE cvr[p]]
          /\ opCVC' = [opCVC EXCEPT !.status = opCVC.spec]
          /\ opAt' = "deletePDB"
     ELSE /\ opAt' = "policy"
          /\ UNCHANGED <<cvr, opCVC>>
  /\ UNCHANGED <<cvc, cv, hasID, pdbs, opBase, opCV, opPool, opFound, faults,
                 outsideOp>>

\* getUpdatePDBForVolume: deletePDBIfNotInUse for the PDB of the label, ...
DeletePDBIfNotInUse ==
  /\ opAt = "deletePDB"
  /\ pdbs' = IF cvc.pdb = opCVC.pdb THEN pdbs \ {opCVC.pdb} ELSE pdbs
  /\ opAt' = "createPDB"
  /\ UNCHANGED <<cvc, cv, cvrVars, opBase, opCVC, opCV, opPool, opFound, faults,
                 outsideOp>>

\* Mutation: the pools before scaling decide which PDB the volume gets.
PDBOfEarlierPools ==
  /\ opAt = "createPDB"
  /\ pdbs' = pdbs \cup ({PDBFor(opBase.status)} \ {{}})
  /\ opCVC' = [opCVC EXCEPT !.pdb = PDBFor(opBase.status)]
  /\ opAt' = "store"
  /\ UNCHANGED <<cvc, cv, cvrVars, opBase, opCV, opPool, opFound, faults, outsideOp>>

\* ... getOrCreatePodDisruptionBudget for an HA volume, and the new label on the
\* worker's own object.
GetOrCreatePodDisruptionBudget ==
  /\ opAt = "createPDB"
  /\ pdbs' = pdbs \cup ({PDBFor(opCVC.status)} \ {{}})
  /\ opCVC' = [opCVC EXCEPT !.pdb = PDBFor(opCVC.status)]
  /\ opAt' = "store"
  /\ UNCHANGED <<cvc, cv, cvrVars, opBase, opCV, opPool, opFound, faults, outsideOp>>

\* An Update of the CVC passes the webhook and must be on the latest version.
UpdateAccepted(new) == cvc = opBase /\ ValidateCVCSpecChanges(cvc, new)

\* The Update at the end of updatePDBForScaledVolume.
UpdatePDBForScaledVolume ==
  /\ opAt = "store"
  /\ cvc' = IF UpdateAccepted(opCVC) THEN opCVC ELSE cvc
  /\ opAt' = "policy"
  /\ UNCHANGED <<cv, cvrVars, pdbs, opBase, opCVC, opCV, opPool, opFound, faults,
                 outsideOp>>

\* syncPolicySpec: an object whose policy hash is not the one of its spec is
\* Updated as a whole, with all that scaling has changed in it.
SyncPolicySpec ==
  /\ opAt = "policy"
  /\ cvc' = IF opCVC.hash # opCVC.spec /\ UpdateAccepted(opCVC)
            THEN [opCVC EXCEPT !.hash = opCVC.spec] ELSE cvc
  /\ Release
  /\ UNCHANGED <<cv, cvrVars, pdbs, faults, outsideOp>>

\* A call of scaleVolumeReplicas fails: its error is ignored.  A call of
\* syncPolicySpec fails: the key is queued again.
CallFails ==
  /\ opAt # "idle"
  /\ Fault("call")
  /\ IF opAt = "policy"
     THEN Release
     ELSE opAt' = "policy" /\ UNCHANGED <<opBase, opCVC, opCV, opPool, opFound>>
  /\ UNCHANGED <<cvc, cv, cvrVars, pdbs, outsideOp>>

\* The operator stops and is started again.
OperatorRestart ==
  /\ opAt # "idle"
  /\ Fault("operator")
  /\ Release
  /\ UNCHANGED <<cvc, cv, cvrVars, pdbs, outsideOp>>

-----------------------------------------------------------------------------
(* The volume manager's worker                                             *)

outsideVM == <<cvc, cvcCache, cvrVars, pdbs, opVars, rpcVars, up, edits>>

\* IsDRFPending reads istgt.conf; without the file it answers no.
IsDRFPending(c) ==
  /\ conf.drf # 0
  /\ conf.drf # c.drf \/ Cardinality(c.known) < Cardinality(c.seen)

\* Mutation: equal numbers of known replicas are taken for an error as well.
UpdateCStorVolumeDRFDownOnly ==
  /\ vmAt = "idle"
  /\ IsDRFPending(cv)
  /\ Cardinality(cv.known) < Cardinality(cv.seen)
  /\ vmAt' = "health"
  /\ vmCV' = cv
  /\ UNCHANGED <<cv, conf, tgt, faults, outsideVM>>

\* updateCStorVolumeDRF, on the CV that QOpModify or QOpPeriodicSync has read:
\* fewer known replicas in the spec than in the status are a scale down, as
\* many a scale up, and more an error.
UpdateCStorVolumeDRF ==
  /\ vmAt = "idle"
  /\ IsDRFPending(cv)
  /\ \/ Cardinality(cv.known) < Cardinality(cv.seen) /\ vmAt' = "health"
     \/ Cardinality(cv.known) = Cardinality(cv.seen) /\ vmAt' = "grow"
  /\ vmCV' = cv
  /\ UNCHANGED <<cv, conf, tgt, faults, outsideVM>>

\* The handler of the event ends here as far as this model goes: the status it
\* still stores holds nothing else, and is refused once the CV has changed.
VMDone == vmAt' = "idle" /\ vmCV' = NoCV

\* triggerScaleUpProcess: the drf command ...
GrowTarget ==
  /\ vmAt = "grow"
  /\ \/ /\ tgt.drf # 0
        /\ tgt' = [tgt EXCEPT !.drf = vmCV.drf]
        /\ vmAt' = "growConf"
        /\ UNCHANGED <<vmCV, faults>>
     \/ /\ IF tgt.drf = 0 THEN UNCHANGED faults ELSE Fault("call")
        /\ VMDone
        /\ UNCHANGED tgt
  /\ UNCHANGED <<cv, conf, outsideVM>>

\* ... and then the DesiredReplicationFactor line of istgt.conf.
GrowConf ==
  /\ vmAt = "growConf"
  /\ \/ conf' = [conf EXCEPT !.drf = vmCV.drf] /\ UNCHANGED faults
     \/ Fault("disk") /\ UNCHANGED conf
  /\ VMDone
  /\ UNCHANGED <<cv, tgt, outsideVM>>

\* istgt calls the volume Healthy when as many admitted replicas as its
\* replication factor are (external).
TargetHealthy == tgt.drf # 0 /\ Cardinality(tgt.known \cap up) >= tgt.rf

\* triggerScaleDownProcess: GetVolumeStatus, the volume Healthy, and each replica
\* of the spec (AreSpecReplicasHealthy).
CheckHealth ==
  /\ vmAt = "health"
  /\ \/ /\ TargetHealthy
        /\ vmCV.known \subseteq up
        /\ vmAt' = IF vmCV.drf < vmCV.rf THEN "shrinkConf" ELSE "shrink"
        /\ UNCHANGED <<vmCV, faults>>
     \/ /\ IF TargetHealthy /\ vmCV.known \subseteq up
             THEN Fault("call") ELSE UNCHANGED faults
        /\ VMDone
  /\ UNCHANGED <<cv, conf, tgt, outsideVM>>

\* BuildScaleDownConfigData goes to istgt.conf: the factors, and the Replica line
\* of the id GetRemovingReplicaID has found is blanked.
ShrinkConf ==
  /\ vmAt = "shrinkConf"
  /\ \/ /\ \E p \in vmCV.seen \ vmCV.known :
             conf' = [drf |-> vmCV.drf, rf |-> vmCV.drf, cf |-> Quorum(vmCV.drf),
                      known |-> conf.known \ {p}]
        /\ vmAt' = "factors"
        /\ UNCHANGED <<vmCV, faults>>
     \/ /\ Fault("disk")
        /\ VMDone
        /\ UNCHANGED conf
  /\ UNCHANGED <<cv, tgt, outsideVM>>

\* Mutation: the consistency factor is half of the replicas, not a majority.
WithHalf(c) == [c EXCEPT !.rf = c.drf, !.cf = c.drf \div 2]

\* The CV with the factors that follow its DRF
WithFactors(c) == [c EXCEPT !.rf = c.drf, !.cf = Quorum(c.drf)]

\* The Update of the CV's factors.
StoreFactors ==
  /\ vmAt = "factors"
  /\ \/ /\ cv = vmCV
        /\ cv' = WithFactors(cv)
        /\ vmCV' = cv'
        /\ vmAt' = "shrink"
        /\ UNCHANGED faults
     \/ /\ IF cv = vmCV THEN Fault("call") ELSE UNCHANGED faults
        /\ VMDone
        /\ UNCHANGED cv
  /\ UNCHANGED <<conf, tgt, outsideVM>>

\* The drf command with the list of the replicas that stay: istgt drops the
\* others, and a replication factor beyond the new DRF (external).
ShrinkTarget ==
  /\ vmAt = "shrink"
  /\ \/ /\ tgt.drf # 0
        /\ tgt' = [drf |-> vmCV.drf,
                   rf |-> IF tgt.rf > vmCV.drf THEN vmCV.drf ELSE tgt.rf,
                   known |-> tgt.known \cap vmCV.known]
        /\ vmAt' = "seen"
        /\ UNCHANGED <<vmCV, faults>>
     \/ /\ IF tgt.drf = 0 THEN UNCHANGED faults ELSE Fault("call")
        /\ VMDone
        /\ UNCHANGED tgt
  /\ UNCHANGED <<cv, conf, outsideVM>>

\* The Update of the CV's status: the scale down is complete.
StoreSeen ==
  /\ vmAt = "seen"
  /\ \/ cv = vmCV /\ cv' = [cv EXCEPT !.seen = cv.known] /\ UNCHANGED faults
     \/ (IF cv = vmCV THEN Fault("call") ELSE UNCHANGED faults) /\ UNCHANGED cv
  /\ VMDone
  /\ UNCHANGED <<conf, tgt, outsideVM>>

\* QOpAdd after a start: GET the CV ...
HandleAdd ==
  /\ vmAt = "down"
  /\ vmAt' = "write"
  /\ vmCV' = cv
  /\ UNCHANGED <<cv, conf, tgt, faults, outsideVM>>

\* ... and CreateVolumeTarget: istgt.conf is written anew, and a failure to write
\* it is only logged.  An istgt that waits for the file starts; one that runs
\* keeps its replicas and factors (external).
CreateVolumeTarget ==
  /\ vmAt = "write"
  /\ \/ conf' = ConfOf(vmCV) /\ UNCHANGED faults
     \/ Fault("create") /\ UNCHANGED conf
  /\ tgt' = IF tgt.drf = 0 THEN StartedFrom(conf') ELSE tgt
  /\ VMDone
  /\ UNCHANGED <<cv, outsideVM>>

-----------------------------------------------------------------------------
(* istgt and the target server                                             *)

\* StartTargetServer serves every connection in a goroutine of its own.  istgt has
\* one open connection; a goroutine whose connection is gone still goes on, beside
\* the goroutine of the next one.
outsideRPC == <<cvc, cvcCache, cvrVars, pdbs, opVars, vmVars, late, up, edits>>

RPCDone == rpcAt' = "idle" /\ rpcReq' = NoRequest /\ rpcCV' = NoCV

\* The request istgt sends for a replica it has not admitted, is connected and
\* has all the data; with it the factor may grow, up to the DRF (external).
RequestFor(p) ==
  LET n == Cardinality(tgt.known \cup {p})
      rf == IF n > tgt.rf THEN n ELSE tgt.rf
  IN  [id |-> {p}, rf |-> rf, cf |-> Quorum(rf)]

\* ServeRequest and the GET and the checks of UpdateCVWithReplicationDetails; a
\* request that fails them is answered with Err, and istgt sends it again.
ServeRequest(p) ==
  LET req == RequestFor(p)
  IN  /\ rpcAt = "idle"
      /\ vmAt # "down"
      /\ p \in up \ tgt.known
      /\ Cardinality(tgt.known) < tgt.drf
      /\ p \in cv.known \/ Cardinality(cv.known) < cv.drf
      /\ cv.rf <= req.rf
      /\ cv.cf <= req.cf
      /\ rpcAt' = "update"
      /\ rpcReq' = req
      /\ rpcCV' = cv
      /\ UNCHANGED <<cv, conf, tgt, faults, outsideRPC>>

\* Mutation: the replica goes to the spec's list only.
UpdateSpecOnly ==
  /\ rpcAt = "update"
  /\ \/ /\ cv = rpcCV
        /\ cv' = [cv EXCEPT !.rf = rpcReq.rf, !.cf = rpcReq.cf,
                            !.known = @ \cup rpcReq.id]
        /\ rpcAt' = "conf"
        /\ UNCHANGED <<rpcReq, rpcCV, faults>>
     \/ /\ IF cv = rpcCV THEN Fault("call") ELSE UNCHANGED faults
        /\ RPCDone
        /\ UNCHANGED cv
  /\ UNCHANGED <<conf, tgt, outsideRPC>>

\* The Update of the CV: factors, and the replica known to spec and status.
UpdateCVWithReplicationDetails ==
  /\ rpcAt = "update"
  /\ \/ /\ cv = rpcCV
        /\ cv' = [cv EXCEPT !.rf = rpcReq.rf, !.cf = rpcReq.cf,
                            !.known = @ \cup rpcReq.id, !.seen = @ \cup rpcReq.id]
        /\ rpcAt' = "conf"
        /\ UNCHANGED <<rpcReq, rpcCV, faults>>
     \/ /\ IF cv = rpcCV THEN Fault("call") ELSE UNCHANGED faults
        /\ RPCDone
        /\ UNCHANGED cv
  /\ UNCHANGED <<conf, tgt, outsideRPC>>

\* UpdateConfig, then the answer: on Ok, istgt admits the replica (external).
\* Without the file, the write fails.
UpdateConfig ==
  /\ rpcAt = "conf"
  /\ \/ /\ conf.drf # 0
        /\ conf' = [conf EXCEPT !.rf = rpcReq.rf, !.cf = rpcReq.cf,
                                !.known = @ \cup rpcReq.id]
        /\ tgt' = [tgt EXCEPT !.rf = rpcReq.rf, !.known = @ \cup rpcReq.id]
        /\ UNCHANGED faults
     \/ /\ IF conf.drf = 0 THEN UNCHANGED faults ELSE Fault("disk")
        /\ UNCHANGED <<conf, tgt>>
  /\ RPCDone
  /\ UNCHANGED <<cv, outsideRPC>>

outsideLate == <<cvc, cvcCache, cvrVars, pdbs, opVars, vmVars, rpcAt, rpcReq, rpcCV, tgt,
                 up, edits>>

Comes(g, at) == late' = (late \ {g}) \cup {[g EXCEPT !.at = at]}

\* The Update of the CV, by a goroutine that has lost its connection
LateUpdate(g) ==
  /\ g.at = "update"
  /\ \/ /\ cv = g.cv
        /\ cv' = [cv EXCEPT !.rf = g.req.rf, !.cf = g.req.cf,
                            !.known = @ \cup g.req.id, !.seen = @ \cup g.req.id]
        /\ Comes(g, "conf")
        /\ UNCHANGED faults
     \/ /\ IF cv = g.cv THEN Fault("call") ELSE UNCHANGED faults
        /\ Comes(g, "done")
        /\ UNCHANGED cv
  /\ UNCHANGED <<conf, outsideLate>>

\* UpdateConfig, by a goroutine that has lost its connection: nobody reads the answer.
LateConfig(g) ==
  /\ g.at = "conf"
  /\ \/ /\ conf.drf # 0
        /\ conf' = [conf EXCEPT !.rf = g.req.rf, !.cf = g.req.cf,
                                !.known = @ \cup g.req.id]
        /\ UNCHANGED faults
     \/ /\ IF conf.drf = 0 THEN UNCHANGED faults ELSE Fault("disk")
        /\ UNCHANGED conf
  /\ Comes(g, "done")
  /\ UNCHANGED <<cv, outsideLate>>

-----------------------------------------------------------------------------
(* The replicas, and restarts in the target pod                            *)

outsidePool == <<cvc, cvcCache, cv, pdbs, opVars, vmVars, rpcVars, conf, tgt, edits>>

\* The replica's controller stores the id it has generated in the CVR.
PersistReplicaID(p) ==
  /\ cvr[p] = "live"
  /\ p \notin hasID
  /\ hasID' = hasID \cup {p}
  /\ UNCHANGED <<cvr, up, faults, outsidePool>>

\* The replica connects to istgt, and is rebuilt if it has to be (external).
ReplicaUp(p) ==
  /\ cvr[p] # "none"
  /\ p \notin up
  /\ up' = up \cup {p}
  /\ UNCHANGED <<cvrVars, faults, outsidePool>>

\* The replica loses its connection.
ReplicaDown(p) ==
  /\ p \in up
  /\ Fault("replica")
  /\ up' = up \ {p}
  /\ UNCHANGED <<cvrVars, outsidePool>>

\* The replica's controller has destroyed the data of a deleted CVR, and takes
\* its finalizer off.
DestroyReplica(p) ==
  /\ cvr[p] = "deleting"
  /\ cvr' = [cvr EXCEPT ![p] = "none"]
  /\ hasID' = hasID \ {p}
  /\ up' = up \ {p}
  /\ UNCHANGED <<faults, outsidePool>>

ServerStops ==
  /\ RPCDone
  /\ late' = {[g EXCEPT !.at = "done"] : g \in late}

outsidePod == <<cvc, cvcCache, cv, cvrVars, pdbs, opVars, edits>>

\* The request that is being served loses its connection.
HangUp ==
  /\ late' = IF rpcAt = "idle" THEN late
             ELSE late \cup {[at |-> rpcAt, req |-> rpcReq, cv |-> rpcCV, n |-> faults']}
  /\ RPCDone

\* The volume manager's container restarts; its target server goes with it.
VolumeMgmtRestart ==
  /\ vmAt # "down"
  /\ Fault("volume-mgmt")
  /\ vmAt' = "down"
  /\ vmCV' = NoCV
  /\ ServerStops
  /\ UNCHANGED <<conf, tgt, up, outsidePod>>

\* The istgt container restarts and reads istgt.conf (external).
TargetRestart ==
  /\ tgt.drf # 0
  /\ Fault("target")
  /\ tgt' = StartedFrom(conf)
  /\ up' = {}
  /\ HangUp
  /\ UNCHANGED <<vmVars, conf, outsidePod>>

\* The target pod is recreated: istgt.conf goes with it (external).
PodRestart ==
  /\ Fault("pod")
  /\ vmAt' = "down"
  /\ vmCV' = NoCV
  /\ ServerStops
  /\ conf' = NoConf
  /\ tgt' = StartedFrom(NoConf)
  /\ up' = {}
  /\ UNCHANGED outsidePod

-----------------------------------------------------------------------------
ScaleUp ==
  \/ ScaleUpVolumeReplicas \/ RaiseDRF \/ HandleVolumeReplicaCreation
  \/ UpdateCVCWithScaledUpInfo

ScaleDown == ScaleDownVolumeReplicas \/ GetScaleDownCVR \/ LowerDRF \/ DeleteCVR

Worker ==
  \/ SyncCVC \/ ScaleUp \/ ScaleDown
  \/ DeletePDBIfNotInUse \/ GetOrCreatePodDisruptionBudget
  \/ UpdatePDBForScaledVolume \/ SyncPolicySpec

VolumeManager ==
  \/ UpdateCStorVolumeDRF \/ GrowTarget \/ GrowConf
  \/ CheckHealth \/ ShrinkConf \/ StoreFactors \/ ShrinkTarget \/ StoreSeen
  \/ HandleAdd \/ CreateVolumeTarget

TargetServer(p) == ServeRequest(p) \/ UpdateCVWithReplicationDetails \/ UpdateConfig

Late == \E g \in late : LateUpdate(g) \/ LateConfig(g)

Replica(p) == PersistReplicaID(p) \/ ReplicaUp(p) \/ DestroyReplica(p)

Next ==
  \/ \E pools \in SUBSET Pool : EditPools(pools)
  \/ WatchCVC
  \/ Worker \/ CallFails \/ OperatorRestart
  \/ VolumeManager
  \/ \E p \in Pool : TargetServer(p) \/ Replica(p) \/ ReplicaDown(p)
  \/ Late
  \/ VolumeMgmtRestart \/ TargetRestart \/ PodRestart

Spec == Init /\ [][Next]_vars

\* Work queues, informers and the periodic resync come back to what is undone;
\* istgt keeps asking for a replica it wants; a replica keeps reconnecting.
FairSpec ==
  /\ Spec
  /\ WF_vars(WatchCVC) /\ WF_vars(Worker) /\ WF_vars(VolumeManager)
  /\ \A p \in Pool : SF_vars(ServeRequest(p)) /\ WF_vars(Replica(p))
  /\ WF_vars(UpdateCVWithReplicationDetails \/ UpdateConfig) /\ WF_vars(Late)

-----------------------------------------------------------------------------
(* Properties                                                              *)

OpSteps == {"idle", "up", "raise", "create", "check", "down", "getCVR", "lower",
            "deleteCVR", "deletePDB", "createPDB", "store", "policy"}

VMSteps == {"down", "write", "idle", "grow", "growConf", "health", "shrinkConf",
            "factors", "shrink", "seen"}

\* The type invariant.
TypeOK ==
  /\ cvc \in CVC /\ cvcCache \in CVC
  /\ cv \in CV
  /\ cvr \in [Pool -> {"none", "live", "deleting"}]
  /\ hasID \subseteq Pool
  /\ pdbs \subseteq SUBSET Pool
  /\ opAt \in OpSteps
  /\ opBase \in CVC /\ opCVC \in CVC /\ opCV \in CV
  /\ opPool \subseteq Pool
  /\ opFound \subseteq {"object", "id"}
  /\ vmAt \in VMSteps
  /\ vmCV \in CV
  /\ rpcAt \in {"idle", "update", "conf"}
  /\ rpcReq \in Request
  /\ rpcCV \in CV
  /\ late \subseteq Goroutine
  /\ conf \in Conf
  /\ tgt \in Target
  /\ up \subseteq Pool
  /\ edits \in 0 .. MaxEdits
  /\ faults \in 0 .. MaxFaults

\* A replica's data is only given up after the volume has let go of it: every
\* replica that the CV, the running target or the file it restarts from counts
\* as a member still has its CVR, whatever crashes, conflicts and stale caches
\* come between the steps of scaleDownVolumeReplicas and triggerScaleDownProcess.
\* (A replica whose request outlived its connection is not among them: the goroutine
\* may write its line into istgt.conf after the replica is gone.)
MembersLive ==
  \A p \in cv.known \cup cv.seen \cup tgt.known \cup conf.known :
    p \notin UNION {g.req.id : g \in late} => cvr[p] = "live"

\* A write is acknowledged by a quorum of the running target's members, and a
\* target that restarts serves the volume with a quorum of the members that
\* istgt.conf (or a pod that restarts: the CV) lists.  The two always meet, so
\* no restart in the middle of scaling loses an acknowledged write, as long as no
\* request outlives its connection.
QuorumsOverlap ==
  late = {} =>
  /\ conf.drf # 0 /\ tgt.drf # 0 =>
       conf.cf + Quorum(tgt.rf) > Cardinality(conf.known \cup tgt.known)
  /\ tgt.drf # 0 =>
       cv.cf + Quorum(tgt.rf) > Cardinality(cv.known \cup tgt.known)

\* "No.of entries in spec.KnownReplicas and status.knownReplicas will vary only
\* in the scaledown process else always it will be same": a replica on its way
\* out is the one pool the CVC's status lists and its spec does not.
DepartureIsRequested ==
  /\ cv.known \subseteq cv.seen
  /\ cv.seen \ cv.known \subseteq cvc.status \ cvc.spec

\* Once scaling has come to rest, an HA volume's label names an existing PDB over
\* exactly its pools, and any other volume has no label.
RestingVolumeIsGuarded ==
  cvc.spec = cvc.status =>
    /\ cvc.pdb = PDBFor(cvc.status)
    /\ cvc.pdb # {} => cvc.pdb \in pdbs

\* A pool that is asked for gets its replica: the CVC reports it, and the target
\* admits it.
RequestedReplicaJoins ==
  \A p \in Pool :
    p \in cvc.spec ~> (p \in cvc.status \cap tgt.known \/ p \notin cvc.spec)

=============================================================================
