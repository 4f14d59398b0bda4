------------------------ MODULE VolumeProvisionProofs ------------------------
(***************************************************************************)
(* Theorems about VolumeProvision, for any volumes, pools, clones and      *)
(* policies, any number of workers and any number of faults.  Two of them  *)
(* say what they assume about edits of the policy object while a volume is *)
(* provisioned with it.                                                    *)
(***************************************************************************)
EXTENDS VolumeProvision, FiniteSetTheorems, TLAPS

(* How far a pass of createVolumeOperation has come. *)
Listed == {"listPDBs", "createPDB", "bind"}
Placed == {"names"} \cup Listed
Chosen == {"create"} \cup Placed
Targeted == {"count", "place"} \cup Chosen
Stored == {"target"} \cup Targeted
Served == {"volume"} \cup Stored
Decided == {"service"} \cup Served
Creating == {"policy"} \cup Decided
Syncing == {"sync", "hash"}

(***************************************************************************)
(* The phases.  A CVC goes from none to Pending, Bound and gone; the cache *)
(* and the CVC a worker started from are never ahead of it, and what the   *)
(* worker does fits the phase it started from.                             *)
(***************************************************************************)
PhaseInv(v) ==
  /\ cache[v].phase = "Pending" => cvc[v].phase # "none"
  /\ cache[v].phase = "Bound" => cvc[v].phase \in {"Bound", "gone"}
  /\ cvc[v].phase = "none" => cvr[v] = {}
  /\ opAt[v] # "idle" => Exists(opBase[v]) /\ cvc[v].phase # "none"
  /\ opAt[v] # "idle" /\ opBase[v].phase = "Bound" => cvc[v].phase \in {"Bound", "gone"}
  /\ opAt[v] \in Creating => opBase[v].phase = "Pending"
  /\ opAt[v] \in Syncing => opBase[v].phase = "Bound"
  /\ opAt[v] \in {"version", "policy"} \cup Syncing => opCVC[v] = opBase[v]
  /\ opAt[v] \in Decided => opCVC[v].policy \in Policy

(* A CVC becomes Bound with the policy it was provisioned with. *)
Named(c) == c.phase = "Bound" => c.policy \in Policy
PolicyInv(v) == Named(cvc[v]) /\ Named(cache[v]) /\ Named(opBase[v])

(* A clone is asked for when its source is provisioned. *)
SourceInv(v) == cvc[v].phase # "none" => \A s \in Source[v] : cvc[s].phase \in {"Bound", "gone"}

(***************************************************************************)
(* The replicas and the objects.  The replicas that are there and those    *)
(* the worker is about to create are never too many.  As long as the CVC   *)
(* exists nothing is collected: what a pass has found or created stays,    *)
(* and the replicas are exactly enough.                                    *)
(***************************************************************************)
CountInv(v) ==
  /\ Cardinality(cvr[v]) <= ReplicaCount[v]
  /\ opAt[v] = "place" => opPending[v] + Cardinality(cvr[v]) <= ReplicaCount[v]
  /\ opAt[v] = "create" => Cardinality(cvr[v] \cup opPools[v]) <= ReplicaCount[v]

ObjectInv(v) ==
  /\ Exists(cvc[v]) =>
       /\ opAt[v] \in Served => v \in svc
       /\ opAt[v] \in Stored => v \in cv
       /\ opAt[v] \in Targeted => deploy[v] # NoPolicy
       /\ opAt[v] = "place" => opPending[v] + Cardinality(cvr[v]) = ReplicaCount[v]
       /\ opAt[v] = "create" => Cardinality(cvr[v] \cup opPools[v]) = ReplicaCount[v]
       /\ opAt[v] \in Placed => Cardinality(cvr[v]) = ReplicaCount[v]
       /\ opAt[v] \in Listed => opPools[v] = cvr[v]
  /\ cvc[v].phase = "Bound" =>
       /\ v \in svc /\ v \in cv /\ deploy[v] # NoPolicy
       /\ Cardinality(cvr[v]) = ReplicaCount[v]

(* The pools of a clone are its source's, those it is about to use too. *)
CloneInv(v) ==
  \A s \in Source[v] : Exists(cvc[s]) =>
    /\ cvr[v] \subseteq cvr[s]
    /\ opAt[v] = "create" => opPools[v] \subseteq cvr[s]

Inv(v) == PhaseInv(v) /\ PolicyInv(v) /\ SourceInv(v) /\ CountInv(v) /\ ObjectInv(v) /\ CloneInv(v)

(***************************************************************************)
(* The status.  The pools a policy names are the same for every policy a   *)
(* volume is provisioned with; where they are named there is one for every *)
(* replica, and every replica is on one of them.                           *)
(***************************************************************************)
PoolsFixed == "edit" \in FaultKinds => \A k \in Policy : PolicyPools[k] = PolicyPools[0]

StatusInv(v) ==
  /\ cvr[v] \subseteq CandidatePools(0)
  /\ opAt[v] = "create" => opPools[v] \subseteq CandidatePools(0)
  /\ opAt[v] \in Decided => PolicyPools[opCVC[v].policy] = PolicyPools[0]
  /\ opAt[v] \in Chosen /\ PolicyPools[0] # {} => Cardinality(PolicyPools[0]) = ReplicaCount[v]
  /\ cvc[v].phase = "Bound" => cvc[v].status = cvr[v]

(***************************************************************************)
(* The hash.  The generation of a Bound CVC only grows and says which      *)
(* policy the spec has; the cache and the worker's copy lag behind it, but *)
(* neither behind the generation of the label.                             *)
(***************************************************************************)
Behind(c, d) == c.generation <= d.generation /\ (c.generation = d.generation => c.policy = d.policy)

Hashed(v) ==
  /\ cvc[v].labelled <= cvc[v].generation
  /\ cache[v].phase = "Bound" =>
       cvc[v].labelled <= cache[v].generation /\ Behind(cache[v], cvc[v])
  /\ opAt[v] # "idle" /\ opBase[v].phase = "Bound" =>
       /\ cache[v].phase = "Bound"
       /\ cvc[v].labelled <= opBase[v].generation /\ Behind(opBase[v], cache[v])
  /\ opAt[v] = "hash" => deploy[v] = opBase[v].policy
  /\ cvc[v].labelled = cvc[v].generation => cvc[v].hash = cvc[v].policy /\ deploy[v] = cvc[v].policy

HashInv(v) ==
  /\ cvc[v].phase = "none" => deploy[v] = NoPolicy
  /\ cvc[v].phase = "Pending" => deploy[v] \in {NoPolicy, 0}
  /\ opAt[v] \in Decided => opCVC[v].policy = 0
  /\ cvc[v].phase = "Bound" => Hashed(v)

AllInv == \A v \in Vol : Inv(v)
AllStatus == PolicyPools[policyObj] = PolicyPools[0] /\ \A v \in Vol : StatusInv(v)
AllHash == policyObj = 0 /\ \A v \in Vol : HashInv(v)

-----------------------------------------------------------------------------
(* The CVCs that are not copies. *)
LEMMA CVCType == NoCVC \in CVC /\ NewCVC \in CVC /\ GoneCVC \in CVC
BY Zenon DEF NoCVC, NewCVC, GoneCVC, CVC, NoPDB

(* The CVCs that a write of a copy can leave behind. *)
LEMMA CopyType ==
  ASSUME NEW c \in CVC
  PROVE  /\ [c EXCEPT !.deleting = TRUE] \in CVC /\ [c EXCEPT !.versioned = TRUE] \in CVC
         /\ \A k \in Policy \cup {NoPolicy} : [c EXCEPT !.policy = k] \in CVC /\ Edited(c, k) \in CVC
         /\ Labelled(c) \in CVC
         /\ \A n \in Nat, s \in SUBSET Pool :
              [c EXCEPT !.phase = "Bound", !.pdb = n, !.status = s] \in CVC
<1>1. c.generation + 1 \in Nat
  BY DEF CVC
<1>2. [c EXCEPT !.deleting = TRUE] \in CVC /\ [c EXCEPT !.versioned = TRUE] \in CVC
  BY Zenon DEF CVC
<1>3. ASSUME NEW k \in Policy \cup {NoPolicy}
      PROVE  [c EXCEPT !.policy = k] \in CVC /\ Edited(c, k) \in CVC
  BY <1>1, <1>3, Zenon DEF Edited, CVC
<1>4. Labelled(c) \in CVC
  BY Zenon DEF Labelled, CVC
<1>5. ASSUME NEW n \in Nat, NEW s \in SUBSET Pool
      PROVE  [c EXCEPT !.phase = "Bound", !.pdb = n, !.status = s] \in CVC
  BY <1>5, Zenon DEF CVC
<1> QED
  BY <1>2, <1>3, <1>4, <1>5, Zenon

(* The phases of the CVCs that are not copies. *)
LEMMA CVCPhase ==
  /\ NoCVC.phase = "none" /\ NewCVC.phase = "Pending" /\ GoneCVC.phase = "gone"
BY DEF NoCVC, NewCVC, GoneCVC

(* How far a worker has come is a step. *)
LEMMA StepsType ==
  /\ Creating \cup Syncing \cup {"idle", "version", "listUsers", "deletePDB", "unfinalize"} = Steps
  /\ \A v, c : AfterVersion(v, c) \in {"policy", "sync", "listUsers", "unfinalize"}
BY DEF Creating, Decided, Served, Stored, Targeted, Chosen, Placed, Listed, Syncing, Steps, AfterVersion

(* The state of a volume's worker. *)
WorkerType ==
  /\ opAt \in [Vol -> Steps] /\ opBase \in [Vol -> CVC] /\ opCVC \in [Vol -> CVC]
  /\ opPending \in [Vol -> Nat] /\ opPools \in [Vol -> SUBSET Pool] /\ opPDB \in [Vol -> Nat]

(* A worker that is done, or all of them, at the end of the process. *)
LEMMA ReleaseType ==
  ASSUME TypeOK, NEW v \in Vol, Release(v) \/ ReleaseAll
  PROVE  WorkerType'
<1>1. NoCVC \in CVC /\ "idle" \in Steps /\ NoPDB \in Nat
  BY CVCType DEF Steps, NoPDB
<1>2. CASE Release(v)
  BY <1>1, <1>2 DEF TypeOK, WorkerType, Release, Goto
<1>3. CASE ReleaseAll
  <2>1. opAt' \in [Vol -> Steps] /\ opBase' \in [Vol -> CVC] /\ opCVC' \in [Vol -> CVC]
    BY <1>1, <1>3 DEF ReleaseAll
  <2>2. opPending' \in [Vol -> Nat] /\ opPools' \in [Vol -> SUBSET Pool] /\ opPDB' \in [Vol -> Nat]
    BY <1>1, <1>3 DEF ReleaseAll
  <2> QED
    BY <2>1, <2>2 DEF WorkerType
<1> QED
  BY <1>2, <1>3

(* A fault is counted, and there is a bound. *)
LEMMA FaultType == ASSUME TypeOK, NEW kind, Fault(kind) PROVE faults' \in 0 .. MaxFaults
BY ProvisionAssumption DEF TypeOK, Fault

(* Policies are numbers. *)
LEMMA PolicyType == 0 \in Policy /\ NoPolicy \notin Policy /\ Policy \subseteq Nat
BY ProvisionAssumption DEF Policy, NoPolicy

(* The steps of a worker keep the types; there are never more replicas     *)
(* than are asked for, so that the pending ones can be counted.            *)
LEMMA SyncType == ASSUME TypeOK, NEW v \in Vol, PhaseInv(v), CountInv(v), SyncCVC(v) PROVE TypeOK'
<1>t. /\ WorkerType /\ cvc \in [Vol -> CVC] /\ cache \in [Vol -> CVC] /\ policyObj \in Policy
      /\ svc \subseteq Vol /\ cv \subseteq Vol /\ deploy \in [Vol -> Policy \cup {NoPolicy}]
      /\ cvr \in [Vol -> SUBSET Pool] /\ healthy \subseteq Pool /\ pdbs \in Seq(SUBSET Pool)
  BY DEF TypeOK, WorkerType
<1>w. ASSUME WorkerType', UNCHANGED <<policyObj, cache, healthy, faults>>,
             cvc' \in [Vol -> CVC], svc' \subseteq Vol, cv' \subseteq Vol,
             deploy' \in [Vol -> Policy \cup {NoPolicy}], cvr' \in [Vol -> SUBSET Pool],
             pdbs' \in Seq(SUBSET Pool)
      PROVE  TypeOK'
  BY <1>w DEF TypeOK, WorkerType
<1>s. Steps = {"idle", "version", "policy", "service", "volume", "target", "count", "place",
               "create", "names", "listPDBs", "createPDB", "bind", "sync", "hash",
               "listUsers", "deletePDB", "unfinalize"}
  BY DEF Steps
<1>c. opCVC[v] \in CVC /\ opCVC[v].policy \in Policy \cup {NoPolicy} /\ cvr[v] \subseteq Pool /\ opPools[v] \subseteq Pool
  BY <1>t DEF WorkerType, CVC
<1> USE DEF Goto, outsideOp, objects
<1>1. CASE SyncHandler(v)
  <2>1. (IF cache[v].versioned THEN AfterVersion(v, cache[v]) ELSE "version") \in Steps
    BY <1>s, StepsType
  <2>2. WorkerType'
    BY <1>1, <1>t, <2>1 DEF SyncHandler, WorkerType
  <2> QED
    BY <1>1, <1>t, <1>w, <2>2 DEF SyncHandler
<1>2. CASE PopulateVersion(v)
  <2> DEFINE new == [opCVC[v] EXCEPT !.versioned = TRUE]
  <2>1. new \in CVC /\ AfterVersion(v, new) \in Steps
    BY <1>c, <1>s, CopyType, StepsType, Zenon
  <2>2. WorkerType'
    <3>1. CASE Release(v)
      BY <3>1, ReleaseType
    <3>2. CASE /\ opBase' = [opBase EXCEPT ![v] = new] /\ opCVC' = [opCVC EXCEPT ![v] = new]
               /\ Goto(v, AfterVersion(v, new)) /\ UNCHANGED <<opPending, opPools, opPDB>>
      <4> HIDE DEF new
      <4> QED
        BY <1>t, <2>1, <3>2 DEF WorkerType
    <3> QED
      BY <1>2, <3>1, <3>2 DEF PopulateVersion
  <2>3. cvc' \in [Vol -> CVC]
    BY <1>2, <1>t, <2>1, Zenon DEF PopulateVersion
  <2> QED
    BY <1>2, <1>t, <1>w, <2>2, <2>3 DEF PopulateVersion
<1>3. CASE GetVolumePolicy(v)
  <2>1. [opCVC EXCEPT ![v].policy = policyObj] \in [Vol -> CVC]
    BY <1>t, CopyType, Zenon DEF WorkerType
  <2>2. WorkerType'
    BY <1>3, <1>s, <1>t, <2>1 DEF GetVolumePolicy, WorkerType
  <2> QED
    BY <1>3, <1>t, <1>w, <2>2 DEF GetVolumePolicy
<1>4. CASE GetOrCreateTargetService(v)
  BY <1>4, <1>s, <1>t, <1>w DEF GetOrCreateTargetService, WorkerType
<1>5. CASE GetOrCreateCStorVolumeResource(v)
  BY <1>5, <1>s, <1>t, <1>w DEF GetOrCreateCStorVolumeResource, WorkerType
<1>6. CASE GetOrCreateCStorTargetDeployment(v)
  BY <1>6, <1>c, <1>s, <1>t, <1>w, SMTT(30) DEF GetOrCreateCStorTargetDeployment, WorkerType
<1>7. CASE GetPendingCVRCount(v)
  <2>1. IsFiniteSet(cvr[v]) /\ Cardinality(cvr[v]) \in Nat
    BY <1>c, ProvisionAssumption, FS_Subset, FS_CardinalityType
  <2>2. ReplicaCount[v] - Cardinality(cvr[v]) \in Nat
    BY <2>1, ProvisionAssumption DEF CountInv
  <2> QED
    BY <1>7, <1>s, <1>t, <1>w, <2>2, SMTT(30) DEF GetPendingCVRCount, WorkerType
<1>8. CASE DistributeCVRs(v)
  <2>1. \A S \in Choices(v, opPending[v]) : S \subseteq Pool
    BY <1>t DEF Choices, SanitizedPools
  <2>2. WorkerType'
    <3>1. CASE Release(v)
      BY <3>1, ReleaseType
    <3>2. CASE /\ \E S \in Choices(v, opPending[v]) : opPools' = [opPools EXCEPT ![v] = S]
               /\ Goto(v, "create") /\ UNCHANGED <<opBase, opCVC, opPending, opPDB>>
      BY <1>s, <1>t, <2>1, <3>2 DEF WorkerType
    <3> QED
      BY <1>8, <3>1, <3>2 DEF DistributeCVRs
  <2> QED
    BY <1>8, <1>t, <1>w, <2>2, SMTT(30) DEF DistributeCVRs
<1>9. CASE CreateCVR(v)
  <2>1. cvr' \in [Vol -> SUBSET Pool]
    BY <1>9, <1>c, <1>t DEF CreateCVR
  <2>2. opPools' \in [Vol -> SUBSET Pool] /\ opAt' \in [Vol -> Steps]
    BY <1>9, <1>c, <1>s, <1>t, ZenonT(60) DEF CreateCVR, WorkerType
  <2> QED
    BY <1>9, <1>t, <1>w, <2>1, <2>2 DEF CreateCVR, WorkerType
<1>10. CASE GetVolumeReplicaPoolNames(v)
  BY <1>10, <1>c, <1>s, <1>t, <1>w DEF GetVolumeReplicaPoolNames, WorkerType
<1>11. CASE ListPDBs(v)
  <2>1. DOMAIN pdbs \subseteq Nat
    BY <1>t
  <2> QED
    BY <1>11, <1>s, <1>t, <1>w, <2>1, Zenon DEF ListPDBs, WorkerType
<1>12. CASE CreatePDB(v)
  <2>1. pdbs' \in Seq(SUBSET Pool) /\ Len(pdbs') \in Nat
    BY <1>12, <1>c, <1>t DEF CreatePDB
  <2> QED
    BY <1>12, <1>s, <1>t, <1>w, <2>1, SMTT(30) DEF CreatePDB, WorkerType
<1>13. CASE UpdateCVCObj(v)
  <2>1. opCVC[v].policy \in Policy
    BY <1>13 DEF UpdateCVCObj, PhaseInv, Decided, Served, Stored, Targeted, Chosen, Placed, Listed
  <2>2. opPDB[v] \in Nat /\ PolicyPools[opCVC[v].policy] \cup opPools[v] \in SUBSET Pool
    BY <1>c, <1>t, <2>1, ProvisionAssumption DEF WorkerType
  <2>3. BoundCVC(v) \in CVC
    <3>1. Labelled(opCVC[v]) \in CVC
      BY <1>c, CopyType, Zenon
    <3> QED
      BY <2>2, <3>1, CopyType, Zenon DEF BoundCVC
  <2>4. cvc' \in [Vol -> CVC]
    BY <1>13, <1>t, <2>3 DEF UpdateCVCObj
  <2> QED
    BY <1>13, <1>t, <1>w, <2>4, ReleaseType DEF UpdateCVCObj
<1>14. CASE PatchTargetDeploymentSpec(v)
  <2>1. WorkerType'
    BY <1>14, <1>s, <1>t, ReleaseType, Zenon DEF PatchTargetDeploymentSpec, WorkerType
  <2> QED
    BY <1>14, <1>c, <1>t, <1>w, <2>1 DEF PatchTargetDeploymentSpec
<1>15. CASE SyncPolicySpec(v)
  <2>1. Labelled(opCVC[v]) \in CVC
    BY <1>c, CopyType, Zenon
  <2>2. cvc' \in [Vol -> CVC]
    BY <1>15, <1>t, <2>1 DEF SyncPolicySpec
  <2> QED
    BY <1>15, <1>t, <1>w, <2>2, ReleaseType DEF SyncPolicySpec
<1>16. CASE ListUsers(v)
  BY <1>16, <1>s, <1>t, <1>w DEF ListUsers, WorkerType
<1>17. CASE DeletePDB(v)
  <2>1. pdbs' \in Seq(SUBSET Pool)
    <3>1. \A i : [pdbs EXCEPT ![i] = {}] \in Seq(SUBSET Pool)
      <4> TAKE i
      <4>1. pdbs \in [1 .. Len(pdbs) -> SUBSET Pool] /\ Len(pdbs) \in Nat
        BY <1>t
      <4>2. [pdbs EXCEPT ![i] = {}] \in [1 .. Len(pdbs) -> SUBSET Pool]
        BY <4>1, Zenon
      <4> QED
        BY <4>1, <4>2
    <3> QED
      BY <1>17, <3>1 DEF DeletePDB
  <2> QED
    BY <1>17, <1>s, <1>t, <1>w, <2>1, SMTT(30) DEF DeletePDB, WorkerType
<1>18. CASE RemoveClaimFinalizer(v)
  BY <1>18, <1>t, <1>w, CVCType, ReleaseType DEF RemoveClaimFinalizer
<1> QED
  BY <1>1, <1>2, <1>3, <1>4, <1>5, <1>6, <1>7, <1>8, <1>9, <1>10, <1>11, <1>12, <1>13, <1>14,
     <1>15, <1>16, <1>17, <1>18
  DEF SyncCVC, CreateVolumeOperation

(* Every step keeps the types. *)
LEMMA TypeStep == TypeOK /\ AllInv /\ [Next]_vars => TypeOK'
<1> SUFFICES ASSUME TypeOK, AllInv, [Next]_vars PROVE TypeOK'
  OBVIOUS
<1> USE DEF objects, opVars
<1>1. ASSUME NEW v \in Vol, CreateCVC(v) \/ DeleteCVC(v) PROVE TypeOK'
  <2>1. cvc' \in [Vol -> CVC]
    <3>1. NewCVC \in CVC /\ [cvc[v] EXCEPT !.deleting = TRUE] \in CVC
      BY CVCType, CopyType, Zenon DEF TypeOK
    <3> QED
      BY <1>1, <3>1, Zenon DEF CreateCVC, DeleteCVC, TypeOK
  <2> QED
    BY <1>1, <2>1 DEF CreateCVC, DeleteCVC, TypeOK
<1>2. ASSUME NEW v \in Vol, NEW k \in SpecPolicy, EditSpecPolicy(v, k) PROVE TypeOK'
  <2>1. k \in Policy
    BY ProvisionAssumption
  <2>2. cvc' \in [Vol -> CVC]
    <3>1. Edited(cvc[v], k) \in CVC
      BY <2>1, CopyType, Zenon DEF TypeOK
    <3> QED
      BY <1>2, <3>1 DEF EditSpecPolicy, TypeOK
  <2> QED
    BY <1>2, <2>2 DEF EditSpecPolicy, TypeOK
<1>3. ASSUME NEW k \in Policy, EditPolicyObject(k) PROVE TypeOK'
  BY <1>3, FaultType DEF EditPolicyObject, TypeOK
<1>4. ASSUME NEW v \in Vol, WatchCVC(v) PROVE TypeOK'
  BY <1>4 DEF WatchCVC, TypeOK
<1>5. ASSUME NEW p \in Pool, PoolFails(p) \/ PoolRecovers(p) PROVE TypeOK'
  BY <1>5, FaultType, Zenon DEF PoolFails, PoolRecovers, TypeOK
<1>6. ASSUME NEW v \in Vol, CollectGarbage(v) PROVE TypeOK'
  BY <1>6, Zenon DEF CollectGarbage, TypeOK
<1>7. ASSUME NEW v \in Vol, SyncCVC(v) PROVE TypeOK'
  BY <1>7, SyncType DEF AllInv, Inv
<1>8. ASSUME NEW v \in Vol, CallFails(v) PROVE TypeOK'
  <2>1. WorkerType' /\ faults' \in 0 .. MaxFaults
    BY <1>8, ReleaseType, FaultType DEF CallFails
  <2> QED
    BY <1>8, <2>1, SMTT(30) DEF CallFails, TypeOK, WorkerType, outsideOp
<1>9. ASSUME NEW v \in Vol, ListPanics(v) PROVE TypeOK'
  <2>1. WorkerType' /\ faults' \in 0 .. MaxFaults
    BY <1>9, ReleaseType, FaultType DEF ListPanics, Restart
  <2> QED
    BY <1>9, <2>1, Zenon DEF ListPanics, Restart, TypeOK, WorkerType
<1>10. CASE OperatorRestart
  <2>1. faults' \in 0 .. MaxFaults
    BY <1>10, FaultType DEF OperatorRestart
  <2>2. NoCVC \in CVC /\ "idle" \in Steps /\ NoPDB \in Nat
    BY CVCType DEF Steps, NoPDB
  <2>3. opAt' \in [Vol -> Steps] /\ opBase' \in [Vol -> CVC] /\ opCVC' \in [Vol -> CVC]
    BY <1>10, <2>2 DEF OperatorRestart, Restart, ReleaseAll
  <2>4. opPending' \in [Vol -> Nat] /\ opPools' \in [Vol -> SUBSET Pool] /\ opPDB' \in [Vol -> Nat]
    BY <1>10, <2>2 DEF OperatorRestart, Restart, ReleaseAll
  <2> QED
    BY <1>10, <2>1, <2>3, <2>4, SMTT(30) DEF OperatorRestart, Restart, TypeOK
<1>11. CASE UNCHANGED vars
  BY <1>11 DEF vars, TypeOK
<1> QED
  BY <1>1, <1>2, <1>3, <1>4, <1>5, <1>6, <1>7, <1>8, <1>9, <1>10, <1>11 DEF Next

(* What the invariants say of a volume is untouched. *)
Kept(w) ==
  /\ cvc'[w] = cvc[w] /\ cache'[w] = cache[w] /\ deploy'[w] = deploy[w] /\ cvr'[w] = cvr[w]
  /\ w \in svc' <=> w \in svc
  /\ w \in cv' <=> w \in cv
  /\ opAt'[w] = opAt[w] /\ opBase'[w] = opBase[w] /\ opCVC'[w] = opCVC[w]
  /\ opPending'[w] = opPending[w] /\ opPools'[w] = opPools[w]

(* The steps that a volume has a part in. *)
StepOf(v) ==
  \/ CreateCVC(v) \/ DeleteCVC(v) \/ WatchCVC(v) \/ CollectGarbage(v)
  \/ SyncCVC(v) \/ CallFails(v) \/ \E k \in SpecPolicy : EditSpecPolicy(v, k)

(* A step of one volume leaves the others alone. *)
LEMMA Elsewhere == ASSUME TypeOK, NEW v \in Vol, NEW w \in Vol, w # v, StepOf(v) PROVE Kept(w)
<1> USE DEF Kept, objects, opVars, outsideOp, Goto, Release, TypeOK
<1>1. CASE CreateCVC(v) \/ DeleteCVC(v) \/ WatchCVC(v) \/ \E k \in SpecPolicy : EditSpecPolicy(v, k)
  BY <1>1 DEF CreateCVC, DeleteCVC, WatchCVC, EditSpecPolicy
<1>2. CASE CollectGarbage(v)
  BY <1>2, SMTT(30) DEF CollectGarbage
<1>3. CASE CallFails(v) \/ RemoveClaimFinalizer(v) \/ SyncPolicySpec(v) \/ UpdateCVCObj(v)
  BY <1>3 DEF CallFails, RemoveClaimFinalizer, SyncPolicySpec, UpdateCVCObj
<1>4. CASE SyncHandler(v) \/ PopulateVersion(v)
  BY <1>4 DEF SyncHandler, PopulateVersion
<1>5. CASE \/ GetVolumePolicy(v) \/ GetOrCreateTargetService(v)
           \/ GetOrCreateCStorVolumeResource(v) \/ GetOrCreateCStorTargetDeployment(v)
  BY <1>5 DEF GetVolumePolicy, GetOrCreateTargetService, GetOrCreateCStorVolumeResource,
              GetOrCreateCStorTargetDeployment
<1>6. CASE GetPendingCVRCount(v) \/ DistributeCVRs(v) \/ CreateCVR(v) \/ GetVolumeReplicaPoolNames(v)
  BY <1>6, Zenon DEF GetPendingCVRCount, DistributeCVRs, CreateCVR, GetVolumeReplicaPoolNames
<1>7. CASE ListPDBs(v) \/ CreatePDB(v) \/ ListUsers(v) \/ DeletePDB(v) \/ PatchTargetDeploymentSpec(v)
  <2>0. CASE ListPDBs(v)
    BY <2>0, Zenon DEF ListPDBs
  <2>1. CASE CreatePDB(v)
    BY <2>1, Zenon DEF CreatePDB
  <2>3. CASE ListUsers(v)
    BY <2>3, Zenon DEF ListUsers
  <2>2. CASE DeletePDB(v)
    BY <2>2, Zenon DEF DeletePDB
  <2>4. CASE PatchTargetDeploymentSpec(v)
    BY <2>4, Zenon DEF PatchTargetDeploymentSpec
  <2> QED
    BY <1>7, <2>0, <2>1, <2>2, <2>3, <2>4, Zenon
<1> QED
  BY <1>1, <1>2, <1>3, <1>4, <1>5, <1>6, <1>7, Zenon DEF StepOf, SyncCVC, CreateVolumeOperation

-----------------------------------------------------------------------------
(* A write of a copy of a CVC keeps its phase. *)
LEMMA PhaseKept ==
  ASSUME NEW c \in CVC
  PROVE  /\ [c EXCEPT !.deleting = TRUE].phase = c.phase
         /\ [c EXCEPT !.versioned = TRUE].phase = c.phase
         /\ Labelled(c).phase = c.phase
         /\ \A k : Edited(c, k).phase = c.phase
BY DEF Edited, Labelled, CVC

(* How the phase of a CVC moves: only a new one leaves none, Bound and     *)
(* gone are left for gone only.                                            *)
Moves(v) ==
  /\ cvc[v].phase = "none" => cvc'[v] = cvc[v] \/ CreateCVC(v)
  /\ cvc[v].phase = "Pending" => cvc'[v].phase \in {"Pending", "Bound", "gone"}
  /\ cvc[v].phase = "Bound" => cvc'[v].phase \in {"Bound", "gone"}
  /\ cvc[v].phase = "gone" => cvc'[v].phase = "gone"

(* A conflict keeps a worker that lags behind from writing the CVC. *)
LEMMA PhaseMoves == ASSUME TypeOK, NEW v \in Vol, PhaseInv(v), StepOf(v) PROVE Moves(v)
<1>t. cvc \in [Vol -> CVC] /\ cvc[v] \in CVC /\ opCVC[v] \in CVC /\ cvc[v].phase \in {"none", "Pending", "Bound", "gone"}
  BY Zenon DEF TypeOK, CVC
<1> USE DEF objects, opVars, outsideOp
<1>1. CASE cvc'[v] = cvc[v] \/ CreateCVC(v)
  BY <1>1, <1>t, CVCPhase, Zenon DEF Moves, CreateCVC
<1>2. CASE DeleteCVC(v) \/ \E k \in SpecPolicy : EditSpecPolicy(v, k)
  <2>1. (\E k : cvc'[v] = Edited(cvc[v], k)) \/ cvc'[v] = [cvc[v] EXCEPT !.deleting = TRUE]
    <3>1. CASE DeleteCVC(v)
      BY <3>1, <1>t DEF DeleteCVC
    <3>2. ASSUME NEW k \in SpecPolicy, EditSpecPolicy(v, k) PROVE cvc'[v] = Edited(cvc[v], k)
      BY <3>2, <1>t DEF EditSpecPolicy
    <3> QED
      BY <1>2, <3>1, <3>2, Zenon
  <2>2. cvc'[v].phase = cvc[v].phase
    <3>1. [cvc[v] EXCEPT !.deleting = TRUE].phase = cvc[v].phase /\ \A k : Edited(cvc[v], k).phase = cvc[v].phase
      BY <1>t, PhaseKept, Zenon
    <3> QED
      BY <2>1, <3>1, Zenon
  <2>3. cvc[v].phase # "none"
    BY <1>2 DEF DeleteCVC, EditSpecPolicy, Exists
  <2> QED
    BY <1>t, <2>2, <2>3, SMTT(30) DEF Moves
<1>3. CASE PopulateVersion(v) \/ SyncPolicySpec(v)
  <2>1. opCVC[v] = opBase[v] /\ Exists(opBase[v])
    BY <1>3 DEF PopulateVersion, SyncPolicySpec, PhaseInv, Syncing
  <2>2. cvc'[v] = cvc[v] \/ (cvc[v] = opBase[v] /\ (\/ cvc'[v] = [opCVC[v] EXCEPT !.versioned = TRUE]
                                                  \/ cvc'[v] = Labelled(opCVC[v])))
    BY <1>3, <1>t, Zenon DEF PopulateVersion, SyncPolicySpec
  <2>3. cvc'[v].phase = cvc[v].phase
    BY <1>t, <2>1, <2>2, PhaseKept, ZenonT(60)
  <2> QED
    BY <1>1, <1>t, <2>1, <2>2, <2>3 DEF Moves, Exists
<1>4. CASE UpdateCVCObj(v)
  <2>1. opBase[v].phase = "Pending"
    BY <1>4, SMTT(30)
    DEF UpdateCVCObj, PhaseInv, Creating, Decided, Served, Stored, Targeted, Chosen, Placed, Listed
  <2>2. BoundCVC(v).phase = "Bound"
    BY <1>t DEF BoundCVC, Labelled, CVC
  <2> QED
    BY <1>1, <1>4, <1>t, <2>1, <2>2, Zenon DEF UpdateCVCObj, Moves
<1>5. CASE RemoveClaimFinalizer(v)
  BY <1>1, <1>5, <1>t, CVCPhase, Zenon DEF RemoveClaimFinalizer, Moves, Exists
<1>6. CASE ~ \/ DeleteCVC(v) \/ (\E k \in SpecPolicy : EditSpecPolicy(v, k)) \/ CreateCVC(v)
             \/ PopulateVersion(v) \/ SyncPolicySpec(v) \/ UpdateCVCObj(v) \/ RemoveClaimFinalizer(v)
  <2>1. cvc' = cvc
    BY <1>6, Zenon
    DEF StepOf, SyncCVC, CreateVolumeOperation, WatchCVC, CollectGarbage, CallFails, SyncHandler,
        GetVolumePolicy, GetOrCreateTargetService, GetOrCreateCStorVolumeResource,
        GetOrCreateCStorTargetDeployment, GetPendingCVRCount, DistributeCVRs, CreateCVR,
        GetVolumeReplicaPoolNames, ListPDBs, CreatePDB, PatchTargetDeploymentSpec, ListUsers, DeletePDB
  <2> QED
    BY <1>1, <2>1
<1> QED
  BY <1>1, <1>2, <1>3, <1>4, <1>5, <1>6, Zenon

(* Every step of a volume keeps its phases in order. *)
LEMMA PhaseStep == ASSUME TypeOK, NEW v \in Vol, PhaseInv(v), StepOf(v) PROVE PhaseInv(v)'
<1>m. Moves(v)
  BY PhaseMoves
<1>t. /\ cvc \in [Vol -> CVC] /\ cache \in [Vol -> CVC] /\ cvr \in [Vol -> SUBSET Pool]
      /\ opAt \in [Vol -> Steps] /\ opBase \in [Vol -> CVC] /\ opCVC \in [Vol -> CVC]
      /\ cvc[v].phase \in {"none", "Pending", "Bound", "gone"}
      /\ policyObj \in Policy
  BY SMTT(30) DEF TypeOK, CVC
<1>s. /\ "idle" \notin Creating \cup Syncing /\ "version" \notin Creating \cup Syncing
      /\ Decided \subseteq Creating /\ Creating \cap Syncing = {} /\ "policy" \in Creating \ Decided
      /\ "sync" \in Syncing /\ "hash" \in Syncing
      /\ {"listUsers", "deletePDB", "unfinalize"} \cap (Creating \cup Syncing) = {}
      /\ {"service", "volume", "target", "count", "place", "create", "names", "listPDBs", "createPDB",
          "bind"} \subseteq Decided
  BY DEF Creating, Decided, Served, Stored, Targeted, Chosen, Placed, Listed, Syncing
<1> USE DEF objects, opVars, outsideOp, Goto
(* A worker goes on. *)
<1>g. ASSUME UNCHANGED <<cache, opBase>>, opAt[v] # "idle",
             opAt'[v] \in Creating => opAt[v] \in Creating,
             opAt'[v] \in Syncing => opAt[v] \in Syncing,
             opAt'[v] \in Decided => opCVC'[v].policy \in Policy,
             opAt'[v] \in {"version", "policy"} \cup Syncing => opCVC'[v] = opBase[v]
      PROVE  PhaseInv(v)'
  BY <1>g, <1>m, <1>t, Zenon DEF PhaseInv, Moves, Exists
(* A worker is done. *)
<1>r. ASSUME UNCHANGED cache, opAt[v] # "idle", opAt'[v] = "idle" PROVE PhaseInv(v)'
  BY <1>r, <1>m, <1>s, <1>t, Zenon DEF PhaseInv, Moves
<1>1. CASE CreateCVC(v)
  BY <1>1, <1>m, <1>t, CVCPhase, Zenon DEF CreateCVC, PhaseInv
<1>2. CASE DeleteCVC(v) \/ \E k \in SpecPolicy : EditSpecPolicy(v, k)
  <2>1. UNCHANGED <<cache, cvr, opAt, opBase, opCVC>>
    BY <1>2 DEF DeleteCVC, EditSpecPolicy
  <2>2. cvc[v].phase # "none"
    BY <1>2 DEF DeleteCVC, EditSpecPolicy, Exists
  <2> QED
    BY <1>m, <1>t, <2>1, <2>2, Zenon DEF PhaseInv, Moves
<1>3. CASE WatchCVC(v)
  BY <1>3, <1>t, SMTT(30) DEF WatchCVC, PhaseInv
<1>4. CASE CollectGarbage(v)
  BY <1>4, <1>t, SMTT(30) DEF CollectGarbage, PhaseInv
<1>5. CASE CallFails(v) \/ UpdateCVCObj(v) \/ SyncPolicySpec(v) \/ RemoveClaimFinalizer(v)
  BY <1>5, <1>r, <1>t DEF CallFails, UpdateCVCObj, SyncPolicySpec, RemoveClaimFinalizer, Release
<1>6. CASE SyncHandler(v)
  <2>1. /\ opAt'[v] = (IF cache[v].versioned THEN AfterVersion(v, cache[v]) ELSE "version")
        /\ opBase'[v] = cache[v] /\ opCVC'[v] = cache[v] /\ Exists(cache[v])
        /\ UNCHANGED <<cvc, cache, cvr>>
    BY <1>6, <1>t, SMTT(30) DEF SyncHandler
  <2>2. /\ opAt'[v] \in {"version", "policy", "sync", "listUsers", "unfinalize"}
        /\ opAt'[v] = "policy" => cache[v].phase = "Pending"
        /\ opAt'[v] = "sync" => cache[v].phase = "Bound"
    BY <2>1 DEF AfterVersion, Exists
  <2> QED
    BY <1>s, <2>1, <2>2, Zenon DEF PhaseInv, Exists
<1>7. CASE PopulateVersion(v)
  <2> DEFINE new == [opCVC[v] EXCEPT !.versioned = TRUE]
  <2>1. opCVC[v] = opBase[v] /\ Exists(opBase[v]) /\ new.phase = opBase[v].phase
    BY <1>7, <1>t, PhaseKept DEF PopulateVersion, PhaseInv
  <2>2. CASE cvc[v] # opBase[v]
    BY <1>7, <1>r, <1>t, <2>2 DEF PopulateVersion, Release
  <2>3. CASE cvc[v] = opBase[v]
    <3>1. /\ opAt'[v] = AfterVersion(v, new) /\ opBase'[v] = new /\ opCVC'[v] = new /\ cvc'[v] = new
          /\ UNCHANGED <<cache, cvr>>
      BY <1>7, <1>t, <2>3 DEF PopulateVersion
    <3>2. /\ opAt'[v] \in {"policy", "sync", "listUsers", "unfinalize"}
          /\ opAt'[v] = "policy" => new.phase = "Pending"
          /\ opAt'[v] = "sync" => new.phase = "Bound"
      BY <2>1, <3>1 DEF AfterVersion, Exists
    <3> HIDE DEF new
    <3> QED
      BY <1>m, <1>s, <2>1, <2>3, <3>1, <3>2, Zenon DEF PhaseInv, Exists
  <2> QED
    BY <2>2, <2>3
<1>8. CASE GetVolumePolicy(v)
  <2>1. opCVC'[v].policy = policyObj /\ opAt'[v] = "service" /\ opAt[v] = "policy" /\ UNCHANGED <<cache, opBase>>
    BY <1>8, <1>t DEF GetVolumePolicy, CVC
  <2> QED
    BY <1>g, <1>s, <1>t, <2>1, SMTT(30)
<1>9. CASE \/ GetOrCreateTargetService(v) \/ GetOrCreateCStorVolumeResource(v)
           \/ GetOrCreateCStorTargetDeployment(v) \/ GetPendingCVRCount(v)
           \/ CreateCVR(v) \/ GetVolumeReplicaPoolNames(v) \/ ListPDBs(v) \/ CreatePDB(v)
  <2>1. UNCHANGED <<cache, opBase, opCVC>>
    BY <1>9, Zenon DEF GetOrCreateTargetService, GetOrCreateCStorVolumeResource,
                GetOrCreateCStorTargetDeployment, GetPendingCVRCount, CreateCVR,
                GetVolumeReplicaPoolNames, ListPDBs, CreatePDB
  <2>2. /\ opAt[v] \in {"service", "volume", "target", "count", "create", "names", "listPDBs", "createPDB"}
        /\ opAt'[v] \in {"volume", "target", "count", "place", "create", "names", "listPDBs", "createPDB", "bind"}
    BY <1>9, <1>t, Zenon DEF GetOrCreateTargetService, GetOrCreateCStorVolumeResource,
                GetOrCreateCStorTargetDeployment, GetPendingCVRCount, CreateCVR,
                GetVolumeReplicaPoolNames, ListPDBs, CreatePDB
  <2> QED
    BY <1>g, <1>s, <2>1, <2>2, Zenon DEF PhaseInv
<1>10. CASE DistributeCVRs(v)
  <2>1. CASE Release(v)
    BY <1>10, <1>r, <1>t, <2>1, Zenon DEF DistributeCVRs, Release
  <2>2. CASE Goto(v, "create") /\ UNCHANGED <<opBase, opCVC>>
    BY <1>10, <1>g, <1>s, <1>t, <2>2, Zenon DEF DistributeCVRs, PhaseInv
  <2> QED
    BY <1>10, <2>1, <2>2, Zenon DEF DistributeCVRs
<1>11. CASE PatchTargetDeploymentSpec(v)
  <2>1. CASE Release(v)
    BY <1>11, <1>r, <1>t, <2>1, Zenon DEF PatchTargetDeploymentSpec, Release
  <2>2. CASE Goto(v, "hash") /\ UNCHANGED <<opBase, opCVC>>
    BY <1>11, <1>g, <1>s, <1>t, <2>2, Zenon DEF PatchTargetDeploymentSpec, PhaseInv
  <2> QED
    BY <1>11, <2>1, <2>2, Zenon DEF PatchTargetDeploymentSpec
<1>12. CASE ListUsers(v) \/ DeletePDB(v)
  <2>1. /\ UNCHANGED <<cache, opBase>> /\ opAt[v] # "idle"
        /\ opAt'[v] \in {"deletePDB", "unfinalize"}
    BY <1>12, <1>t DEF ListUsers, DeletePDB
  <2> QED
    BY <1>g, <1>s, <2>1, Zenon
<1> QED
  BY <1>1, <1>2, <1>3, <1>4, <1>5, <1>6, <1>7, <1>8, <1>9, <1>10, <1>11, <1>12
  DEF StepOf, SyncCVC, CreateVolumeOperation

(* The policy of a Bound CVC is one wherever it is kept. *)
LEMMA PolicyStep ==
  ASSUME TypeOK, NEW v \in Vol, PhaseInv(v), PolicyInv(v), StepOf(v)
  PROVE  PolicyInv(v)'
<1>t. /\ cvc \in [Vol -> CVC] /\ cache \in [Vol -> CVC] /\ opBase \in [Vol -> CVC]
      /\ opAt \in [Vol -> Steps] /\ opCVC \in [Vol -> CVC] /\ cvc[v] \in CVC /\ opCVC[v] \in CVC
  BY DEF TypeOK
<1>n. Named(NoCVC) /\ Named(NewCVC) /\ Named(GoneCVC)
  BY CVCPhase, Zenon DEF Named
<1> USE DEF objects, opVars, outsideOp, Goto
<1>1. CASE CreateCVC(v)
  BY <1>1, <1>n, <1>t, Zenon DEF CreateCVC, PolicyInv
<1>2. CASE DeleteCVC(v)
  BY <1>2, <1>t DEF DeleteCVC, PolicyInv, Named, CVC
<1>3. ASSUME NEW k \in SpecPolicy, EditSpecPolicy(v, k) PROVE PolicyInv(v)'
  <2>1. k \in Policy
    BY ProvisionAssumption
  <2>2. Edited(cvc[v], k).policy = k
    BY <1>t DEF Edited, CVC
  <2>3. cvc'[v] = Edited(cvc[v], k) /\ UNCHANGED <<cache, opBase>>
    BY <1>3, <1>t DEF EditSpecPolicy
  <2> QED
    BY <1>n, <2>1, <2>2, <2>3, Zenon DEF PolicyInv, Named
<1>4. CASE WatchCVC(v)
  BY <1>4, <1>t DEF WatchCVC, PolicyInv
<1>5. CASE SyncHandler(v)
  BY <1>5, <1>t DEF SyncHandler, PolicyInv
<1>6. CASE PopulateVersion(v)
  <2> DEFINE new == [opCVC[v] EXCEPT !.versioned = TRUE]
  <2>1. opCVC[v] = opBase[v]
    BY <1>6 DEF PopulateVersion, PhaseInv
  <2>2. Named(new)
    BY <1>t, <2>1 DEF PolicyInv, Named, CVC
  <2> HIDE DEF new
  <2>3. \/ cvc'[v] = new /\ opBase'[v] = new /\ UNCHANGED cache
        \/ opBase'[v] = NoCVC /\ UNCHANGED <<cvc, cache>>
    BY <1>6, <1>t, Zenon DEF PopulateVersion, Release, new
  <2> QED
    BY <1>n, <2>2, <2>3, Zenon DEF PolicyInv
<1>7. CASE UpdateCVCObj(v)
  <2>1. opCVC[v].policy \in Policy
    BY <1>7, Zenon
    DEF UpdateCVCObj, PhaseInv, Decided, Served, Stored, Targeted, Chosen, Placed, Listed
  <2>2. Named(BoundCVC(v))
    BY <1>t, <2>1 DEF BoundCVC, Labelled, Named, CVC
  <2> QED
    BY <1>7, <1>n, <1>t, <2>2 DEF UpdateCVCObj, Release, PolicyInv
<1>8. CASE SyncPolicySpec(v)
  <2>1. opCVC[v] = opBase[v]
    BY <1>8 DEF SyncPolicySpec, PhaseInv, Syncing
  <2>2. Named(Labelled(opCVC[v]))
    BY <1>t, <2>1 DEF PolicyInv, Named, Labelled, CVC
  <2> QED
    BY <1>8, <1>n, <1>t, <2>2 DEF SyncPolicySpec, Release, PolicyInv
<1>9. CASE RemoveClaimFinalizer(v) \/ CallFails(v)
  BY <1>9, <1>n, <1>t DEF RemoveClaimFinalizer, CallFails, Release, PolicyInv
<1>10. CASE DistributeCVRs(v) \/ PatchTargetDeploymentSpec(v)
  BY <1>10, <1>n, <1>t, Zenon DEF DistributeCVRs, PatchTargetDeploymentSpec, Release, PolicyInv
<1>11. CASE \/ CollectGarbage(v) \/ GetVolumePolicy(v) \/ GetOrCreateTargetService(v)
            \/ GetOrCreateCStorVolumeResource(v) \/ GetOrCreateCStorTargetDeployment(v)
            \/ GetPendingCVRCount(v) \/ CreateCVR(v) \/ GetVolumeReplicaPoolNames(v) \/ ListPDBs(v)
            \/ CreatePDB(v) \/ ListUsers(v) \/ DeletePDB(v)
  <2>1. UNCHANGED <<cvc, cache, opBase>>
    BY <1>11, Zenon DEF CollectGarbage, GetVolumePolicy, GetOrCreateTargetService,
         GetOrCreateCStorVolumeResource, GetOrCreateCStorTargetDeployment, GetPendingCVRCount,
         CreateCVR, GetVolumeReplicaPoolNames, ListPDBs, CreatePDB, ListUsers, DeletePDB
  <2> QED
    BY <2>1 DEF PolicyInv
<1> QED
  BY <1>1, <1>2, <1>3, <1>4, <1>5, <1>6, <1>7, <1>8, <1>9, <1>10, <1>11
  DEF StepOf, SyncCVC, CreateVolumeOperation

-----------------------------------------------------------------------------
(* How many pools there are in sets of pools. *)
LEMMA PoolCard ==
  ASSUME NEW S \in SUBSET Pool, NEW T \in SUBSET Pool
  PROVE  /\ IsFiniteSet(S) /\ Cardinality(S) \in Nat
         /\ S \subseteq T => Cardinality(S) <= Cardinality(T)
         /\ S \subseteq T /\ Cardinality(S) = Cardinality(T) => S = T
         /\ S \cap T = {} => Cardinality(S \cup T) = Cardinality(S) + Cardinality(T)
<1>1. IsFiniteSet(S) /\ IsFiniteSet(T)
  BY ProvisionAssumption, FS_Subset
<1>2. Cardinality(S) \in Nat /\ Cardinality(T) \in Nat
  BY <1>1, FS_CardinalityType
<1>3. S \subseteq T => Cardinality(S) <= Cardinality(T) /\ (Cardinality(S) = Cardinality(T) => S = T)
  BY <1>1, FS_Subset
<1>4. Cardinality(S \cup T) = Cardinality(S) + Cardinality(T) - Cardinality(S \cap T)
  BY <1>1, FS_Union
<1>5. S \cap T = {} => Cardinality(S \cap T) = 0
  BY FS_EmptySet
<1> QED
  BY <1>1, <1>2, <1>3, <1>4, <1>5

(* distributePendingCVRs: what is there and what is about to be created    *)
(* together are never too many, and enough while the CVC exists.           *)
LEMMA CountStep ==
  ASSUME TypeOK, NEW v \in Vol, PhaseInv(v), PolicyInv(v), CountInv(v), ObjectInv(v), StepOf(v)
  PROVE  CountInv(v)' /\ ObjectInv(v)'
<1>m. Moves(v)
  BY PhaseMoves
<1>t. /\ cvc \in [Vol -> CVC] /\ cvr \in [Vol -> SUBSET Pool] /\ deploy \in [Vol -> Policy \cup {NoPolicy}]
      /\ opAt \in [Vol -> Steps] /\ opPending \in [Vol -> Nat] /\ opPools \in [Vol -> SUBSET Pool]
      /\ cvc[v].phase \in {"none", "Pending", "Bound", "gone"}
      /\ cvr[v] \subseteq Pool /\ opPools[v] \subseteq Pool /\ opPending[v] \in Nat
  BY Zenon DEF TypeOK, CVC
<1>n. Cardinality(cvr[v]) \in Nat /\ ReplicaCount[v] \in Nat
  BY <1>t, PoolCard, ProvisionAssumption, SMTT(30)
<1>s. Served = {"volume", "target", "count", "place", "create", "names", "listPDBs", "createPDB", "bind"}
  BY DEF Served, Stored, Targeted, Chosen, Placed, Listed
<1> USE DEF objects, opVars, outsideOp, Goto
<1> DEFINE Goal == CountInv(v)' /\ ObjectInv(v)'
(* The worker is not at work on the objects, and the CVC has not become Bound. *)
<1>i. ASSUME UNCHANGED <<svc, cv, deploy, cvr>>, opAt'[v] \notin Served,
             cvc'[v].phase = "Bound" => cvc[v].phase = "Bound"
      PROVE  Goal
  BY <1>i, <1>s, <1>t, Zenon DEF CountInv, ObjectInv, Stored, Targeted, Chosen, Placed, Listed
<1>1. CASE CreateCVC(v)
  <2>1. cvc'[v].phase = "Pending" /\ cvc[v].phase = "none"
    BY <1>1, <1>t, CVCPhase, Zenon DEF CreateCVC
  <2>2. opAt'[v] = "idle"
    BY <1>1, <2>1, Zenon DEF CreateCVC, PhaseInv
  <2> QED
    BY <1>1, <1>i, <1>s, <2>1, <2>2, Zenon DEF CreateCVC
<1>2. CASE DeleteCVC(v) \/ WatchCVC(v) \/ \E k \in SpecPolicy : EditSpecPolicy(v, k)
  <2>1. UNCHANGED <<svc, cv, deploy, cvr, opAt, opPending, opPools>>
    BY <1>2 DEF DeleteCVC, WatchCVC, EditSpecPolicy
  <2>2. (\E k : cvc'[v] = Edited(cvc[v], k)) \/ cvc'[v] = [cvc[v] EXCEPT !.deleting = TRUE] \/ cvc'[v] = cvc[v]
    <3>1. CASE DeleteCVC(v) \/ WatchCVC(v)
      BY <3>1, <1>t, Zenon DEF DeleteCVC, WatchCVC
    <3>2. ASSUME NEW k \in SpecPolicy, EditSpecPolicy(v, k) PROVE cvc'[v] = Edited(cvc[v], k)
      BY <3>2, <1>t DEF EditSpecPolicy
    <3> QED
      BY <1>2, <3>1, <3>2, Zenon
  <2>3. cvc'[v].phase = cvc[v].phase
    <3>1. [cvc[v] EXCEPT !.deleting = TRUE].phase = cvc[v].phase /\ \A k : Edited(cvc[v], k).phase = cvc[v].phase
      BY <1>t, PhaseKept, Zenon
    <3> QED
      BY <2>2, <3>1, Zenon
  <2> QED
    BY <2>1, <2>3, Zenon DEF CountInv, ObjectInv, Exists
<1>3. CASE CollectGarbage(v)
  <2>1. UNCHANGED <<cvc, opAt, opPending, opPools>>
    BY <1>3, Zenon DEF CollectGarbage
  <2>2. CASE ~Exists(cvc[v]) /\ UNCHANGED <<deploy, cvr>>
    BY <2>1, <2>2, Zenon DEF CountInv, ObjectInv, Exists
  <2>3. CASE v \notin cv /\ cvr' = [cvr EXCEPT ![v] = {}] /\ UNCHANGED <<svc, cv>>
    <3>1. cvr'[v] = {} /\ Cardinality(cvr'[v]) = 0
      BY <1>t, <2>3, FS_EmptySet
    <3>2. /\ opPools[v] \in SUBSET Pool /\ cvr[v] \cup opPools[v] \in SUBSET Pool
          /\ opPools[v] \subseteq cvr[v] \cup opPools[v] /\ cvr'[v] \cup opPools[v] = opPools[v]
      BY <1>t, <3>1, Zenon
    <3>3. /\ Cardinality(opPools[v]) \in Nat /\ Cardinality(cvr[v] \cup opPools[v]) \in Nat
          /\ Cardinality(opPools[v]) <= Cardinality(cvr[v] \cup opPools[v])
      BY <3>2, PoolCard, Zenon
    <3>4. CountInv(v)'
      <4>1. 0 <= ReplicaCount[v]
        BY <1>n
      <4>2. opPending[v] + Cardinality(cvr[v]) <= ReplicaCount[v] => opPending[v] + 0 <= ReplicaCount[v]
        BY <1>n, <1>t
      <4>3. Cardinality(cvr[v] \cup opPools[v]) <= ReplicaCount[v] => Cardinality(opPools[v]) <= ReplicaCount[v]
        BY <1>n, <3>3
      <4> QED
        BY <2>1, <3>1, <3>2, <4>1, <4>2, <4>3, Zenon DEF CountInv
    <3>5. ObjectInv(v)'
      BY <2>1, <2>3, Zenon DEF ObjectInv, Exists, Served, Stored, Targeted, Chosen, Placed, Listed
    <3> QED
      BY <3>4, <3>5
  <2> QED
    BY <1>3, <2>2, <2>3, Zenon DEF CollectGarbage
<1>4. CASE SyncHandler(v)
  <2>1. opAt'[v] \notin Served
    BY <1>4, <1>s, <1>t DEF SyncHandler, AfterVersion
  <2> QED
    BY <1>4, <1>i, <2>1, Zenon DEF SyncHandler
<1>5. CASE PopulateVersion(v) \/ GetVolumePolicy(v)
  <2>1. opAt'[v] \notin Served
    BY <1>5, <1>s, <1>t DEF PopulateVersion, GetVolumePolicy, Release, AfterVersion
  <2>2. cvc'[v].phase = "Bound" => cvc[v].phase = "Bound"
    <3>1. opAt[v] = "version" => opCVC[v] = opBase[v]
      BY Zenon DEF PhaseInv
    <3>2. opCVC[v] \in CVC
      BY DEF TypeOK
    <3>3. \/ cvc'[v] = cvc[v]
          \/ opAt[v] = "version" /\ cvc[v] = opBase[v] /\ cvc'[v] = [opCVC[v] EXCEPT !.versioned = TRUE]
      BY <1>5, <1>t, Zenon DEF PopulateVersion, GetVolumePolicy
    <3> QED
      BY <3>1, <3>2, <3>3, PhaseKept, ZenonT(60)
  <2> QED
    BY <1>5, <1>i, <2>1, <2>2 DEF PopulateVersion, GetVolumePolicy
<1>6. CASE SyncPolicySpec(v)
  <2>1. opCVC[v] = opBase[v] /\ opCVC[v] \in CVC
    BY <1>6 DEF SyncPolicySpec, PhaseInv, Syncing, TypeOK
  <2>2. cvc'[v].phase = cvc[v].phase
    BY <1>6, <1>t, <2>1, PhaseKept DEF SyncPolicySpec
  <2> QED
    BY <1>6, <1>i, <1>s, <1>t, <2>2 DEF SyncPolicySpec, Release
<1>7. CASE CallFails(v) \/ ListUsers(v) \/ DeletePDB(v)
  <2>1. opAt'[v] \notin Served /\ UNCHANGED cvc
    BY <1>7, <1>s, <1>t, Zenon DEF CallFails, ListUsers, DeletePDB, Release
  <2> QED
    BY <1>7, <1>i, <2>1, Zenon DEF CallFails, ListUsers, DeletePDB
<1>8. CASE RemoveClaimFinalizer(v)
  <2>1. opAt'[v] \notin Served
    BY <1>8, <1>s, <1>t, SMTT(30) DEF RemoveClaimFinalizer, Release
  <2>2. cvc'[v].phase = "Bound" => cvc[v].phase = "Bound"
    BY <1>8, <1>t, CVCPhase, SMTT(30) DEF RemoveClaimFinalizer
  <2> QED
    BY <1>8, <1>i, <2>1, <2>2, Zenon DEF RemoveClaimFinalizer
<1>9. CASE PatchTargetDeploymentSpec(v)
  <2>1. opAt'[v] \notin Served
    BY <1>9, <1>s, <1>t, Zenon DEF PatchTargetDeploymentSpec, Release
  <2>2. deploy[v] # NoPolicy => deploy'[v] # NoPolicy
    <3>1. opCVC[v] = opBase[v] /\ opBase[v].phase = "Bound"
      BY <1>9, Zenon DEF PatchTargetDeploymentSpec, PhaseInv, Syncing
    <3>2. opCVC[v].policy # NoPolicy
      BY <3>1, PolicyType, Zenon DEF PolicyInv, Named
    <3> QED
      BY <1>9, <1>t, <3>2, Zenon DEF PatchTargetDeploymentSpec
  <2> QED
    BY <1>9, <1>t, <2>1, <2>2, <1>s, Zenon
    DEF PatchTargetDeploymentSpec, CountInv, ObjectInv, Stored, Targeted, Chosen, Placed, Listed
<1>10. CASE GetOrCreateTargetService(v) \/ GetOrCreateCStorVolumeResource(v)
  BY <1>10, <1>t, Zenon
  DEF GetOrCreateTargetService, GetOrCreateCStorVolumeResource, CountInv, ObjectInv, Exists, Served,
      Stored, Targeted, Chosen, Placed, Listed
<1>11. CASE GetOrCreateCStorTargetDeployment(v)
  <2>1. opCVC[v].policy # NoPolicy
    BY <1>11, PolicyType, Zenon
    DEF GetOrCreateCStorTargetDeployment, PhaseInv, Decided, Served, Stored
  <2>2. deploy'[v] # NoPolicy /\ opAt[v] = "target" /\ opAt'[v] = "count" /\ UNCHANGED <<cvc, svc, cv, cvr>>
    BY <1>11, <1>t, <2>1, SMTT(30) DEF GetOrCreateCStorTargetDeployment
  <2> QED
    BY <2>2, Zenon DEF CountInv, ObjectInv, Exists, Served, Stored, Targeted, Chosen, Placed, Listed
<1>12. CASE GetPendingCVRCount(v)
  <2>1. /\ opPending'[v] + Cardinality(cvr[v]) = ReplicaCount[v] /\ opAt[v] = "count" /\ opAt'[v] = "place"
        /\ UNCHANGED <<cvc, svc, cv, deploy, cvr>>
    BY <1>12, <1>n, <1>t DEF GetPendingCVRCount
  <2>2. opPending'[v] + Cardinality(cvr[v]) <= ReplicaCount[v]
    BY <1>n, <2>1
  <2> QED
    BY <2>1, <2>2, Zenon
    DEF CountInv, ObjectInv, Exists, Served, Stored, Targeted, Chosen, Placed, Listed
<1>13. CASE DistributeCVRs(v)
  <2>1. CASE Release(v)
    BY <1>13, <1>i, <1>s, <1>t, <2>1, Zenon DEF DistributeCVRs, Release
  <2>2. ASSUME NEW S \in Choices(v, opPending[v]), opPools' = [opPools EXCEPT ![v] = S], Goto(v, "create")
        PROVE  Goal
    <3>1. S \in SUBSET Pool /\ S \cap cvr[v] = {} /\ Cardinality(S) = opPending[v]
      BY <1>t, Zenon DEF Choices, SanitizedPools, UsablePools, TypeOK
    <3>2. Cardinality(cvr[v] \cup S) = opPending[v] + Cardinality(cvr[v])
      <4>1. Cardinality(cvr[v] \cup S) = Cardinality(cvr[v]) + opPending[v]
        BY <1>t, <3>1, PoolCard
      <4> QED
        BY <1>n, <1>t, <4>1
    <3>3. /\ opPools'[v] = S /\ opAt[v] = "place" /\ opAt'[v] = "create"
          /\ UNCHANGED <<cvc, svc, cv, deploy, cvr>>
      BY <1>13, <1>t, <2>2, Zenon DEF DistributeCVRs
    <3> QED
      BY <3>2, <3>3, Zenon
      DEF CountInv, ObjectInv, Exists, Served, Stored, Targeted, Chosen, Placed, Listed
  <2> QED
    BY <1>13, <2>1, <2>2, Zenon DEF DistributeCVRs
<1>14. CASE CreateCVR(v)
  <2>1. opAt[v] = "create" /\ UNCHANGED <<cvc, svc, cv, deploy>>
    BY <1>14 DEF CreateCVR
  <2>2. ASSUME NEW p \in opPools[v], cvr' = [cvr EXCEPT ![v] = @ \cup {p}],
               opPools' = [opPools EXCEPT ![v] = @ \ {p}], UNCHANGED opAt
        PROVE  Goal
    <3>1. cvr'[v] = cvr[v] \cup {p} /\ cvr'[v] \cup opPools'[v] = cvr[v] \cup opPools[v]
      BY <1>t, <2>2
    <3>2. Cardinality(cvr'[v]) <= Cardinality(cvr[v] \cup opPools[v]) /\ Cardinality(cvr'[v]) \in Nat
      BY <1>t, <2>2, <3>1, PoolCard
    <3>3. Cardinality(cvr[v] \cup opPools[v]) \in Nat
      BY <1>t, PoolCard
    <3>4. cvc[v].phase = "Bound" => Cardinality(cvr'[v]) = ReplicaCount[v]
      <4>1. Cardinality(cvr[v]) <= Cardinality(cvr'[v])
        BY <1>t, <2>2, <3>1, PoolCard, Zenon
      <4>2. Cardinality(cvr[v] \cup opPools[v]) <= ReplicaCount[v]
        BY <2>1, Zenon DEF CountInv
      <4>3. cvc[v].phase = "Bound" => Cardinality(cvr[v]) = ReplicaCount[v]
        BY Zenon DEF ObjectInv
      <4> QED
        BY <1>n, <3>2, <3>3, <4>1, <4>2, <4>3
    <3>5. opAt'[v] = "create" /\ Cardinality(cvr'[v] \cup opPools'[v]) = Cardinality(cvr[v] \cup opPools[v])
      BY <2>1, <2>2, <3>1, SMTT(30)
    <3>6. CountInv(v)'
      <4>1. Cardinality(cvr[v] \cup opPools[v]) <= ReplicaCount[v]
        BY <2>1, Zenon DEF CountInv
      <4>2. Cardinality(cvr'[v]) <= ReplicaCount[v]
        BY <1>n, <3>2, <3>3, <4>1
      <4> QED
        BY <3>5, <4>1, <4>2, Zenon DEF CountInv
    <3>7. ObjectInv(v)'
      BY <2>1, <3>4, <3>5, Zenon DEF ObjectInv, Exists, Served, Stored, Targeted, Chosen, Placed, Listed
    <3> QED
      BY <3>6, <3>7, Zenon
  <2>3. CASE opPools[v] = {} /\ Goto(v, "names") /\ UNCHANGED <<cvr, opPools>>
    <3>1. cvr[v] \cup opPools[v] = cvr[v] /\ opAt'[v] = "names"
      BY <1>t, <2>3
    <3> QED
      BY <2>1, <2>3, <3>1, Zenon
      DEF CountInv, ObjectInv, Exists, Served, Stored, Targeted, Chosen, Placed, Listed
  <2> QED
    BY <1>14, <2>2, <2>3 DEF CreateCVR
<1>15. CASE GetVolumeReplicaPoolNames(v)
  <2>1. /\ opPools'[v] = cvr[v] /\ opAt[v] = "names" /\ opAt'[v] \in {"listPDBs", "bind"}
        /\ UNCHANGED <<cvc, svc, cv, deploy, cvr>>
    BY <1>15, <1>t, Zenon DEF GetVolumeReplicaPoolNames
  <2> QED
    BY <2>1, Zenon DEF CountInv, ObjectInv, Exists, Served, Stored, Targeted, Chosen, Placed, Listed
<1>16. CASE ListPDBs(v) \/ CreatePDB(v)
  <2>1. /\ opAt[v] \in {"listPDBs", "createPDB"} /\ opAt'[v] \in {"createPDB", "bind"}
        /\ UNCHANGED <<cvc, svc, cv, deploy, cvr, opPools>>
    BY <1>16, <1>t, Zenon DEF ListPDBs, CreatePDB
  <2> QED
    BY <2>1, Zenon DEF CountInv, ObjectInv, Exists, Served, Stored, Targeted, Chosen, Placed, Listed
<1>17. CASE UpdateCVCObj(v)
  <2>1. opAt[v] = "bind" /\ opAt'[v] = "idle" /\ UNCHANGED <<svc, cv, deploy, cvr>>
    BY <1>17, <1>t, Zenon DEF UpdateCVCObj, Release
  <2>2. cvc'[v] = cvc[v] \/ Exists(cvc[v])
    BY <1>17, <1>t, Zenon DEF UpdateCVCObj, PhaseInv
  <2> QED
    BY <2>1, <2>2, Zenon DEF CountInv, ObjectInv, Served, Stored, Targeted, Chosen, Placed, Listed
<1> QED
  BY <1>1, <1>2, <1>3, <1>4, <1>5, <1>6, <1>7, <1>8, <1>9, <1>10, <1>11, <1>12, <1>13, <1>14, SMTT(30),
     <1>15, <1>16, <1>17
  DEF StepOf, SyncCVC, CreateVolumeOperation

-----------------------------------------------------------------------------
(* The phases of all volumes move on in a step of any of them. *)
LEMMA AllMove == ASSUME TypeOK, AllInv, NEW u \in Vol, StepOf(u), NEW w \in Vol PROVE Moves(w)
<1>1. CASE w = u
  BY <1>1, PhaseMoves DEF AllInv, Inv
<1>2. CASE w # u
  BY <1>2, Elsewhere, Zenon DEF Kept, Moves
<1> QED
  BY <1>1, <1>2

(* The replicas of a Bound volume stay: its CStorVolume is there, so that  *)
(* nothing is collected, and a pass that started earlier and still creates *)
(* replicas finds them all there.                                          *)
LEMMA ReplicasStay ==
  ASSUME TypeOK, AllInv, NEW u \in Vol, StepOf(u), NEW s \in Vol, cvc[s].phase = "Bound"
  PROVE  cvr'[s] = cvr[s]
<1>1. CASE s # u
  BY <1>1, Elsewhere, Zenon DEF Kept
<1>t. cvr \in [Vol -> SUBSET Pool] /\ cvr[s] \in SUBSET Pool /\ opPools[s] \in SUBSET Pool
  BY DEF TypeOK
<1> USE DEF objects, opVars, outsideOp, Goto
<1>2. CASE CollectGarbage(s)
  BY <1>2, Zenon DEF CollectGarbage, AllInv, Inv, ObjectInv, Exists
<1>3. CASE CreateCVR(s)
  <2>1. opAt[s] = "create"
    BY <1>3, Zenon DEF CreateCVR
  <2>2. Cardinality(cvr[s] \cup opPools[s]) = Cardinality(cvr[s])
    BY <2>1, Zenon DEF AllInv, Inv, ObjectInv, Exists
  <2>3. cvr[s] = cvr[s] \cup opPools[s]
    <3> DEFINE both == cvr[s] \cup opPools[s]
    <3>1. both \in SUBSET Pool /\ cvr[s] \subseteq both /\ Cardinality(cvr[s]) = Cardinality(both)
      BY <1>t, <2>2, Zenon
    <3> HIDE DEF both
    <3>2. cvr[s] = both
      BY <1>t, <3>1, PoolCard, Zenon
    <3> QED
      BY <3>2, Zenon DEF both
  <2> QED
    BY <1>3, <1>t, <2>3, Zenon DEF CreateCVR
<1>4. CASE StepOf(s) /\ ~CollectGarbage(s) /\ ~CreateCVR(s)
  BY <1>4, Zenon
  DEF StepOf, SyncCVC, CreateVolumeOperation, CreateCVC, DeleteCVC, WatchCVC, EditSpecPolicy, CallFails,
      SyncHandler, PopulateVersion, GetVolumePolicy, GetOrCreateTargetService,
      GetOrCreateCStorVolumeResource, GetOrCreateCStorTargetDeployment, GetPendingCVRCount,
      DistributeCVRs, GetVolumeReplicaPoolNames, ListPDBs, CreatePDB, UpdateCVCObj,
      PatchTargetDeploymentSpec, SyncPolicySpec, ListUsers, DeletePDB, RemoveClaimFinalizer
<1> QED
  BY <1>1, <1>2, <1>3, <1>4, SMTT(30)

(* getUsablePoolList and getUsablePoolListForClone: replicas stay on the   *)
(* pools they may use.                                                     *)
LEMMA UsableOnly ==
  ASSUME TypeOK, NEW v \in Vol, StepOf(v), NEW R, opAt[v] = "place" => UsablePools(v) \subseteq R,
         cvr[v] \subseteq R, opAt[v] = "create" => opPools[v] \subseteq R
  PROVE  cvr'[v] \subseteq R /\ (opAt'[v] = "create" => opPools'[v] \subseteq R)
<1>t. cvr \in [Vol -> SUBSET Pool] /\ opPools \in [Vol -> SUBSET Pool] /\ opAt \in [Vol -> Steps]
  BY DEF TypeOK
<1> USE DEF objects, opVars, outsideOp, Goto
<1>1. CASE CollectGarbage(v)
  BY <1>1, <1>t, Zenon DEF CollectGarbage
<1>2. CASE CreateCVR(v)
  BY <1>2, <1>t DEF CreateCVR
<1>3. CASE DistributeCVRs(v)
  <2>1. CASE Release(v)
    BY <1>3, <1>t, <2>1, Zenon DEF DistributeCVRs, Release
  <2>2. ASSUME NEW S \in Choices(v, opPending[v]), opPools' = [opPools EXCEPT ![v] = S]
        PROVE  opPools'[v] \subseteq R
    BY <1>3, <1>t, <2>2, Zenon DEF DistributeCVRs, Choices, SanitizedPools
  <2> QED
    BY <1>3, <2>1, <2>2, Zenon DEF DistributeCVRs
<1>4. CASE CreateCVC(v) \/ DeleteCVC(v) \/ WatchCVC(v) \/ \E k \in SpecPolicy : EditSpecPolicy(v, k)
  BY <1>4 DEF CreateCVC, DeleteCVC, WatchCVC, EditSpecPolicy
<1>5. CASE ~ \/ CollectGarbage(v) \/ CreateCVR(v) \/ DistributeCVRs(v) \/ CreateCVC(v) \/ DeleteCVC(v)
             \/ WatchCVC(v) \/ \E k \in SpecPolicy : EditSpecPolicy(v, k)
  <2>1. UNCHANGED cvr /\ opAt'[v] # "create"
    BY <1>5, <1>t, Zenon
    DEF StepOf, SyncCVC, CreateVolumeOperation, CallFails, Release, SyncHandler, AfterVersion,
        PopulateVersion, GetVolumePolicy, GetOrCreateTargetService, GetOrCreateCStorVolumeResource,
        GetOrCreateCStorTargetDeployment, GetPendingCVRCount, GetVolumeReplicaPoolNames, ListPDBs,
        CreatePDB, UpdateCVCObj, PatchTargetDeploymentSpec, SyncPolicySpec, ListUsers, DeletePDB,
        RemoveClaimFinalizer
  <2> QED
    BY <2>1, Zenon
<1> QED
  BY <1>1, <1>2, <1>3, <1>4, <1>5, Zenon

(* A source was there first, and a clone stays beside it, whatever both do. *)
LEMMA SourceStep ==
  ASSUME TypeOK, AllInv, NEW u \in Vol, StepOf(u), NEW v \in Vol
  PROVE  SourceInv(v)' /\ (PhaseInv(v)' => CloneInv(v)')
<1>t. cvc \in [Vol -> CVC] /\ cvc[v].phase \in {"none", "Pending", "Bound", "gone"} /\ Source[v] \subseteq Vol
  BY ProvisionAssumption, Zenon DEF TypeOK, CVC
<1>m. \A w \in Vol : Moves(w)
  BY AllMove
<1>1. ASSUME CreateCVC(v) PROVE SourceInv(v)' /\ CloneInv(v)'
  <2>1. cvc[v].phase = "none" /\ \A s \in Source[v] : cvc[s].phase = "Bound" /\ cvc'[s] = cvc[s]
    BY <1>1, <1>t, CVCPhase, Zenon DEF CreateCVC
  <2>2. cvr'[v] = {} /\ opAt'[v] = "idle"
    BY <1>1, <2>1, Zenon DEF CreateCVC, AllInv, Inv, PhaseInv, objects, opVars
  <2> QED
    BY <2>1, <2>2, Zenon DEF SourceInv, CloneInv
<1>2. ASSUME ~CreateCVC(v) PROVE cvc'[v].phase # "none" => cvc[v].phase # "none"
  BY <1>2, <1>m, SMTT(30) DEF Moves
<1>3. ASSUME ~CreateCVC(v) PROVE SourceInv(v)'
  BY <1>2, <1>3, <1>m, <1>t, Zenon DEF SourceInv, Moves, AllInv, Inv
<1>4. ASSUME ~CreateCVC(v), PhaseInv(v)', NEW s \in Source[v], Exists(cvc[s])'
      PROVE  cvr'[v] \subseteq cvr'[s] /\ (opAt'[v] = "create" => opPools'[v] \subseteq cvr'[s])
  <2>1. CASE cvc'[v].phase = "none"
    BY <1>4, <2>1, Zenon DEF PhaseInv
  <2>2. CASE cvc'[v].phase # "none"
    <3>1. cvc[s].phase = "Bound" /\ s \in Vol
      <4>1. cvc[s].phase \in {"Bound", "gone"} /\ s \in Vol
        BY <1>2, <1>4, <1>t, <2>2, Zenon DEF SourceInv, AllInv, Inv
      <4> QED
        BY <1>4, <1>m, <4>1, Zenon DEF Moves, Exists
    <3>2. cvr'[s] = cvr[s]
      BY <3>1, ReplicasStay
    <3>3. cvr[v] \subseteq cvr[s] /\ (opAt[v] = "create" => opPools[v] \subseteq cvr[s])
      BY <3>1, Zenon DEF AllInv, Inv, CloneInv, Exists
    <3>4. CASE v = u
      <4>1. UsablePools(v) \subseteq cvr[s]
        BY SMTT(30) DEF UsablePools
      <4> QED
        BY <3>2, <3>3, <3>4, <4>1, UsableOnly
    <3>5. CASE v # u
      BY <3>2, <3>3, <3>5, Elsewhere, SMTT(30) DEF Kept
    <3> QED
      BY <3>4, <3>5, Zenon
  <2> QED
    BY <2>1, <2>2, Zenon
<1> QED
  BY <1>1, <1>3, <1>4, Zenon DEF CloneInv

(* The process starts again: no worker has anything, and the cache is new. *)
LEMMA RestartInv ==
  ASSUME TypeOK, AllInv, Restart, UNCHANGED <<cvc, svc, cv, deploy, cvr>> PROVE AllInv'
<1> SUFFICES ASSUME NEW v \in Vol PROVE Inv(v)'
  BY DEF AllInv
<1>1. Inv(v)
  BY DEF AllInv
<1>2. opAt'[v] = "idle" /\ opBase'[v] = NoCVC /\ cache'[v] = cvc[v]
  BY DEF Restart, ReleaseAll
<1>3. PhaseInv(v)'
  BY <1>1, <1>2, Zenon
  DEF Inv, PhaseInv, Creating, Decided, Served, Stored, Targeted, Chosen, Placed, Listed, Syncing
<1>4. PolicyInv(v)'
  BY <1>1, <1>2, CVCPhase, Zenon DEF Inv, PolicyInv, Named
<1>5. SourceInv(v)' /\ CloneInv(v)'
  BY <1>1, <1>2, Zenon DEF Inv, SourceInv, CloneInv
<1>6. CountInv(v)' /\ ObjectInv(v)'
  BY <1>1, <1>2, Zenon
  DEF Inv, CountInv, ObjectInv, Served, Stored, Targeted, Chosen, Placed, Listed
<1> QED
  BY <1>3, <1>4, <1>5, <1>6 DEF Inv

(* The steps that are not of one volume. *)
Around ==
  \/ (\E v \in Vol : ListPanics(v)) \/ OperatorRestart
  \/ (\E k \in Policy : EditPolicyObject(k)) \/ (\E p \in Pool : PoolFails(p) \/ PoolRecovers(p))

LEMMA NextCases == ASSUME Next PROVE (\E v \in Vol : StepOf(v)) \/ Around
BY DEF Next, StepOf, Around

(* Every step keeps the invariant of every volume. *)
LEMMA InvStep == ASSUME TypeOK, AllInv, [Next]_vars PROVE AllInv'
<1> USE DEF objects, opVars
<1>1. ASSUME NEW u \in Vol, StepOf(u) PROVE AllInv'
  <2> SUFFICES ASSUME NEW v \in Vol PROVE Inv(v)'
    BY DEF AllInv
  <2>1. Inv(v)
    BY DEF AllInv
  <2>2. PhaseInv(v)' /\ PolicyInv(v)' /\ CountInv(v)' /\ ObjectInv(v)'
    <3>1. CASE v = u
      BY <1>1, <2>1, <3>1, PhaseStep, PolicyStep, CountStep DEF Inv
    <3>2. CASE v # u
      <4>1. Kept(v)
        BY <1>1, <3>2, Elsewhere
      <4>2. PhaseInv(v)' /\ PolicyInv(v)'
        BY <2>1, <4>1, Zenon DEF Kept, Inv, PhaseInv, PolicyInv
      <4>3. CountInv(v)' /\ ObjectInv(v)'
        BY <2>1, <4>1, Zenon DEF Kept, Inv, CountInv, ObjectInv
      <4> QED
        BY <4>2, <4>3
    <3> QED
      BY <3>1, <3>2
  <2>3. SourceInv(v)' /\ CloneInv(v)'
    BY <1>1, <2>2, SourceStep
  <2> QED
    BY <2>2, <2>3 DEF Inv
<1>2. CASE (\E v \in Vol : ListPanics(v)) \/ OperatorRestart
  BY <1>2, RestartInv DEF ListPanics, OperatorRestart
<1>3. CASE (\E k \in Policy : EditPolicyObject(k)) \/ (\E p \in Pool : PoolFails(p) \/ PoolRecovers(p)) \/ UNCHANGED vars
  <2>1. UNCHANGED <<cvc, cache, objects, opVars>>
    BY <1>3, SMTT(30) DEF EditPolicyObject, PoolFails, PoolRecovers, vars
  <2> QED
    <3>1. ASSUME NEW v \in Vol PROVE Inv(v)'
      <4>1. Inv(v)
        BY Zenon DEF AllInv
      <4>2. PhaseInv(v)' /\ PolicyInv(v)'
        BY <2>1, <4>1, Zenon DEF Inv, PhaseInv, PolicyInv
      <4>3. CountInv(v)' /\ ObjectInv(v)'
        BY <2>1, <4>1, Zenon DEF Inv, CountInv, ObjectInv
      <4>4. SourceInv(v)' /\ CloneInv(v)'
        BY <2>1, <4>1, Zenon DEF Inv, SourceInv, CloneInv
      <4> QED
        BY <4>2, <4>3, <4>4, Zenon DEF Inv
    <3> QED
      BY <3>1, Zenon DEF AllInv
<1> QED
  BY <1>1, <1>2, <1>3, NextCases DEF Around

(* No volume is asked for yet. *)
LEMMA InvInit == ASSUME Init PROVE TypeOK /\ AllInv
<1>1. TypeOK
  <2>1. NoCVC \in CVC /\ NoPDB \in Nat /\ 0 \in Policy /\ "idle" \in Steps
    BY CVCType, PolicyType DEF NoPDB, Steps
  <2>2. pdbs \in Seq(SUBSET Pool)
    BY DEF Init
  <2> QED
    BY <2>1, <2>2, ProvisionAssumption, SMTT(30) DEF Init, TypeOK
<1>2. ASSUME NEW v \in Vol PROVE Inv(v)
  <2>1. /\ cvc[v] = NoCVC /\ cache[v] = NoCVC /\ opBase[v] = NoCVC /\ opAt[v] = "idle" /\ cvr[v] = {}
        /\ NoCVC.phase = "none"
    BY CVCPhase DEF Init
  <2>2. Cardinality(cvr[v]) <= ReplicaCount[v]
    BY <2>1, FS_EmptySet, ProvisionAssumption, SMTT(30)
  <2> QED
    BY <2>1, <2>2, Zenon
    DEF Inv, PhaseInv, PolicyInv, Named, SourceInv, CountInv, ObjectInv, CloneInv, Exists,
        Creating, Decided, Served, Stored, Targeted, Chosen, Placed, Listed, Syncing
<1> QED
  BY <1>1, <1>2 DEF AllInv

(* The inductive invariant: the types and what holds for every volume. *)
THEOREM Invariant == Spec => [](TypeOK /\ AllInv)
<1>1. Init => TypeOK /\ AllInv
  BY InvInit
<1>2. TypeOK /\ AllInv /\ [Next]_vars => (TypeOK /\ AllInv)'
  BY TypeStep, InvStep
<1> QED
  BY <1>1, <1>2, PTL DEF Spec

(* However often createVolumeOperation starts over, in whatever order its  *)
(* calls fail, conflict, panic or are cut short by a restart, a volume     *)
(* never has more replicas than it asks for.                               *)
THEOREM Replicas == Spec => []NoExtraReplicas
<1>1. AllInv => NoExtraReplicas
  BY Zenon DEF AllInv, Inv, CountInv, NoExtraReplicas
<1> QED
  BY <1>1, Invariant, PTL

(* getUsablePoolListForClone: the replicas of a clone are on the pools of  *)
(* its source as long as the source exists, whatever both go through.      *)
THEOREM Clones == Spec => []CloneBesideSource
<1>1. AllInv => CloneBesideSource
  BY SMTT(30) DEF AllInv, Inv, CloneInv, CloneBesideSource
<1> QED
  BY <1>1, Invariant, PTL

-----------------------------------------------------------------------------
(* Only the end of createVolumeOperation makes a CVC Bound. *)
LEMMA Binds ==
  ASSUME TypeOK, NEW v \in Vol, PhaseInv(v), StepOf(v), cvc[v].phase # "Bound", cvc'[v].phase = "Bound"
  PROVE  UpdateCVCObj(v) /\ cvc[v] = opBase[v] /\ cvc'[v] = BoundCVC(v)
<1>t. cvc \in [Vol -> CVC] /\ cvc[v] \in CVC /\ opCVC[v] \in CVC
  BY Zenon DEF TypeOK
<1> USE DEF objects, opVars, outsideOp
<1>1. CASE UpdateCVCObj(v)
  BY <1>1, <1>t, Zenon DEF UpdateCVCObj
<1>2. CASE SyncPolicySpec(v) \/ PopulateVersion(v)
  <2>1. opCVC[v] = opBase[v]
    BY <1>2 DEF SyncPolicySpec, PopulateVersion, PhaseInv, Syncing
  <2>2. cvc'[v] \in {cvc[v], Labelled(cvc[v]), [cvc[v] EXCEPT !.versioned = TRUE]}
    BY <1>t, <1>2, <2>1 DEF SyncPolicySpec, PopulateVersion
  <2> QED
    BY <1>t, <2>2, PhaseKept, Zenon
<1>3. CASE DeleteCVC(v)
  BY <1>3, <1>t DEF DeleteCVC, CVC
<1>4. CASE CreateCVC(v) \/ RemoveClaimFinalizer(v)
  BY <1>4, <1>t, CVCPhase, Zenon DEF CreateCVC, RemoveClaimFinalizer
<1>5. CASE \E k \in SpecPolicy : EditSpecPolicy(v, k)
  BY <1>5 DEF EditSpecPolicy
<1>6. CASE ~ \/ UpdateCVCObj(v) \/ SyncPolicySpec(v) \/ PopulateVersion(v) \/ DeleteCVC(v)
             \/ (\E k \in SpecPolicy : EditSpecPolicy(v, k)) \/ CreateCVC(v) \/ RemoveClaimFinalizer(v)
  BY <1>6, Zenon
  DEF StepOf, SyncCVC, CreateVolumeOperation, WatchCVC, CollectGarbage, CallFails, SyncHandler,
      GetVolumePolicy, GetOrCreateTargetService, GetOrCreateCStorVolumeResource,
      GetOrCreateCStorTargetDeployment, GetPendingCVRCount, DistributeCVRs, CreateCVR,
      GetVolumeReplicaPoolNames, ListPDBs, CreatePDB, PatchTargetDeploymentSpec, ListUsers, DeletePDB
<1> QED
  BY <1>1, <1>2, <1>3, <1>4, <1>5, <1>6, Zenon

(* What may change in a CVC that stays Bound: the user its policy, and     *)
(* syncPolicySpec its label, which it takes from the CVC it has read.      *)
SameSpec(c, d) == c.policy = d.policy /\ c.generation = d.generation
SameLabel(c, d) == c.hash = d.hash /\ c.labelled = d.labelled

LEMMA BoundWrites ==
  ASSUME TypeOK, NEW v \in Vol, PhaseInv(v), StepOf(v), cvc[v].phase = "Bound", cvc'[v].phase = "Bound"
  PROVE  /\ cvc'[v].status = cvc[v].status
         /\ \/ SameSpec(cvc'[v], cvc[v])
            \/ /\ UNCHANGED <<cache, deploy, opAt, opBase, opCVC>>
               /\ cvc'[v].generation = cvc[v].generation + 1 /\ SameLabel(cvc'[v], cvc[v])
         /\ \/ SameLabel(cvc'[v], cvc[v])
            \/ /\ SyncPolicySpec(v) /\ cvc[v] = opBase[v]
               /\ cvc'[v].hash = cvc[v].policy /\ cvc'[v].labelled = cvc[v].generation
<1>t. cvc \in [Vol -> CVC] /\ cvc[v] \in CVC /\ opCVC[v] \in CVC
  BY Zenon DEF TypeOK
<1> USE DEF objects, opVars, outsideOp
<1>1. CASE cvc'[v] = cvc[v]
  BY <1>1, Zenon DEF SameSpec, SameLabel
<1>2. CASE UpdateCVCObj(v)
  <2>1. opBase[v].phase = "Pending"
    BY <1>2, Zenon
    DEF UpdateCVCObj, PhaseInv, Creating, Decided, Served, Stored, Targeted, Chosen, Placed, Listed
  <2> QED
    BY <1>1, <1>2, <2>1, Zenon DEF UpdateCVCObj
<1>3. CASE SyncPolicySpec(v) \/ PopulateVersion(v)
  <2>1. opCVC[v] = opBase[v]
    BY <1>3 DEF SyncPolicySpec, PopulateVersion, PhaseInv, Syncing
  <2>2. \/ cvc'[v] = cvc[v]
        \/ SyncPolicySpec(v) /\ cvc[v] = opBase[v] /\ cvc'[v] = Labelled(cvc[v])
        \/ cvc'[v] = [cvc[v] EXCEPT !.versioned = TRUE]
    <3>1. CASE SyncPolicySpec(v)
      <4>1. cvc'[v] = cvc[v] \/ (cvc[v] = opBase[v] /\ cvc'[v] = Labelled(cvc[v]))
        BY <1>t, <2>1, <3>1 DEF SyncPolicySpec
      <4> QED
        BY <3>1, <4>1
    <3>2. CASE PopulateVersion(v)
      <4>1. cvc'[v] \in {cvc[v], [cvc[v] EXCEPT !.versioned = TRUE]}
        BY <1>t, <2>1, <3>2 DEF PopulateVersion
      <4> QED
        BY <4>1, Zenon
    <3> QED
      BY <1>3, <3>1, <3>2
  <2>3. /\ SameSpec([cvc[v] EXCEPT !.versioned = TRUE], cvc[v])
        /\ SameLabel([cvc[v] EXCEPT !.versioned = TRUE], cvc[v])
        /\ [cvc[v] EXCEPT !.versioned = TRUE].status = cvc[v].status
    BY <1>t DEF SameSpec, SameLabel, CVC
  <2>4. /\ SameSpec(Labelled(cvc[v]), cvc[v]) /\ Labelled(cvc[v]).status = cvc[v].status
        /\ Labelled(cvc[v]).hash = cvc[v].policy /\ Labelled(cvc[v]).labelled = cvc[v].generation
    BY <1>t DEF SameSpec, Labelled, CVC
  <2> QED
    BY <1>1, <2>2, <2>3, <2>4, Zenon
<1>4. CASE DeleteCVC(v)
  BY <1>t, <1>4 DEF DeleteCVC, SameSpec, SameLabel, CVC
<1>5. ASSUME NEW k \in SpecPolicy, EditSpecPolicy(v, k)
      PROVE  /\ cvc'[v].status = cvc[v].status /\ SameLabel(cvc'[v], cvc[v])
             /\ cvc'[v].generation = cvc[v].generation + 1
             /\ UNCHANGED <<cache, deploy, opAt, opBase, opCVC>>
  BY <1>t, <1>5 DEF EditSpecPolicy, Edited, SameLabel, CVC
<1>6. CASE CreateCVC(v) \/ RemoveClaimFinalizer(v)
  BY <1>1, <1>6, <1>t, CVCPhase, Zenon DEF CreateCVC, RemoveClaimFinalizer
<1>7. CASE ~ \/ UpdateCVCObj(v) \/ SyncPolicySpec(v) \/ PopulateVersion(v) \/ DeleteCVC(v)
             \/ (\E k \in SpecPolicy : EditSpecPolicy(v, k)) \/ CreateCVC(v) \/ RemoveClaimFinalizer(v)
  <2>1. cvc' = cvc
    BY <1>7, Zenon
    DEF StepOf, SyncCVC, CreateVolumeOperation, WatchCVC, CollectGarbage, CallFails, SyncHandler,
        GetVolumePolicy, GetOrCreateTargetService, GetOrCreateCStorVolumeResource,
        GetOrCreateCStorTargetDeployment, GetPendingCVRCount, DistributeCVRs, CreateCVR,
        GetVolumeReplicaPoolNames, ListPDBs, CreatePDB, PatchTargetDeploymentSpec, ListUsers, DeletePDB
  <2> QED
    BY <1>1, <2>1, Zenon
<1> QED
  BY <1>2, <1>3, <1>4, <1>5, <1>6, <1>7, Zenon

(* A worker whose policy is read keeps it: only getVolumePolicy reads it,  *)
(* and only distributeCVRs chooses pools.                                  *)
LEMMA DecidedStep ==
  ASSUME TypeOK, NEW v \in Vol, StepOf(v), ~GetVolumePolicy(v)
  PROVE  \/ opAt'[v] \notin Decided
         \/ /\ UNCHANGED opCVC /\ opAt[v] \in Decided
            /\ opAt'[v] \in Chosen => opAt[v] \in Chosen \/ DistributeCVRs(v)
<1>t. opAt \in [Vol -> Steps]
  BY DEF TypeOK
<1> USE DEF objects, opVars, outsideOp, Goto
<1>1. CASE \/ CreateCVC(v) \/ DeleteCVC(v) \/ WatchCVC(v) \/ CollectGarbage(v)
           \/ \E k \in SpecPolicy : EditSpecPolicy(v, k)
  BY <1>1 DEF CreateCVC, DeleteCVC, WatchCVC, CollectGarbage, EditSpecPolicy
<1>2. CASE \/ SyncHandler(v) \/ PopulateVersion(v) \/ UpdateCVCObj(v) \/ SyncPolicySpec(v)
           \/ PatchTargetDeploymentSpec(v) \/ ListUsers(v) \/ DeletePDB(v)
           \/ RemoveClaimFinalizer(v) \/ CallFails(v)
  <2>1. opAt'[v] \in {"idle", "version", "policy", "sync", "hash", "listUsers", "deletePDB", "unfinalize"}
    BY <1>t, <1>2, Zenon
    DEF SyncHandler, AfterVersion, PopulateVersion, UpdateCVCObj, SyncPolicySpec,
        PatchTargetDeploymentSpec, ListUsers, DeletePDB, RemoveClaimFinalizer, CallFails, Release
  <2> QED
    BY <2>1, Zenon DEF Decided, Served, Stored, Targeted, Chosen, Placed, Listed
<1>3. CASE \/ GetOrCreateTargetService(v) \/ GetOrCreateCStorVolumeResource(v)
           \/ GetOrCreateCStorTargetDeployment(v) \/ GetPendingCVRCount(v)
  <2>1. /\ UNCHANGED opCVC /\ opAt[v] \in {"service", "volume", "target", "count"}
        /\ opAt'[v] \in {"volume", "target", "count", "place"}
    BY <1>t, <1>3, Zenon
    DEF GetOrCreateTargetService, GetOrCreateCStorVolumeResource,
        GetOrCreateCStorTargetDeployment, GetPendingCVRCount
  <2> QED
    BY <2>1, Zenon DEF Decided, Served, Stored, Targeted, Chosen, Placed, Listed
<1>4. CASE CreateCVR(v) \/ GetVolumeReplicaPoolNames(v) \/ ListPDBs(v) \/ CreatePDB(v)
  <2>1. UNCHANGED opCVC /\ opAt[v] \in {"create", "names", "listPDBs", "createPDB"}
    BY <1>4, Zenon DEF CreateCVR, GetVolumeReplicaPoolNames, ListPDBs, CreatePDB
  <2> QED
    BY <2>1, Zenon DEF Decided, Served, Stored, Targeted, Chosen, Placed, Listed
<1>5. CASE DistributeCVRs(v)
  <2>1. CASE Release(v)
    BY <1>t, <2>1 DEF Release, Decided, Served, Stored, Targeted, Chosen, Placed, Listed
  <2>2. CASE UNCHANGED opCVC
    <3>1. opAt[v] \in Decided
      BY <1>5, Zenon DEF DistributeCVRs, Decided, Served, Stored, Targeted
    <3> QED
      BY <1>5, <2>2, <3>1, Zenon
  <2> QED
    BY <1>5, <2>1, <2>2, Zenon DEF DistributeCVRs
<1> QED
  BY <1>1, <1>2, <1>3, <1>4, <1>5, Zenon DEF StepOf, SyncCVC, CreateVolumeOperation

(* addReplicaPoolInfo: the status of a CVC that becomes Bound is that of   *)
(* its replicas, and no write changes either afterwards.                   *)
LEMMA StatusStep ==
  ASSUME TypeOK, AllInv, PolicyPools[policyObj] = PolicyPools[0], NEW v \in Vol, StatusInv(v), StepOf(v)
  PROVE  StatusInv(v)'
<1>t. /\ cvc \in [Vol -> CVC] /\ cvr \in [Vol -> SUBSET Pool] /\ opAt \in [Vol -> Steps]
      /\ opCVC \in [Vol -> CVC] /\ cvc[v] \in CVC /\ opCVC[v] \in CVC
  BY Zenon DEF TypeOK
<1>i. Inv(v)
  BY DEF AllInv
<1>m. Moves(v)
  BY AllMove
<1> USE DEF objects, opVars, outsideOp, Goto
<1>1. cvr'[v] \subseteq CandidatePools(0) /\ (opAt'[v] = "create" => opPools'[v] \subseteq CandidatePools(0))
  <2>1. opAt[v] = "place" => UsablePools(v) \subseteq CandidatePools(0)
    BY Zenon DEF StatusInv, UsablePools, CandidatePools, Decided, Served, Stored, Targeted
  <2> QED
    BY <2>1, UsableOnly, Zenon DEF StatusInv
<1>2. /\ opAt'[v] \in Decided => PolicyPools[opCVC'[v].policy] = PolicyPools[0]
      /\ opAt'[v] \in Chosen /\ PolicyPools[0] # {} => Cardinality(PolicyPools[0]) = ReplicaCount[v]
  <2>1. CASE GetVolumePolicy(v)
    <3>1. opAt'[v] = "service" /\ opCVC'[v].policy = policyObj
      BY <1>t, <2>1 DEF GetVolumePolicy, CVC
    <3> QED
      BY <3>1, SMTT(30) DEF Chosen, Placed, Listed
  <2>2. CASE DistributeCVRs(v)
    <3>1. CASE Release(v)
      BY <1>t, <3>1, Zenon DEF Release, Decided, Served, Stored, Targeted, Chosen, Placed, Listed
    <3>2. CASE /\ Goto(v, "create") /\ UNCHANGED opCVC
               /\ PolicyPools[opCVC[v].policy] # {} => Cardinality(PolicyPools[opCVC[v].policy]) = ReplicaCount[v]
      <4>1. PolicyPools[opCVC[v].policy] = PolicyPools[0]
        BY <2>2, Zenon DEF DistributeCVRs, StatusInv, Decided, Served, Stored, Targeted
      <4> QED
        BY <3>2, <4>1, Zenon
    <3> QED
      BY <2>2, <3>1, <3>2, Zenon DEF DistributeCVRs
  <2>3. CASE ~GetVolumePolicy(v) /\ ~DistributeCVRs(v)
    <3>1. \/ opAt'[v] \notin Decided
          \/ UNCHANGED opCVC /\ opAt[v] \in Decided /\ (opAt'[v] \in Chosen => opAt[v] \in Chosen)
      BY <2>3, DecidedStep, Zenon
    <3>2. Chosen \subseteq Decided
      BY DEF Decided, Served, Stored, Targeted
    <3> QED
      BY <3>1, <3>2, Zenon DEF StatusInv
  <2> QED
    BY <2>1, <2>2, <2>3, Zenon
<1>3. ASSUME cvc'[v].phase = "Bound" PROVE cvc'[v].status = cvr'[v]
  <2>1. CASE cvc[v].phase = "Bound"
    <3>1. cvr'[v] = cvr[v]
      BY <2>1, ReplicasStay
    <3>2. cvc'[v].status = cvc[v].status
      BY <1>3, <1>i, <2>1, BoundWrites, Zenon DEF Inv
    <3> QED
      BY <2>1, <3>1, <3>2, Zenon DEF StatusInv
  <2>2. CASE cvc[v].phase # "Bound"
    <3>1. UpdateCVCObj(v) /\ cvc[v] = opBase[v] /\ cvc'[v] = BoundCVC(v)
      BY <1>3, <1>i, <2>2, Binds, Zenon DEF Inv
    <3>2. opAt[v] = "bind" /\ opBase[v].phase = "Pending" /\ cvr'[v] = cvr[v]
      BY <1>i, <3>1, Zenon
      DEF UpdateCVCObj, Inv, PhaseInv, Creating, Decided, Served, Stored, Targeted, Chosen, Placed, Listed
    <3>3. opPools[v] = cvr[v] /\ Cardinality(cvr[v]) = ReplicaCount[v]
      BY <1>i, <3>1, <3>2, Zenon DEF Inv, ObjectInv, Exists, Placed, Listed
    <3>4. /\ PolicyPools[opCVC[v].policy] = PolicyPools[0]
          /\ PolicyPools[0] # {} => Cardinality(PolicyPools[0]) = ReplicaCount[v]
      BY <3>2, Zenon DEF StatusInv, Decided, Served, Stored, Targeted, Chosen, Placed, Listed
    <3>5. PolicyPools[0] # {} => cvr[v] = PolicyPools[0]
      <4>1. cvr[v] \in SUBSET Pool /\ PolicyPools[0] \in SUBSET Pool
        BY <1>t, PolicyType, ProvisionAssumption
      <4>2. PolicyPools[0] # {} => cvr[v] \subseteq PolicyPools[0]
        BY Zenon DEF StatusInv, CandidatePools
      <4> QED
        BY <3>3, <3>4, <4>1, <4>2, PoolCard, Zenon
    <3>6. cvc'[v].status = PolicyPools[0] \cup cvr[v]
      BY <1>t, <3>1, <3>3, <3>4 DEF BoundCVC, CVC
    <3> QED
      BY <3>2, <3>5, <3>6, Zenon
  <2> QED
    BY <2>1, <2>2, Zenon
<1> QED
  BY <1>1, <1>2, <1>3, Zenon DEF StatusInv

-----------------------------------------------------------------------------
(* syncPolicySpec: the Deployment is patched before the hash is written,   *)
(* and a hash is written only over the CVC the policy was read from.       *)
LEMMA HashedStep ==
  ASSUME TypeOK, AllInv, NEW v \in Vol, HashInv(v), StepOf(v), cvc'[v].phase = "Bound"
  PROVE  Hashed(v)'
<1>t. /\ cvc \in [Vol -> CVC] /\ cache \in [Vol -> CVC] /\ opBase \in [Vol -> CVC] /\ opCVC \in [Vol -> CVC]
      /\ opAt \in [Vol -> Steps] /\ deploy \in [Vol -> Policy \cup {NoPolicy}]
      /\ cvc[v] \in CVC /\ opCVC[v] \in CVC /\ opBase[v] \in CVC
  BY Zenon DEF TypeOK
<1>i. Inv(v)
  BY Zenon DEF AllInv
<1>p. 0 \in Policy /\ NoPolicy \notin Policy /\ Policy \subseteq Nat
  BY PolicyType, Zenon
<1>n. Named(cvc[v]) /\ Named(cache[v]) /\ Named(opBase[v])
  BY <1>i, Zenon DEF Inv, PolicyInv
<1> USE DEF objects, opVars, outsideOp, Goto
<1>1. CASE cvc[v].phase # "Bound"
  <2>1. UpdateCVCObj(v) /\ cvc[v] = opBase[v] /\ cvc'[v] = BoundCVC(v)
    BY <1>1, <1>i, Binds, Zenon DEF Inv
  <2>2. /\ opAt[v] = "bind" /\ opBase[v].phase = "Pending" /\ UNCHANGED <<cache, deploy>> /\ opAt'[v] = "idle"
    BY <1>i, <1>t, <2>1, Zenon
    DEF UpdateCVCObj, Release, Inv, PhaseInv, Creating, Decided, Served, Stored, Targeted, Chosen, Placed, Listed
  <2>3. opCVC[v].policy = 0 /\ deploy[v] = 0
    BY <1>i, <2>1, <2>2, Zenon
    DEF HashInv, Inv, ObjectInv, Exists, Decided, Served, Stored, Targeted, Chosen, Placed, Listed
  <2>4. cvc'[v].hash = 0 /\ cvc'[v].policy = 0 /\ cvc'[v].labelled = cvc'[v].generation /\ cvc'[v].generation \in Nat
    BY <1>t, <2>1, <2>3 DEF BoundCVC, Labelled, CVC
  <2>5. cache[v].phase # "Bound"
    BY <1>i, <2>1, <2>2, Zenon DEF Inv, PhaseInv
  <2>6. cvc'[v].labelled <= cvc'[v].generation
    BY <2>4
  <2> QED
    BY <1>p, <2>2, <2>3, <2>4, <2>5, <2>6, Zenon DEF Hashed
<1>2. CASE cvc[v].phase = "Bound"
  <2>h. Hashed(v) /\ v \in cv /\ deploy[v] # NoPolicy
    BY <1>2, <1>i, Zenon DEF HashInv, Inv, ObjectInv
  <2>w. /\ \/ SameSpec(cvc'[v], cvc[v])
           \/ /\ UNCHANGED <<cache, deploy, opAt, opBase, opCVC>>
              /\ cvc'[v].generation = cvc[v].generation + 1 /\ SameLabel(cvc'[v], cvc[v])
        /\ \/ SameLabel(cvc'[v], cvc[v])
           \/ /\ SyncPolicySpec(v) /\ cvc[v] = opBase[v]
              /\ cvc'[v].hash = cvc[v].policy /\ cvc'[v].labelled = cvc[v].generation
    BY <1>2, <1>i, BoundWrites, Zenon DEF Inv
  <2>n. /\ cvc[v].generation \in Nat /\ cvc[v].labelled \in Nat
        /\ cache[v].generation \in Nat /\ opBase[v].generation \in Nat
    BY <1>t, Zenon DEF CVC
  (* The worker goes on or is done, and nothing else is written. *)
  <2>g. ASSUME SameSpec(cvc'[v], cvc[v]), SameLabel(cvc'[v], cvc[v]), UNCHANGED cache,
               deploy'[v] = deploy[v],
               \/ opAt'[v] = "idle"
               \/ opAt[v] # "idle" /\ opAt'[v] # "hash" /\ opBase'[v].phase = opBase[v].phase
                  /\ SameSpec(opBase'[v], opBase[v])
        PROVE  Hashed(v)'
    BY <2>g, <2>h, Zenon DEF Hashed, Behind, SameSpec, SameLabel
  <2>1. CASE \E k \in SpecPolicy : EditSpecPolicy(v, k)
    <3>1. UNCHANGED <<cache, deploy, opAt, opBase>>
      BY <2>1 DEF EditSpecPolicy
    <3>2. SameLabel(cvc'[v], cvc[v]) /\ cvc'[v].generation = cvc[v].generation + 1
      <4>1. PICK k \in SpecPolicy : EditSpecPolicy(v, k)
        BY <2>1, Zenon
      <4> QED
        BY <1>t, <4>1 DEF EditSpecPolicy, Edited, SameLabel, CVC
    <3>3. /\ cvc[v].labelled <= cvc[v].generation
          /\ cache[v].phase = "Bound" => cache[v].generation <= cvc[v].generation
      BY <2>h, Zenon DEF Hashed, Behind
    <3>4. /\ cvc[v].labelled <= cvc'[v].generation /\ cvc[v].labelled # cvc'[v].generation
          /\ cache[v].phase = "Bound" =>
               cache[v].generation <= cvc'[v].generation /\ cache[v].generation # cvc'[v].generation
      BY <2>n, <3>2, <3>3
    <3> QED
      BY <2>h, <3>1, <3>2, <3>4, Zenon DEF Hashed, Behind, SameLabel
  <2>2. CASE DeleteCVC(v)
    <3>1. /\ SameSpec(cvc'[v], cvc[v]) /\ SameLabel(cvc'[v], cvc[v])
          /\ UNCHANGED <<cache, deploy, opAt, opBase>>
      BY <1>t, <2>2 DEF DeleteCVC, SameSpec, SameLabel, CVC
    <3> QED
      BY <2>h, <3>1, Zenon DEF Hashed, Behind, SameSpec, SameLabel
  <2>3. CASE WatchCVC(v)
    <3>1. cache'[v] = cvc[v] /\ UNCHANGED <<cvc, deploy, opAt, opBase>>
      BY <1>t, <2>3, SMTT(30) DEF WatchCVC
    <3>2. opAt[v] # "idle" /\ opBase[v].phase = "Bound" => Behind(opBase[v], cvc[v])
      <4> SUFFICES ASSUME opAt[v] # "idle", opBase[v].phase = "Bound" PROVE Behind(opBase[v], cvc[v])
        OBVIOUS
      <4>1. Behind(opBase[v], cache[v]) /\ Behind(cache[v], cvc[v])
        BY <2>h, Zenon DEF Hashed
      <4> QED
        BY <2>n, <4>1 DEF Behind
    <3>3. Behind(cvc[v], cvc[v])
      BY <2>n DEF Behind
    <3> QED
      BY <1>2, <2>h, <3>1, <3>2, <3>3, Zenon DEF Hashed
  <2>4. CASE CollectGarbage(v)
    <3>1. UNCHANGED <<cvc, cache, deploy, opAt, opBase>>
      BY <1>2, <2>4, <2>h, Zenon DEF CollectGarbage, Exists
    <3> QED
      BY <2>h, <3>1, Zenon DEF Hashed
  <2>5. CASE SyncHandler(v)
    <3>1. opBase'[v] = cache[v] /\ opAt'[v] # "hash" /\ UNCHANGED <<cvc, cache, deploy>>
      BY <1>t, <2>5 DEF SyncHandler, AfterVersion
    <3>2. Behind(cache[v], cache[v])
      BY <2>n DEF Behind
    <3> QED
      BY <2>h, <3>1, <3>2, Zenon DEF Hashed
  <2>6. CASE PopulateVersion(v)
    <3>1. UNCHANGED <<cache, deploy>> /\ opAt[v] = "version" /\ opCVC[v] = opBase[v]
      BY <1>i, <2>6 DEF PopulateVersion, Inv, PhaseInv
    <3>2. CASE cvc[v] # opBase[v]
      BY <1>t, <2>6, <2>g, <3>1, <3>2 DEF PopulateVersion, Release, SameSpec, SameLabel
    <3>3. CASE cvc[v] = opBase[v]
      <4>1. /\ cvc'[v] = [opBase[v] EXCEPT !.versioned = TRUE] /\ opBase'[v] = [opBase[v] EXCEPT !.versioned = TRUE]
            /\ opAt'[v] # "hash"
        BY <1>t, <2>6, <3>1, <3>3 DEF PopulateVersion, AfterVersion
      <4>2. /\ SameSpec(cvc'[v], opBase[v]) /\ SameLabel(cvc'[v], opBase[v])
            /\ SameSpec(opBase'[v], opBase[v]) /\ opBase'[v].phase = opBase[v].phase
        BY <1>t, <4>1 DEF SameSpec, SameLabel, CVC
      <4> QED
        BY <2>g, <3>1, <3>3, <4>1, <4>2
    <3> QED
      BY <3>2, <3>3, Zenon
  <2>7. CASE PatchTargetDeploymentSpec(v)
    <3>1. UNCHANGED <<cvc, cache>> /\ opAt[v] = "sync" /\ opCVC[v] = opBase[v] /\ opBase[v].phase = "Bound"
      BY <1>i, <2>7, Zenon DEF PatchTargetDeploymentSpec, Inv, PhaseInv, Syncing
    <3>2. CASE Release(v) /\ UNCHANGED deploy
      BY <1>t, <2>g, <3>1, <3>2, Zenon DEF Release, SameSpec, SameLabel
    <3>3. CASE /\ deploy' = [deploy EXCEPT ![v] = opCVC[v].policy] /\ Goto(v, "hash") /\ UNCHANGED opBase
      <4>1. deploy'[v] = opBase[v].policy /\ opAt'[v] = "hash"
        BY <1>t, <3>1, <3>3
      <4>2. /\ cvc[v].labelled <= opBase[v].generation /\ Behind(opBase[v], cache[v])
            /\ cache[v].phase = "Bound" /\ Behind(cache[v], cvc[v])
        BY <2>h, <3>1, Zenon DEF Hashed
      <4>3. cvc[v].labelled = cvc[v].generation => opBase[v].policy = cvc[v].policy
        BY <2>n, <4>2 DEF Behind
      <4> QED
        BY <2>h, <3>1, <3>3, <4>1, <4>3, Zenon DEF Hashed
    <3> QED
      BY <2>7, <3>2, <3>3, Zenon DEF PatchTargetDeploymentSpec
  <2>8. CASE SyncPolicySpec(v)
    <3>1. opAt[v] = "hash" /\ opAt'[v] = "idle" /\ UNCHANGED <<cache, deploy>> /\ opBase[v].phase = "Bound"
      BY <1>i, <1>t, <2>8, Zenon DEF SyncPolicySpec, Release, Inv, PhaseInv, Syncing
    <3>2. SameSpec(cvc'[v], cvc[v])
      BY <1>t, <2>w, <3>1, Zenon
    <3>3. CASE SameLabel(cvc'[v], cvc[v])
      BY <2>g, <3>1, <3>2, <3>3, Zenon
    <3>4. CASE /\ cvc[v] = opBase[v]
               /\ cvc'[v].hash = cvc[v].policy /\ cvc'[v].labelled = cvc[v].generation
      <4>1. cvc[v].generation <= cvc[v].generation
        BY <2>n
      <4>2. /\ cvc[v].generation <= cache[v].generation /\ Behind(cache[v], cvc[v])
            /\ deploy[v] = cvc[v].policy
        BY <2>h, <3>1, <3>4, Zenon DEF Hashed, Behind
      <4> QED
        BY <3>1, <3>2, <3>4, <4>1, <4>2, Zenon DEF Hashed, Behind, SameSpec
    <3> QED
      BY <2>w, <3>3, <3>4, Zenon
  <2>9. CASE UpdateCVCObj(v) \/ CallFails(v) \/ RemoveClaimFinalizer(v)
    <3>1. opAt'[v] = "idle" /\ opAt[v] # "idle" /\ UNCHANGED <<cache, deploy>>
      BY <1>t, <2>9, Zenon DEF UpdateCVCObj, CallFails, RemoveClaimFinalizer, Release
    <3>2. SameSpec(cvc'[v], cvc[v])
      BY <1>t, <2>w, <3>1, Zenon
    <3>3. SameLabel(cvc'[v], cvc[v])
      <4>1. UNCHANGED cvc \/ ~SyncPolicySpec(v)
        BY <2>9 DEF CallFails, UpdateCVCObj, RemoveClaimFinalizer, SyncPolicySpec
      <4> QED
        BY <2>w, <4>1, Zenon DEF SameLabel
    <3> QED
      BY <2>g, <3>1, <3>2, <3>3, Zenon
  <2>10. CASE GetOrCreateCStorTargetDeployment(v)
    BY <1>t, <2>10, <2>g, <2>h, Zenon DEF GetOrCreateCStorTargetDeployment, SameSpec, SameLabel
  <2>11. CASE DistributeCVRs(v)
    <3>1. CASE Release(v)
      BY <1>t, <2>11, <2>g, <3>1, Zenon DEF DistributeCVRs, Release, SameSpec, SameLabel
    <3>2. CASE Goto(v, "create") /\ UNCHANGED opBase
      BY <1>t, <2>11, <2>g, <3>2, Zenon DEF DistributeCVRs, SameSpec, SameLabel
    <3> QED
      BY <2>11, <3>1, <3>2, Zenon DEF DistributeCVRs
  <2>12. CASE \/ GetVolumePolicy(v) \/ GetOrCreateTargetService(v) \/ GetOrCreateCStorVolumeResource(v)
              \/ GetPendingCVRCount(v) \/ CreateCVR(v) \/ GetVolumeReplicaPoolNames(v) \/ ListPDBs(v)
              \/ CreatePDB(v) \/ ListUsers(v) \/ DeletePDB(v)
    <3>1. UNCHANGED <<cvc, cache, deploy, opBase>> /\ opAt[v] # "idle" /\ opAt'[v] # "hash"
      BY <1>t, <2>12, Zenon
      DEF GetVolumePolicy, GetOrCreateTargetService, GetOrCreateCStorVolumeResource, GetPendingCVRCount,
          CreateCVR, GetVolumeReplicaPoolNames, ListPDBs, CreatePDB, ListUsers, DeletePDB
    <3> QED
      BY <2>g, <3>1, Zenon DEF SameSpec, SameLabel
  <2>13. CASE CreateCVC(v)
    BY <1>2, <2>13, CVCPhase, Zenon DEF CreateCVC
  <2> QED
    BY <2>1, <2>2, <2>3, <2>4, <2>5, <2>6, <2>7, <2>8, <2>9, <2>10, <2>11, <2>12, <2>13, Zenon
    DEF StepOf, SyncCVC, CreateVolumeOperation
<1> QED
  BY <1>1, <1>2

(* Provisioning uses the policy as it is, and its Deployment is the first. *)
LEMMA HashStep ==
  ASSUME TypeOK, AllInv, policyObj = 0, NEW v \in Vol, HashInv(v), StepOf(v)
  PROVE  HashInv(v)'
<1>t. /\ cvc \in [Vol -> CVC] /\ opCVC \in [Vol -> CVC] /\ opAt \in [Vol -> Steps]
      /\ deploy \in [Vol -> Policy \cup {NoPolicy}] /\ cvc[v].phase \in {"none", "Pending", "Bound", "gone"}
  BY Zenon DEF TypeOK, CVC
<1>i. PhaseInv(v)
  BY DEF AllInv, Inv
<1>m. Moves(v)
  BY AllMove
<1> USE DEF objects, opVars, outsideOp, Goto
<1>1. opAt'[v] \in Decided => opCVC'[v].policy = 0
  <2>1. CASE GetVolumePolicy(v)
    BY <1>t, <2>1 DEF GetVolumePolicy, CVC
  <2>2. CASE ~GetVolumePolicy(v)
    <3>1. opAt'[v] \notin Decided \/ (UNCHANGED opCVC /\ opAt[v] \in Decided)
      BY <2>2, DecidedStep, Zenon
    <3> QED
      BY <3>1 DEF HashInv
  <2> QED
    BY <2>1, <2>2
<1>2. ASSUME cvc'[v].phase \in {"none", "Pending"}
      PROVE  /\ cvc'[v].phase = "none" => deploy'[v] = NoPolicy
             /\ cvc'[v].phase = "Pending" => deploy'[v] \in {NoPolicy, 0}
  <2>1. \/ cvc'[v].phase = cvc[v].phase
        \/ CreateCVC(v) /\ cvc[v].phase = "none" /\ cvc'[v].phase = "Pending"
    BY <1>2, <1>m, <1>t, CVCPhase, Zenon DEF Moves, CreateCVC
  <2>2. CASE GetOrCreateCStorTargetDeployment(v)
    <3>1. cvc'[v].phase = cvc[v].phase /\ opCVC[v].policy = 0 /\ cvc[v].phase # "none"
      BY <1>i, <2>2, Zenon
      DEF GetOrCreateCStorTargetDeployment, HashInv, PhaseInv, Decided, Served, Stored
    <3> QED
      BY <1>t, <2>2, <3>1, Zenon DEF GetOrCreateCStorTargetDeployment, HashInv
  <2>3. CASE PatchTargetDeploymentSpec(v)
    <3>1. UNCHANGED cvc /\ opAt[v] = "sync"
      BY <2>3, Zenon DEF PatchTargetDeploymentSpec
    <3> QED
      BY <1>2, <1>i, <3>1, Zenon DEF PhaseInv, Syncing
  <2>4. CASE CollectGarbage(v)
    BY <1>t, <2>4, Zenon DEF CollectGarbage, HashInv
  <2>5. CASE ~ \/ GetOrCreateCStorTargetDeployment(v) \/ PatchTargetDeploymentSpec(v) \/ CollectGarbage(v)
    <3>1. UNCHANGED deploy
      BY <2>5, Zenon
      DEF StepOf, SyncCVC, CreateVolumeOperation, CreateCVC, DeleteCVC, WatchCVC, EditSpecPolicy, CallFails,
          SyncHandler, PopulateVersion, GetVolumePolicy, GetOrCreateTargetService,
          GetOrCreateCStorVolumeResource, GetPendingCVRCount, DistributeCVRs, CreateCVR,
          GetVolumeReplicaPoolNames, ListPDBs, CreatePDB, UpdateCVCObj, SyncPolicySpec, ListUsers,
          DeletePDB, RemoveClaimFinalizer
    <3> QED
      BY <2>1, <3>1, Zenon DEF HashInv
  <2> QED
    BY <2>2, <2>3, <2>4, <2>5, Zenon
<1>3. cvc'[v].phase = "Bound" => Hashed(v)'
  BY HashedStep, Zenon
<1> QED
  BY <1>1, <1>2, <1>3, Zenon DEF HashInv

-----------------------------------------------------------------------------
(* No step but the user's edit changes the policy object. *)
LEMMA PolicyObjectStays ==
  ASSUME [Next]_vars, ~ \E k \in Policy : EditPolicyObject(k)
  PROVE  policyObj' = policyObj
<1> USE DEF objects, opVars, outsideOp
<1>1. ASSUME NEW v \in Vol, StepOf(v) PROVE policyObj' = policyObj
  BY <1>1, Zenon
  DEF StepOf, SyncCVC, CreateVolumeOperation, CreateCVC, DeleteCVC, WatchCVC, CollectGarbage,
      EditSpecPolicy, CallFails, SyncHandler, PopulateVersion, GetVolumePolicy,
      GetOrCreateTargetService, GetOrCreateCStorVolumeResource, GetOrCreateCStorTargetDeployment,
      GetPendingCVRCount, DistributeCVRs, CreateCVR, GetVolumeReplicaPoolNames, ListPDBs, CreatePDB,
      UpdateCVCObj, PatchTargetDeploymentSpec, SyncPolicySpec, ListUsers, DeletePDB,
      RemoveClaimFinalizer
<1>2. ASSUME Around PROVE policyObj' = policyObj
  BY <1>2, SMTT(30) DEF Around, ListPanics, OperatorRestart, PoolFails, PoolRecovers
<1> QED
  BY <1>1, <1>2, NextCases DEF vars

(* The statuses, while the pools a policy names stay the same. *)
LEMMA AllStatusStep ==
  ASSUME TypeOK, AllInv, PoolsFixed, AllStatus, [Next]_vars PROVE AllStatus'
<1> USE DEF objects, opVars
<1>1. PolicyPools[policyObj'] = PolicyPools[0]
  <2>1. CASE \E k \in Policy : EditPolicyObject(k)
    BY <2>1 DEF EditPolicyObject, Fault, PoolsFixed
  <2> QED
    BY <2>1, PolicyObjectStays DEF AllStatus
<1>2. ASSUME NEW v \in Vol PROVE StatusInv(v)'
  <2>s. StatusInv(v)
    BY DEF AllStatus
  <2>1. ASSUME NEW u \in Vol, StepOf(u) PROVE StatusInv(v)'
    <3>1. CASE v = u
      BY <2>1, <2>s, <3>1, StatusStep DEF AllStatus
    <3>2. CASE v # u
      BY <2>1, <2>s, <3>2, Elsewhere, Zenon DEF Kept, StatusInv
    <3> QED
      BY <3>1, <3>2
  <2>2. CASE (\E w \in Vol : ListPanics(w)) \/ OperatorRestart
    <3>1. opAt'[v] = "idle" /\ UNCHANGED <<cvc, cvr>>
      BY <2>2, SMTT(30) DEF ListPanics, OperatorRestart, Restart, ReleaseAll
    <3> QED
      BY <2>s, <3>1, Zenon DEF StatusInv, Decided, Served, Stored, Targeted, Chosen, Placed, Listed
  <2>3. CASE (\E k \in Policy : EditPolicyObject(k)) \/ (\E p \in Pool : PoolFails(p) \/ PoolRecovers(p)) \/ UNCHANGED vars
    <3>1. UNCHANGED <<cvc, cvr, opVars>>
      BY <2>3, Zenon DEF EditPolicyObject, PoolFails, PoolRecovers, vars
    <3> QED
      BY <2>s, <3>1, Zenon DEF StatusInv
  <2> QED
    BY <2>1, <2>2, <2>3, NextCases DEF Around
<1> QED
  BY <1>1, <1>2 DEF AllStatus

(* The hashes, while the policy object stays as it is. *)
LEMMA AllHashStep ==
  ASSUME TypeOK, AllInv, "edit" \notin FaultKinds, AllHash, [Next]_vars PROVE AllHash'
<1> USE DEF objects, opVars
<1>1. policyObj' = 0
  BY PolicyObjectStays DEF EditPolicyObject, Fault, AllHash
<1>2. ASSUME NEW v \in Vol PROVE HashInv(v)'
  <2>h. HashInv(v) /\ Inv(v)
    BY DEF AllHash, AllInv
  <2>1. ASSUME NEW u \in Vol, StepOf(u) PROVE HashInv(v)'
    <3>1. CASE v = u
      BY <2>1, <2>h, <3>1, HashStep DEF AllHash
    <3>2. CASE v # u
      BY <2>1, <2>h, <3>2, Elsewhere, Zenon DEF Kept, HashInv, Hashed, Behind
    <3> QED
      BY <3>1, <3>2
  <2>2. CASE (\E w \in Vol : ListPanics(w)) \/ OperatorRestart
    <3>1. opAt'[v] = "idle" /\ cache'[v] = cvc[v] /\ UNCHANGED <<cvc, deploy>>
      BY <2>2, Zenon DEF ListPanics, OperatorRestart, Restart, ReleaseAll
    <3>2. cvc[v].generation \in Nat
      BY Zenon DEF TypeOK, CVC
    <3>3. Behind(cvc[v], cvc[v])
      BY <3>2 DEF Behind
    <3> QED
      BY <2>h, <3>1, <3>3, Zenon
      DEF HashInv, Hashed, Decided, Served, Stored, Targeted, Chosen, Placed, Listed
  <2>3. CASE (\E k \in Policy : EditPolicyObject(k)) \/ (\E p \in Pool : PoolFails(p) \/ PoolRecovers(p)) \/ UNCHANGED vars
    <3>1. UNCHANGED <<cvc, cache, deploy, opVars>>
      BY <2>3, Zenon DEF EditPolicyObject, PoolFails, PoolRecovers, vars
    <3> QED
      BY <2>h, <3>1, Zenon DEF HashInv, Hashed, Behind
  <2> QED
    BY <2>1, <2>2, <2>3, NextCases DEF Around
<1> QED
  BY <1>1, <1>2 DEF AllHash

(* Nothing is there at first. *)
LEMMA StatusInit == ASSUME Init PROVE AllStatus /\ AllHash
<1>1. ASSUME NEW v \in Vol PROVE StatusInv(v) /\ HashInv(v)
  <2>1. cvc[v].phase = "none" /\ opAt[v] = "idle" /\ cvr[v] = {} /\ deploy[v] = NoPolicy
    BY CVCPhase, Zenon DEF Init
  <2> QED
    BY <2>1, Zenon
    DEF StatusInv, HashInv, Decided, Served, Stored, Targeted, Chosen, Placed, Listed
<1> QED
  BY <1>1 DEF Init, AllStatus, AllHash

(* "bound with cstorvolume": a Bound CVC has its Service, its CStorVolume, *)
(* its Deployment and exactly its replicas, and its status lists their     *)
(* pools, if no edit in the middle of a provisioning changes the pools     *)
(* that the policy names.                                                  *)
THEOREM Complete == ASSUME PoolsFixed PROVE Spec => []BoundIsComplete
<1>1. Init => AllStatus
  BY StatusInit
<1>2. TypeOK /\ AllInv /\ AllStatus /\ [Next]_vars => AllStatus'
  BY AllStatusStep
<1>3. AllInv /\ AllStatus => BoundIsComplete
  BY Zenon DEF AllInv, Inv, ObjectInv, AllStatus, StatusInv, BoundIsComplete
<1> QED
  BY <1>1, <1>2, <1>3, Invariant, PTL DEF Spec

(* syncPolicySpec: where the hash label of a Bound CVC was written for its *)
(* present spec the target's Deployment has the policy of this spec, in    *)
(* whatever way users change the policy and change it back and whatever    *)
(* the cache and the workers have missed, if the policy object is not      *)
(* edited while volumes are provisioned with it.                           *)
THEOREM Patched == ASSUME "edit" \notin FaultKinds PROVE Spec => []HashMeansPatched
<1>1. Init => AllHash
  BY StatusInit
<1>2. TypeOK /\ AllInv /\ AllHash /\ [Next]_vars => AllHash'
  BY AllHashStep
<1>3. AllHash => HashMeansPatched
  BY Zenon DEF AllHash, HashInv, Hashed, HashMeansPatched
<1> QED
  BY <1>1, <1>2, <1>3, Invariant, PTL DEF Spec
=============================================================================
