-------------------------- MODULE VolumeScaleProofs --------------------------
(***************************************************************************)
(* Proofs about VolumeScale: what the desired replication factor (DRF),    *)
(* the known replicas and the PDB of a volume have to do with its pool     *)
(* lists, and the members and quorums of the CV, istgt.conf and the target *)
(* with each other, whatever restarts and stale caches come between.       *)
(***************************************************************************)
EXTENDS VolumeScale, TLAPS

(* One edit after the other. *)
Settled == "settled" \in Discipline

Pending(c) == c.spec # c.status

SameLists(b, c) == b.spec = c.spec /\ b.status = c.status

(* The pool lists are such as the webhook lets pass. *)
Allowed(c) == ValidatePoolListChanges(c, c)

(***************************************************************************)
(* A copy of the CVC is at most one write of a worker behind: it has the   *)
(* lists of the CVC, or the status it asks for has been reported since.    *)
(***************************************************************************)
Since(b, c) == SameLists(b, c) \/ c.status = b.spec

CopyInv ==
  /\ Allowed(cvc) /\ Allowed(cvcCache)
  /\ Since(cvcCache, cvc)
  /\ opAt # "idle" =>
       /\ Allowed(opBase)
       /\ Since(opBase, cvc)
       /\ SameLists(opBase, cvc) => SameLists(cvcCache, cvc)

(***************************************************************************)
(* The DRF is that of the pools in the status; once a worker has changed   *)
(* it, which it does only on the latest lists, it is that of the spec.     *)
(***************************************************************************)
DRFInv ==
  \/ cv.drf = Cardinality(cvc.status)
  \/ /\ cv.drf = Cardinality(cvc.spec)
     /\ SameLists(cvcCache, cvc)
     /\ opAt # "idle" => SameLists(opBase, cvc)

(* The scaling of a worker on the latest lists has come as far as the CV. *)
Carried ==
  SameLists(opBase, cvc) =>
    cv.drf = Cardinality(opBase.spec) /\ cv.known = cv.seen

(***************************************************************************)
(* The worker reports its scaling as done, in its own object first, when   *)
(* the CV has the new DRF and no replica on its way out.                   *)
(***************************************************************************)
WorkInv ==
  /\ opAt # "idle" => opCVC.spec = opBase.spec
  /\ opAt \in {"up", "raise", "create", "check"} =>
       /\ Cardinality(opBase.spec) > Cardinality(opBase.status)
       /\ opCVC.status = opBase.status
  /\ opAt \in {"down", "getCVR", "lower", "deleteCVR"} =>
       /\ Cardinality(opBase.spec) < Cardinality(opBase.status)
       /\ opCVC.status = opBase.status
  /\ opAt = "raise" => opCV.drf < Cardinality(opBase.spec)
  /\ opAt \in {"getCVR", "lower"} =>
       /\ opCV.drf = cv.drf
       /\ opCV.known \subseteq opCV.seen
       /\ opCV.known = opCV.seen => cv.known = cv.seen
  /\ opAt \in {"lower", "deleteCVR"} => opPool \subseteq opBase.status \ opBase.spec
  /\ opAt \in {"create", "check", "deleteCVR"} => Carried
  /\ opAt \in {"deletePDB", "createPDB", "store"} =>
       opCVC.status = opBase.spec /\ Pending(opBase)
  /\ opAt # "idle" /\ opCVC.status # opBase.status =>
       opCVC.status = opBase.spec /\ Carried

ScaleInv == CopyInv /\ DRFInv /\ WorkInv /\ DepartureIsRequested

(***************************************************************************)
(* The label of a CVC is that of the pools in its status; the worker has   *)
(* made the PDB of the label it stores.                                    *)
(***************************************************************************)
Guard(c) == c.pdb = PDBFor(c.status)

GuardInv ==
  /\ Guard(cvc) /\ Guard(cvcCache)
  /\ opAt # "idle" => Guard(opBase)
  /\ ~Pending(cvc) => cvc.pdb \in pdbs \cup {{}}
  /\ opAt \notin {"idle", "store", "policy"} => opCVC.pdb = opBase.pdb
  /\ opAt = "store" => Guard(opCVC) /\ opCVC.pdb \in pdbs \cup {{}}
  /\ opAt = "policy" =>
       \/ opCVC.pdb = opBase.pdb /\ opCVC.status = opBase.status
       \/ cvc # opBase

-----------------------------------------------------------------------------
(* Members                                                                 *)

(***************************************************************************)
(* The tutorial is followed, and istgt never restarts alone: then istgt    *)
(* and istgt.conf come and go together.                                    *)
(***************************************************************************)
Orderly ==
  /\ {"settled", "one", "gone", "ready", "joined"} \subseteq Discipline
  /\ "target" \notin FaultKinds

Down == ~(cvc.status \subseteq cvc.spec)

Runs == tgt.drf # 0

ListInv ==
  /\ cvc.spec # {} /\ cvc.status # {}
  /\ Down => \E r \in cvc.status : cvc.spec = cvc.status \ {r}

(* What a copy of the CVC asks for has been done to the CVRs. *)
Done(c) ==
  /\ \A p \in c.spec \ c.status : cvr[p] = "live"
  /\ \A p \in c.status \ c.spec : cvr[p] # "live"

(***************************************************************************)
(* CVRs are on the pools of the lists, but for one that is deleted, whose  *)
(* replica has left the volume.                                            *)
(***************************************************************************)
PlaceInv ==
  /\ \A p \in Pool : cvr[p] = "live" => p \in cvc.spec \cup cvc.status
  /\ \A p \in Pool : cvr[p] = "deleting" =>
       /\ p \notin cvc.spec /\ cvc.spec \subseteq cvc.status
       /\ cv.known = cvc.spec /\ cv.seen = cvc.spec
       /\ Runs => tgt.known = cvc.spec
  /\ \A p \in up : cvr[p] # "none"

(***************************************************************************)
(* A worker on a list that is done with finds its CVRs created and         *)
(* deleted; on the latest it takes out a replica whose id it has found.    *)
(***************************************************************************)
LagInv ==
  /\ ~SameLists(cvcCache, cvc) => Done(cvcCache)
  /\ opAt # "idle" /\ (~SameLists(opBase, cvc) \/ opCVC.status # opBase.status) => Done(opBase)
  /\ opAt = "lower" /\ SameLists(opBase, cvc) /\ cv.drf > Cardinality(cvc.spec) =>
       "id" \in opFound /\ opPool = cvc.status \ cvc.spec
  /\ opAt \in {"lower", "deleteCVR"} => opPool # {}

(* Each consistency factor is that of its replication factor; the volume   *)
(* manager shrinks the volume on the latest CV.                            *)
StepInv ==
  /\ cv.drf # 0 /\ cv.cf = Quorum(cv.rf)
  /\ Runs => conf.drf # 0 /\ conf.cf = Quorum(conf.rf)
  /\ ~Runs => /\ conf = NoConf /\ tgt = StartedFrom(NoConf)
              /\ vmAt \in {"down", "write", "idle"} /\ rpcAt = "idle"
  /\ vmAt \notin {"down", "idle"} => vmCV.drf # 0 /\ vmCV.cf = Quorum(vmCV.rf)
  /\ vmAt \in {"health", "shrinkConf", "factors", "shrink", "seen"} =>
       Down /\ vmCV = cv /\ cv.known # cv.seen
  /\ vmAt = "factors" => conf.known \subseteq cvc.spec /\ conf.rf >= Cardinality(cvc.spec)
  /\ vmAt \in {"shrink", "seen"} => cv.rf <= cv.drf
  /\ vmAt = "seen" => tgt.known = cvc.spec /\ tgt.rf <= cv.rf

(* At most one of the pools has yet to join beyond the replication factor. *)
Reach(known, rf) ==
  /\ Cardinality(cvc.spec) <= rf + 1
  /\ rf < Cardinality(cvc.spec) => \E q \in cvc.spec : cvc.spec \ {q} \subseteq known

(* Unless a replica leaves, istgt and istgt.conf know what the CV knows. *)
UpInv ==
  ~Down =>
    /\ cv.known \subseteq cvc.spec /\ Cardinality(cv.known) <= cv.rf
    /\ conf.known \subseteq cv.known
    /\ Runs => /\ tgt.known \subseteq cv.known /\ Cardinality(tgt.known) <= tgt.rf
               /\ tgt.rf <= cv.rf /\ tgt.drf <= Cardinality(cvc.spec)
               /\ Reach(tgt.known, tgt.rf)
    /\ ~Runs => Reach(cv.known, cv.rf)
    /\ vmAt = "write" => vmCV.known \subseteq cv.known
    /\ vmAt = "write" /\ ~Runs =>
         vmCV.known = cv.known /\ vmCV.rf = cv.rf /\ vmCV.drf <= Cardinality(cvc.spec)
    /\ vmAt \in {"grow", "growConf"} => vmCV.drf <= Cardinality(cvc.spec)

(* A replica leaves the CV, then istgt.conf, then istgt, each with its     *)
(* factors; until it has left, every replica is admitted.                  *)
DownInv ==
  Down =>
    /\ rpcAt = "idle"
    /\ \/ /\ cv.known = cvc.status /\ cv.seen = cvc.status /\ cv.drf = Cardinality(cvc.status)
          /\ cv.rf >= Cardinality(cvc.status) /\ cvc.status \subseteq hasID
       \/ /\ cv.known = cvc.spec /\ cv.seen \in {cvc.spec, cvc.status} /\ cv.drf = Cardinality(cvc.spec)
          /\ cv.rf >= Cardinality(cvc.spec)
    /\ cv.seen = cvc.spec => cv.rf < Cardinality(cvc.status)
    /\ conf.known \subseteq cvc.status
    /\ vmAt = "write" => vmCV.known \subseteq cvc.status
    /\ cv.rf < Cardinality(cvc.status) =>
         /\ conf.known \subseteq cvc.spec
         /\ Runs => conf.rf >= Cardinality(cvc.spec)
         /\ vmAt = "write" => vmCV.known \subseteq cvc.spec /\ vmCV.rf >= Cardinality(cvc.spec)
    /\ Runs =>
         /\ tgt.known \in {cvc.spec, cvc.status}
         /\ tgt.known = cvc.spec => cv.known = cvc.spec
         /\ tgt.drf <= Cardinality(tgt.known) /\ Cardinality(tgt.known) <= tgt.rf
         /\ cv.seen = cvc.spec => tgt.known = cvc.spec /\ tgt.rf <= cv.rf
    /\ vmAt = "write" /\ ~Runs =>
         /\ vmCV.known \in {cvc.spec, cvc.status}
         /\ vmCV.known = cvc.spec => cv.known = cvc.spec
         /\ vmCV.drf <= Cardinality(vmCV.known) /\ Cardinality(vmCV.known) <= vmCV.rf
         /\ cv.seen = cvc.spec => vmCV.known = cvc.spec /\ vmCV.rf = cv.rf
    /\ vmAt \in {"grow", "growConf"} => vmCV.drf <= Cardinality(tgt.known)

(* A replica is admitted that no list is about to lose. *)
JoinInv ==
  rpcAt # "idle" =>
    /\ ~Down
    /\ \E p \in cvc.spec \ tgt.known : rpcReq.id = {p} /\ cvr[p] = "live"
    /\ rpcReq.cf = Quorum(rpcReq.rf)
    /\ rpcReq.rf >= Cardinality(cvc.spec) /\ rpcReq.rf >= tgt.rf
    /\ vmAt = "write" => Cardinality(cvc.spec) <= vmCV.rf + 1
    /\ rpcAt = "conf" => cv.rf = rpcReq.rf /\ rpcReq.id \subseteq cv.known

(* With these factors the quorums of two sets of members meet. *)
Covers(f, g, members) == 2 * Cardinality(members) <= f + g + 1

(* istgt.conf, or the one that is about to be written, against istgt *)
MeetInv ==
  Runs =>
    /\ Covers(conf.rf, tgt.rf, conf.known \cup tgt.known)
    /\ vmAt = "write" =>
         /\ Covers(vmCV.rf, tgt.rf, vmCV.known \cup tgt.known)
         /\ Cardinality(cvc.spec) <= vmCV.rf + 1 \/ tgt.drf <= Cardinality(tgt.known)

(* No replica is listed as a member that is not there. *)
AllLive ==
  \A p \in cv.known \cup cv.seen \cup tgt.known \cup conf.known : cvr[p] = "live"

MemberInv ==
  ListInv /\ PlaceInv /\ LagInv /\ StepInv /\ UpInv /\ DownInv /\ JoinInv /\ MeetInv /\ AllLive

-----------------------------------------------------------------------------
(* Counting pools                                                          *)

(***************************************************************************)
(* What the proofs use of the number of pools.  Counts derives it, at the  *)
(* end, from the library's theorems about finite sets; that many theorems  *)
(* in the context of every proof would slow each of them down.             *)
(***************************************************************************)
Counting ==
  /\ \A S \in SUBSET Pool : Cardinality(S) \in Nat /\ (Cardinality(S) = 0 <=> S = {})
  /\ \A B \in SUBSET Pool : \A A \in SUBSET B :
       Cardinality(A) <= Cardinality(B) /\ (Cardinality(A) = Cardinality(B) => A = B)
  /\ \A S \in SUBSET Pool : \A r \in S : Cardinality(S \ {r}) = Cardinality(S) - 1

LEMMA Counted ==
  ASSUME Counting, NEW S \in SUBSET Pool
  PROVE  Cardinality(S) \in Nat /\ Cardinality(S) \in Factor /\ (Cardinality(S) = 0 <=> S = {})
<1>1. Pool \in SUBSET Pool
  BY Zenon
<1>2. /\ Cardinality(S) \in Nat /\ Cardinality(Pool) \in Nat /\ Cardinality(S) <= Cardinality(Pool)
      /\ Cardinality(S) = 0 <=> S = {}
  BY <1>1, Zenon DEF Counting
<1> QED
  BY <1>2 DEF Factor

(* Pools among others that are no more than these are all of them. *)
LEMMA NoneMissing ==
  ASSUME Counting, NEW B \in SUBSET Pool, NEW A \in SUBSET B, ~(Cardinality(B) > Cardinality(A))
  PROVE  A = B
<1>1. Cardinality(B) \in Nat /\ Cardinality(A) \in Nat
  BY Counted
<1>2. Cardinality(A) <= Cardinality(B) /\ (Cardinality(A) = Cardinality(B) => A = B)
  BY Zenon DEF Counting
<1>3. Cardinality(A) = Cardinality(B)
  BY <1>1, <1>2
<1> QED
  BY <1>2, <1>3, Zenon

(* The consistency factor is within its range. *)
LEMMA QuorumType ==
  ASSUME Counting, NEW n \in Factor
  PROVE  Quorum(n) \in 0 .. Cardinality(Pool) + 1
<1>1. Cardinality(Pool) \in Nat
  BY Counted
<1> QED
  BY <1>1 DEF Factor, Quorum

(* The label of a PDB is a list of pools. *)
LEMMA PDBType ==
  ASSUME NEW S \in SUBSET Pool
  PROVE  PDBFor(S) \in SUBSET Pool /\ (PDBFor(S) # {} => PDBFor(S) = S)
BY DEF PDBFor

(* What the idle hold. *)
LEMMA IdleType ==
  ASSUME Counting
  PROVE  /\ 0 \in Factor /\ 0 \in 0 .. Cardinality(Pool) + 1
         /\ NoCVC \in CVC /\ NoCV \in CV /\ NoRequest \in Request /\ NoConf \in Conf
         /\ StartedFrom(NoConf) \in Target
<1>1. Cardinality(Pool) \in Nat
  BY Counted
<1>2. 0 \in Factor /\ 0 \in 0 .. Cardinality(Pool) + 1
  BY <1>1 DEF Factor
<1>3. NoCVC \in CVC /\ NoCV \in CV /\ NoRequest \in Request /\ NoConf \in Conf
  BY <1>2 DEF NoCVC, NoCV, NoRequest, NoConf, CVC, CV, Request, Conf
<1>4. StartedFrom(NoConf) \in Target
  BY <1>2 DEF StartedFrom, NoConf, Target
<1> QED
  BY <1>2, <1>3, <1>4, Zenon

(* A fault that happens is counted. *)
LEMMA FaultType ==
  ASSUME faults \in 0 .. MaxFaults, UNCHANGED faults \/ \E kind \in FaultKinds : Fault(kind)
  PROVE  faults' \in 0 .. MaxFaults
BY ScaleAssumption DEF Fault

-----------------------------------------------------------------------------
(* Type correctness                                                        *)

LEMMA InitType == ASSUME Counting, Init PROVE TypeOK
<1>1. PICK pools \in Placements :
        /\ cvc = [spec |-> pools, status |-> pools, hash |-> pools, pdb |-> PDBFor(pools)]
        /\ cv = [drf |-> Cardinality(pools), rf |-> Cardinality(pools),
                 cf |-> Quorum(Cardinality(pools)), known |-> {}, seen |-> {}]
        /\ cvr = [p \in Pool |-> IF p \in pools THEN "live" ELSE "none"]
        /\ pdbs = {PDBFor(pools)} \ {{}}
  BY Zenon DEF Init
<1>2. pools \in SUBSET Pool /\ PDBFor(pools) \in SUBSET Pool
  BY PDBType, ScaleAssumption
<1>3. Cardinality(pools) \in Factor /\ Quorum(Cardinality(pools)) \in 0 .. Cardinality(Pool) + 1
  BY <1>2, Counted, QuorumType, Zenon
<1>4. cvc \in CVC /\ cv \in CV
  BY <1>1, <1>2, <1>3 DEF CVC, CV
<1>5. cvr \in [Pool -> {"none", "live", "deleting"}] /\ pdbs \subseteq SUBSET Pool
  BY <1>1, <1>2
<1>6. 0 \in 0 .. MaxEdits /\ 0 \in 0 .. MaxFaults
  BY ScaleAssumption
<1>7. "idle" \in OpSteps /\ "down" \in VMSteps
  BY DEF OpSteps, VMSteps
<1> QED
  BY <1>4, <1>5, <1>6, <1>7, IdleType, Zenon DEF Init, TypeOK

(* What a worker leaves alone keeps its type. *)
LEMMA OpTyped ==
  ASSUME TypeOK, UNCHANGED outsideOp, cvc' \in CVC, cv' \in CV,
         cvr' \in [Pool -> {"none", "live", "deleting"}], hasID' \subseteq Pool, pdbs' \subseteq SUBSET Pool,
         opAt' \in OpSteps, opBase' \in CVC, opCVC' \in CVC, opCV' \in CV, opPool' \subseteq Pool,
         opFound' \subseteq {"object", "id"}, faults' \in 0 .. MaxFaults
  PROVE  TypeOK'
BY Zenon DEF TypeOK, outsideOp, vmVars, rpcVars

LEMMA ReleaseType ==
  ASSUME Counting, Release
  PROVE  /\ opAt' \in OpSteps /\ opBase' \in CVC /\ opCVC' \in CVC /\ opCV' \in CV /\ opPool' \subseteq Pool
         /\ opFound' \subseteq {"object", "id"}
<1>1. "idle" \in OpSteps
  BY DEF OpSteps
<1> QED
  BY <1>1, IdleType, Zenon DEF Release

(* What the others leave alone keeps its type. *)
LEMMA TargetTyped ==
  ASSUME TypeOK, UNCHANGED <<cvc, cvcCache, cvr, hasID, pdbs, opAt, opBase, opCVC, opCV, opPool, opFound, edits>>,
         cv' \in CV, vmAt' \in VMSteps, vmCV' \in CV, rpcAt' \in {"idle", "update", "conf"}, rpcReq' \in Request,
         rpcCV' \in CV, late' \subseteq Goroutine, conf' \in Conf, tgt' \in Target, up' \subseteq Pool,
         faults' \in 0 .. MaxFaults
  PROVE  TypeOK'
BY Zenon DEF TypeOK

(* A step of the volume manager counts at most one fault. *)
LEMMA FaultsCounted ==
  ASSUME TypeOK, CallFails \/ OperatorRestart \/ VolumeManager \/ (\E p \in Pool : TargetServer(p) \/ ReplicaDown(p))
                 \/ Late \/ VolumeMgmtRestart \/ TargetRestart \/ PodRestart
  PROVE  faults' \in 0 .. MaxFaults
<1>1. UNCHANGED faults \/ \E kind \in FaultKinds : Fault(kind)
  <2>1. CASE CallFails \/ OperatorRestart
    BY <2>1, Zenon DEF CallFails, OperatorRestart, Fault
  <2>2. CASE UpdateCStorVolumeDRF \/ GrowTarget \/ GrowConf \/ CheckHealth
    BY <2>2, Zenon DEF UpdateCStorVolumeDRF, GrowTarget, GrowConf, CheckHealth, Fault
  <2>3. CASE ShrinkConf \/ StoreFactors \/ ShrinkTarget \/ StoreSeen
    BY <2>3, Zenon DEF ShrinkConf, StoreFactors, ShrinkTarget, StoreSeen, Fault
  <2>4. CASE HandleAdd \/ CreateVolumeTarget
    BY <2>4, Zenon DEF HandleAdd, CreateVolumeTarget, Fault
  <2>5. CASE \E p \in Pool : TargetServer(p) \/ ReplicaDown(p)
    BY <2>5, Zenon DEF TargetServer, ServeRequest, UpdateCVWithReplicationDetails, UpdateConfig, ReplicaDown, Fault
  <2>6. CASE VolumeMgmtRestart \/ TargetRestart \/ PodRestart
    BY <2>6, Zenon DEF VolumeMgmtRestart, TargetRestart, PodRestart, Fault
  <2>7. CASE Late
    BY <2>7, Zenon DEF Late, LateUpdate, LateConfig, Fault
  <2> QED
    BY <2>1, <2>2, <2>3, <2>4, <2>5, <2>6, <2>7, Zenon DEF VolumeManager
<1>2. faults \in 0 .. MaxFaults
  BY Zenon DEF TypeOK
<1> QED
  BY <1>1, <1>2, FaultType, Zenon

LEMMA TypeStep == ASSUME Counting, TypeOK, [Next]_vars PROVE TypeOK'
<1>worker. CASE Worker
  <2> USE <1>worker
  <2>t. /\ cvc \in CVC /\ cvcCache \in CVC /\ cv \in CV
        /\ cvr \in [Pool -> {"none", "live", "deleting"}] /\ hasID \subseteq Pool /\ pdbs \subseteq SUBSET Pool
        /\ opAt \in OpSteps /\ opBase \in CVC /\ opCVC \in CVC /\ opCV \in CV /\ opPool \subseteq Pool
        /\ opFound \subseteq {"object", "id"} /\ faults \in 0 .. MaxFaults
    BY Zenon DEF TypeOK
  <2>c. /\ opCVC.spec \in SUBSET Pool /\ opCVC.status \in SUBSET Pool
        /\ Cardinality(opCVC.spec) \in Factor
    BY <2>t, Counted DEF CVC
  <2>s. OpSteps = {"idle", "up", "raise", "create", "check", "down", "getCVR", "lower",
                   "deleteCVR", "deletePDB", "createPDB", "store", "policy"}
    BY DEF OpSteps
  <2>1. CASE SyncCVC
    <3>1. opAt' \in OpSteps
      BY <2>1, <2>s DEF SyncCVC
    <3> QED
      BY <2>1, <2>t, <3>1, OpTyped, Zenon DEF SyncCVC, cvrVars
  <2>2. CASE ScaleUpVolumeReplicas
    <3>1. opAt' \in OpSteps
      BY <2>2, <2>s DEF ScaleUpVolumeReplicas
    <3> QED
      BY <2>2, <2>t, <3>1, OpTyped, Zenon DEF ScaleUpVolumeReplicas, cvrVars
  <2>3. CASE RaiseDRF
    <3>1. opAt' \in OpSteps
      BY <2>3, <2>s, Zenon DEF RaiseDRF
    <3>2. cv' \in CV
      BY <2>3, <2>t, <2>c DEF RaiseDRF, CV
    <3> QED
      BY <2>3, <2>t, <3>1, <3>2, IdleType, OpTyped, Zenon DEF RaiseDRF, cvrVars
  <2>4. CASE HandleVolumeReplicaCreation
    <3> DEFINE missing == {p \in opCVC.spec \ opCVC.status : cvr[p] = "none"}
    <3>1. PICK made \in SUBSET missing :
            /\ IF made = missing THEN opAt' = "check" /\ UNCHANGED faults ELSE opAt' = "policy" /\ Fault("call")
            /\ cvr' = [p \in Pool |-> IF p \in made THEN "live" ELSE cvr[p]]
            /\ hasID' = hasID \cup made
      BY <2>4, Zenon DEF HandleVolumeReplicaCreation
    <3>2. opAt' \in OpSteps /\ faults' \in 0 .. MaxFaults
      <4>1. opAt' \in OpSteps /\ (UNCHANGED faults \/ \E kind \in FaultKinds : Fault(kind))
        BY <2>s, <3>1, Zenon DEF Fault
      <4> QED
        BY <2>t, <4>1, FaultType, Zenon
    <3>3. cvr' \in [Pool -> {"none", "live", "deleting"}] /\ hasID' \subseteq Pool
      BY <2>c, <2>t, <3>1
    <3> QED
      BY <2>4, <2>t, <3>2, <3>3, IdleType, OpTyped, Zenon DEF HandleVolumeReplicaCreation
  <2>5. CASE UpdateCVCWithScaledUpInfo
    <3>1. opAt' \in OpSteps
      BY <2>5, <2>s, Zenon DEF UpdateCVCWithScaledUpInfo
    <3>2. opCVC' \in CVC
      BY <2>5, <2>t DEF UpdateCVCWithScaledUpInfo, CVC
    <3> QED
      BY <2>5, <2>t, <3>1, <3>2, OpTyped, Zenon DEF UpdateCVCWithScaledUpInfo, cvrVars
  <2>6. CASE ScaleDownVolumeReplicas
    BY <2>6, <2>t, <2>s, OpTyped, Zenon DEF ScaleDownVolumeReplicas, cvrVars
  <2>7. CASE GetScaleDownCVR
    <3>1. PICK p \in opCVC.status \ opCVC.spec :
            /\ opPool' = {p}
            /\ opFound' \in {{}, {"object", "id"}, {"object"}}
      BY <2>7, Zenon DEF GetScaleDownCVR
    <3>2. opPool' \subseteq Pool /\ opFound' \subseteq {"object", "id"}
      BY <2>c, <3>1
    <3> QED
      BY <2>7, <2>t, <2>s, <3>2, OpTyped, Zenon DEF GetScaleDownCVR, cvrVars
  <2>8. CASE LowerDRF
    <3>1. opAt' \in {"policy", "deleteCVR"}
      BY <2>8, Zenon DEF LowerDRF, AfterLower
    <3>2. cv' \in CV
      <4> DEFINE gone == IF "id" \in opFound THEN opPool ELSE {}
      <4>1. UNCHANGED cv \/ cv' = [cv EXCEPT !.drf = Cardinality(opCVC.spec), !.known = @ \ gone]
        BY <2>8, Zenon DEF LowerDRF
      <4> HIDE DEF gone
      <4>2. [cv EXCEPT !.drf = Cardinality(opCVC.spec), !.known = @ \ gone] \in CV
        BY <2>c, <2>t, Zenon DEF CV
      <4> QED
        BY <2>t, <4>1, <4>2, Zenon
    <3> QED
      BY <2>8, <2>t, <2>s, <3>1, <3>2, IdleType, OpTyped, Zenon DEF LowerDRF, cvrVars
  <2>9. CASE DeleteCVR
    <3>1. opAt' \in OpSteps
      BY <2>9, <2>s, Zenon DEF DeleteCVR
    <3>2. cvr' \in [Pool -> {"none", "live", "deleting"}]
      BY <2>9, <2>t DEF DeleteCVR
    <3>3. opCVC' \in CVC
      BY <2>9, <2>t DEF DeleteCVR, CVC
    <3> QED
      BY <2>9, <2>t, <3>1, <3>2, <3>3, OpTyped, Zenon DEF DeleteCVR
  <2>10. CASE DeletePDBIfNotInUse
    <3>1. pdbs' \subseteq SUBSET Pool
      BY <2>10, <2>t, Zenon DEF DeletePDBIfNotInUse
    <3> QED
      BY <2>10, <2>t, <2>s, <3>1, OpTyped, Zenon DEF DeletePDBIfNotInUse, cvrVars
  <2>11. CASE GetOrCreatePodDisruptionBudget
    <3>1. PDBFor(opCVC.status) \in SUBSET Pool
      BY <2>c, PDBType, Zenon
    <3>2. pdbs' \subseteq SUBSET Pool
      BY <2>11, <2>t, <3>1, Zenon DEF GetOrCreatePodDisruptionBudget
    <3>3. opCVC' \in CVC
      BY <2>11, <2>t, <3>1 DEF GetOrCreatePodDisruptionBudget, CVC
    <3> QED
      BY <2>11, <2>t, <2>s, <3>2, <3>3, OpTyped, Zenon DEF GetOrCreatePodDisruptionBudget, cvrVars
  <2>12. CASE UpdatePDBForScaledVolume
    BY <2>12, <2>t, <2>s, OpTyped, Zenon DEF UpdatePDBForScaledVolume, cvrVars
  <2>13. CASE SyncPolicySpec
    <3>1. [opCVC EXCEPT !.hash = opCVC.spec] \in CVC
      BY <2>t DEF CVC
    <3>2. cvc' \in CVC
      BY <2>13, <2>t, <3>1, Zenon DEF SyncPolicySpec
    <3>3. Release
      BY <2>13, Zenon DEF SyncPolicySpec
    <3> QED
      BY <2>13, <2>t, <3>2, <3>3, ReleaseType, OpTyped, Zenon DEF SyncPolicySpec, cvrVars
  <2> QED
    BY <2>1, <2>2, <2>3, <2>4, <2>5, <2>6, <2>7, <2>8, <2>9, <2>10, <2>11, <2>12, <2>13, Zenon
    DEF Worker, ScaleUp, ScaleDown
<1>manager. CASE VolumeManager
  <2> USE <1>manager
  <2>t. /\ cv \in CV /\ vmAt \in VMSteps /\ vmCV \in CV /\ rpcAt \in {"idle", "update", "conf"} /\ rpcReq \in Request
        /\ rpcCV \in CV /\ late \subseteq Goroutine /\ conf \in Conf /\ tgt \in Target /\ up \subseteq Pool
    BY Zenon DEF TypeOK
  <2>c. /\ vmCV.drf \in Factor /\ vmCV.rf \in Factor /\ vmCV.cf \in 0 .. Cardinality(Pool) + 1 /\ vmCV.known \in SUBSET Pool
        /\ cv.drf \in Factor /\ tgt.rf \in Factor /\ tgt.known \in SUBSET Pool /\ conf.known \in SUBSET Pool
    BY <2>t DEF CV, Target, Conf
  <2>q. Quorum(vmCV.drf) \in 0 .. Cardinality(Pool) + 1 /\ Quorum(cv.drf) \in 0 .. Cardinality(Pool) + 1
    BY <2>c, QuorumType, Zenon
  <2>s. VMSteps = {"down", "write", "idle", "grow", "growConf", "health", "shrinkConf", "factors", "shrink", "seen"}
    BY DEF VMSteps
  <2>f. faults' \in 0 .. MaxFaults
    BY FaultsCounted
  <2>d. VMDone => vmAt' \in VMSteps /\ vmCV' \in CV
    BY <2>s, IdleType, Zenon DEF VMDone
  <2>o. ASSUME UNCHANGED outsideVM, cv' \in CV, vmAt' \in VMSteps, vmCV' \in CV, conf' \in Conf, tgt' \in Target
        PROVE  TypeOK'
    BY <2>t, <2>f, <2>o, TargetTyped, Zenon DEF outsideVM, cvrVars, opVars, rpcVars
  <2>1. CASE UpdateCStorVolumeDRF \/ HandleAdd
    BY <2>1, <2>t, <2>s, <2>o, Zenon DEF UpdateCStorVolumeDRF, HandleAdd
  <2>2. CASE GrowTarget
    <3>1. [tgt EXCEPT !.drf = vmCV.drf] \in Target
      BY <2>c, <2>t DEF Target
    <3> QED
      BY <2>2, <2>t, <2>s, <2>d, <2>o, <3>1, Zenon DEF GrowTarget
  <2>3. CASE GrowConf
    <3>1. [conf EXCEPT !.drf = vmCV.drf] \in Conf
      BY <2>c, <2>t DEF Conf
    <3> QED
      BY <2>3, <2>t, <2>d, <2>o, <3>1, Zenon DEF GrowConf
  <2>4. CASE CheckHealth
    BY <2>4, <2>t, <2>s, <2>d, <2>o, Zenon DEF CheckHealth
  <2>5. CASE ShrinkConf
    <3>1. ASSUME NEW p
          PROVE  [drf |-> vmCV.drf, rf |-> vmCV.drf, cf |-> Quorum(vmCV.drf), known |-> conf.known \ {p}] \in Conf
      BY <2>c, <2>q DEF Conf
    <3> QED
      BY <2>5, <2>t, <2>s, <2>d, <2>o, <3>1, Zenon DEF ShrinkConf
  <2>6. CASE StoreFactors
    <3>1. WithFactors(cv) \in CV
      BY <2>c, <2>q, <2>t, Zenon DEF WithFactors, CV
    <3> QED
      BY <2>6, <2>t, <2>s, <2>d, <2>o, <3>1, Zenon DEF StoreFactors
  <2>7. CASE ShrinkTarget
    <3>1. [drf |-> vmCV.drf, rf |-> IF tgt.rf > vmCV.drf THEN vmCV.drf ELSE tgt.rf,
           known |-> tgt.known \cap vmCV.known] \in Target
      BY <2>c DEF Target
    <3> QED
      BY <2>7, <2>t, <2>s, <2>d, <2>o, <3>1, Zenon DEF ShrinkTarget
  <2>8. CASE StoreSeen
    <3>1. [cv EXCEPT !.seen = cv.known] \in CV
      BY <2>t DEF CV
    <3> QED
      BY <2>8, <2>t, <2>d, <2>o, <3>1, Zenon DEF StoreSeen
  <2>9. CASE CreateVolumeTarget
    <3>1. ConfOf(vmCV) \in Conf
      BY <2>c DEF ConfOf, Conf
    <3>2. conf' \in Conf
      BY <2>9, <2>t, <3>1, Zenon DEF CreateVolumeTarget
    <3>3. StartedFrom(conf') \in Target
      BY <3>2 DEF StartedFrom, Conf, Target
    <3> QED
      BY <2>9, <2>t, <2>d, <2>o, <3>2, <3>3, Zenon DEF CreateVolumeTarget
  <2> QED
    BY <2>1, <2>2, <2>3, <2>4, <2>5, <2>6, <2>7, <2>8, <2>9, Zenon DEF VolumeManager
<1>server. ASSUME NEW p \in Pool, TargetServer(p)
           PROVE  TypeOK'
  <2> USE <1>server
  <2>t. /\ cv \in CV /\ vmAt \in VMSteps /\ vmCV \in CV /\ rpcAt \in {"idle", "update", "conf"} /\ rpcReq \in Request
        /\ rpcCV \in CV /\ late \subseteq Goroutine /\ conf \in Conf /\ tgt \in Target /\ up \subseteq Pool
    BY Zenon DEF TypeOK
  <2>c. /\ rpcReq.rf \in Factor /\ rpcReq.cf \in 0 .. Cardinality(Pool) + 1 /\ rpcReq.id \in SUBSET Pool
        /\ tgt.rf \in Factor /\ tgt.known \in SUBSET Pool
    BY <2>t DEF Request, Target
  <2>f. faults' \in 0 .. MaxFaults
    BY FaultsCounted, Zenon
  <2>d. RPCDone => rpcAt' \in {"idle", "update", "conf"} /\ rpcReq' \in Request /\ rpcCV' \in CV
    BY IdleType, Zenon DEF RPCDone
  <2>o. ASSUME UNCHANGED outsideRPC, cv' \in CV, rpcAt' \in {"idle", "update", "conf"}, rpcReq' \in Request,
               rpcCV' \in CV, conf' \in Conf, tgt' \in Target
        PROVE  TypeOK'
    BY <2>t, <2>f, <2>o, TargetTyped, Zenon DEF outsideRPC, cvrVars, opVars, vmVars
  <2>1. CASE ServeRequest(p)
    <3>1. Cardinality(tgt.known \cup {p}) \in Factor
      BY <2>c, Counted
    <3> DEFINE rf == IF Cardinality(tgt.known \cup {p}) > tgt.rf THEN Cardinality(tgt.known \cup {p}) ELSE tgt.rf
    <3>2. rf \in Factor /\ Quorum(rf) \in 0 .. Cardinality(Pool) + 1
      BY <2>c, <3>1, QuorumType, Zenon
    <3>3. RequestFor(p) = [id |-> {p}, rf |-> rf, cf |-> Quorum(rf)]
      BY Zenon DEF RequestFor
    <3> HIDE DEF rf
    <3>4. RequestFor(p) \in Request
      BY <3>2, <3>3 DEF Request
    <3> QED
      BY <2>1, <2>t, <2>o, <3>4, Zenon DEF ServeRequest
  <2>2. CASE UpdateCVWithReplicationDetails
    <3>1. [cv EXCEPT !.rf = rpcReq.rf, !.cf = rpcReq.cf,
                     !.known = @ \cup rpcReq.id, !.seen = @ \cup rpcReq.id] \in CV
      BY <2>c, <2>t, Zenon DEF CV
    <3> QED
      BY <2>2, <2>t, <2>d, <2>o, <3>1, Zenon DEF UpdateCVWithReplicationDetails
  <2>3. CASE UpdateConfig
    <3>1. [conf EXCEPT !.rf = rpcReq.rf, !.cf = rpcReq.cf, !.known = @ \cup rpcReq.id] \in Conf
      BY <2>c, <2>t, Zenon DEF Conf
    <3>2. [tgt EXCEPT !.rf = rpcReq.rf, !.known = @ \cup rpcReq.id] \in Target
      BY <2>c, <2>t, Zenon DEF Target
    <3> QED
      BY <2>3, <2>t, <2>d, <2>o, <3>1, <3>2, Zenon DEF UpdateConfig
  <2> QED
    BY <2>1, <2>2, <2>3, Zenon DEF TargetServer
<1>late. CASE Late
  <2> USE <1>late
  <2>t. /\ cv \in CV /\ vmAt \in VMSteps /\ vmCV \in CV /\ rpcAt \in {"idle", "update", "conf"} /\ rpcReq \in Request
        /\ rpcCV \in CV /\ late \subseteq Goroutine /\ conf \in Conf /\ tgt \in Target /\ up \subseteq Pool
    BY Zenon DEF TypeOK
  <2>f. faults' \in 0 .. MaxFaults
    BY FaultsCounted, Zenon
  <2>g. PICK g \in late : LateUpdate(g) \/ LateConfig(g)
    BY Zenon DEF Late
  <2>c. g \in Goroutine /\ g.req.rf \in Factor /\ g.req.cf \in 0 .. Cardinality(Pool) + 1 /\ g.req.id \in SUBSET Pool
    BY <2>t, <2>g, Zenon DEF Goroutine, Request
  <2>1. UNCHANGED outsideLate
    BY <2>g, Zenon DEF LateUpdate, LateConfig
  <2>2. late' \subseteq Goroutine
    <3>1. Comes(g, "conf") \/ Comes(g, "done")
      BY <2>g, Zenon DEF LateUpdate, LateConfig
    <3>2. [g EXCEPT !.at = "conf"] \in Goroutine /\ [g EXCEPT !.at = "done"] \in Goroutine
      BY <2>c, Zenon DEF Goroutine
    <3> QED
      BY <2>t, <3>1, <3>2, Zenon DEF Comes
  <2>3. cv' \in CV
    <3>1. [cv EXCEPT !.rf = g.req.rf, !.cf = g.req.cf,
                     !.known = @ \cup g.req.id, !.seen = @ \cup g.req.id] \in CV
      BY <2>c, <2>t, Zenon DEF CV
    <3> QED
      BY <2>g, <2>t, <3>1, Zenon DEF LateUpdate, LateConfig
  <2>4. conf' \in Conf
    <3>1. [conf EXCEPT !.rf = g.req.rf, !.cf = g.req.cf, !.known = @ \cup g.req.id] \in Conf
      BY <2>c, <2>t, Zenon DEF Conf
    <3> QED
      BY <2>g, <2>t, <3>1, Zenon DEF LateUpdate, LateConfig
  <2> QED
    BY <2>t, <2>f, <2>1, <2>2, <2>3, <2>4, TargetTyped, Zenon DEF outsideLate, cvrVars, opVars, vmVars
<1>replica. ASSUME NEW p \in Pool, Replica(p) \/ ReplicaDown(p)
            PROVE  TypeOK'
  <2> USE <1>replica
  <2>t. cvr \in [Pool -> {"none", "live", "deleting"}] /\ hasID \subseteq Pool /\ up \subseteq Pool
    BY Zenon DEF TypeOK
  <2>1. faults' \in 0 .. MaxFaults
    <3>1. CASE Replica(p)
      BY <3>1, Zenon DEF TypeOK, Replica, PersistReplicaID, ReplicaUp, DestroyReplica
    <3>2. CASE ReplicaDown(p)
      BY <3>2, FaultsCounted, Zenon
    <3> QED
      BY <3>1, <3>2, Zenon
  <2>2. UNCHANGED outsidePool
    BY Zenon DEF Replica, PersistReplicaID, ReplicaUp, DestroyReplica, ReplicaDown
  <2>3. cvr' \in [Pool -> {"none", "live", "deleting"}]
    <3>1. UNCHANGED cvr \/ cvr' = [cvr EXCEPT ![p] = "none"]
      BY Zenon DEF Replica, PersistReplicaID, ReplicaUp, DestroyReplica, ReplicaDown, cvrVars
    <3> QED
      BY <2>t, <3>1
  <2>4. hasID' \subseteq Pool /\ up' \subseteq Pool
    <3>1. hasID' \subseteq hasID \cup {p} /\ up' \subseteq up \cup {p}
      BY Zenon DEF Replica, PersistReplicaID, ReplicaUp, DestroyReplica, ReplicaDown, cvrVars
    <3> QED
      BY <2>t, <3>1, Zenon
  <2> QED
    BY <2>1, <2>2, <2>3, <2>4, Zenon DEF TypeOK, outsidePool, opVars, vmVars, rpcVars
<1>restart. CASE VolumeMgmtRestart \/ TargetRestart \/ PodRestart
  <2> USE <1>restart
  <2>t. /\ cv \in CV /\ vmAt \in VMSteps /\ vmCV \in CV /\ rpcAt \in {"idle", "update", "conf"} /\ rpcReq \in Request
        /\ rpcCV \in CV /\ late \subseteq Goroutine /\ conf \in Conf /\ tgt \in Target /\ up \subseteq Pool
    BY Zenon DEF TypeOK
  <2>1. faults' \in 0 .. MaxFaults
    BY FaultsCounted, Zenon
  <2>2. "down" \in VMSteps
    BY DEF VMSteps
  <2>3. StartedFrom(conf) \in Target
    BY <2>t DEF StartedFrom, Conf, Target
  <2>4. ServerStops => late' \subseteq Goroutine
    <3>1. \A g \in late : [g EXCEPT !.at = "done"] \in Goroutine
      BY <2>t, Zenon DEF Goroutine
    <3> QED
      BY <3>1, Zenon DEF ServerStops
  <2>5. RPCDone => rpcAt' \in {"idle", "update", "conf"} /\ rpcReq' \in Request /\ rpcCV' \in CV
    BY IdleType, Zenon DEF RPCDone
  <2>6. CASE VolumeMgmtRestart
    BY <2>6, <2>t, <2>1, <2>2, <2>4, <2>5, IdleType, TargetTyped, Zenon
    DEF VolumeMgmtRestart, ServerStops, outsidePod, cvrVars, opVars
  <2>7. CASE TargetRestart
    <3>1. faults' \in 1 .. MaxFaults
      <4>1. faults \in 0 .. MaxFaults /\ faults < MaxFaults /\ faults' = faults + 1
        BY <2>7, Zenon DEF TargetRestart, Fault, TypeOK
      <4> QED
        BY <4>1, ScaleAssumption
    <3>2. late' \subseteq Goroutine
      <4>1. CASE rpcAt = "idle"
        BY <2>7, <2>t, <4>1, Zenon DEF TargetRestart, HangUp
      <4>2. CASE rpcAt # "idle"
        <5>1. [at |-> rpcAt, req |-> rpcReq, cv |-> rpcCV, n |-> faults'] \in Goroutine
          BY <2>t, <3>1, <4>2, Zenon DEF Goroutine
        <5> QED
          BY <2>7, <2>t, <4>2, <5>1, Zenon DEF TargetRestart, HangUp
      <4> QED
        BY <4>1, <4>2, Zenon
    <3>3. up' \subseteq Pool
      BY <2>7, Zenon DEF TargetRestart
    <3> QED
      BY <2>7, <2>t, <2>1, <2>3, <2>5, <3>2, <3>3, TargetTyped, Zenon
      DEF TargetRestart, HangUp, vmVars, outsidePod, cvrVars, opVars
  <2>8. CASE PodRestart
    BY <2>8, <2>t, <2>1, <2>2, <2>4, <2>5, IdleType, TargetTyped, Zenon
    DEF PodRestart, ServerStops, outsidePod, cvrVars, opVars
  <2> QED
    BY <2>6, <2>7, <2>8, Zenon
<1>edit. ASSUME NEW pools \in SUBSET Pool, EditPools(pools)
         PROVE  TypeOK'
  <2> USE <1>edit
  <2>1. [cvc EXCEPT !.spec = pools] \in CVC
    BY Zenon DEF TypeOK, CVC
  <2>2. edits' \in 0 .. MaxEdits
    <3>1. edits \in 0 .. MaxEdits /\ edits < MaxEdits /\ edits' = edits + 1
      BY Zenon DEF TypeOK, EditPools
    <3> QED
      BY <3>1, ScaleAssumption
  <2> QED
    BY <2>1, <2>2, Zenon DEF TypeOK, EditPools, cvrVars, opVars, vmVars, rpcVars
<1>failure. CASE CallFails \/ OperatorRestart
  <2> USE <1>failure
  <2>t. /\ cvc \in CVC /\ cv \in CV
        /\ cvr \in [Pool -> {"none", "live", "deleting"}] /\ hasID \subseteq Pool /\ pdbs \subseteq SUBSET Pool
        /\ opBase \in CVC /\ opCVC \in CVC /\ opCV \in CV /\ opPool \subseteq Pool /\ opFound \subseteq {"object", "id"}
    BY Zenon DEF TypeOK
  <2>1. faults' \in 0 .. MaxFaults
    BY FaultsCounted, Zenon
  <2>2. "policy" \in OpSteps
    BY DEF OpSteps
  <2>3. UNCHANGED <<cvc, cv, cvr, hasID, pdbs, outsideOp>>
    BY Zenon DEF CallFails, OperatorRestart, cvrVars
  <2>4. Release \/ (opAt' = "policy" /\ UNCHANGED <<opBase, opCVC, opCV, opPool, opFound>>)
    BY Zenon DEF CallFails, OperatorRestart
  <2> QED
    BY <2>t, <2>1, <2>2, <2>3, <2>4, ReleaseType, OpTyped, Zenon
<1>1. CASE WatchCVC
  BY <1>1, Zenon DEF TypeOK, WatchCVC, cvrVars, opVars, vmVars, rpcVars
<1>2. CASE UNCHANGED vars
  BY <1>2, Zenon DEF TypeOK, vars, cvrVars, opVars, vmVars, rpcVars
<1> QED
  BY <1>1, <1>2, <1>worker, <1>manager, <1>server, <1>late, <1>replica, <1>restart, <1>edit, <1>failure, Zenon DEF Next

-----------------------------------------------------------------------------
(* The pool lists and the DRF                                              *)

LEMMA ListTypes ==
  ASSUME TypeOK
  PROVE  /\ cvc.spec \in SUBSET Pool /\ cvc.status \in SUBSET Pool
         /\ opBase.spec \in SUBSET Pool /\ opBase.status \in SUBSET Pool
         /\ opCVC.spec \in SUBSET Pool /\ opCVC.status \in SUBSET Pool
         /\ cv.known \in SUBSET Pool /\ cv.seen \in SUBSET Pool /\ cv.drf \in Nat
         /\ opCV.known \in SUBSET Pool /\ opCV.seen \in SUBSET Pool /\ opCV.drf \in Nat
<1>1. cv.drf \in Factor /\ opCV.drf \in Factor
  BY Zenon DEF TypeOK, CV
<1>2. cv.drf \in Nat /\ opCV.drf \in Nat
  BY <1>1 DEF Factor
<1>3. cvc \in CVC /\ opBase \in CVC /\ opCVC \in CVC
  BY Zenon DEF TypeOK
<1>4. cv \in CV /\ opCV \in CV
  BY Zenon DEF TypeOK
<1>5. cv.known \in SUBSET Pool /\ cv.seen \in SUBSET Pool /\ opCV.known \in SUBSET Pool /\ opCV.seen \in SUBSET Pool
  BY <1>4, Zenon DEF CV
<1> QED
  BY <1>2, <1>3, <1>5, Zenon DEF CVC

(* The worker's base has the latest lists unless the DRF is what it asks for. *)
LEMMA OnLatest ==
  ASSUME ScaleInv, opAt # "idle", cv.drf # Cardinality(opBase.spec)
  PROVE  SameLists(opBase, cvc)
BY Zenon DEF ScaleInv, CopyInv, DRFInv, Since

(* With the latest lists the DRF is that of the one or of the other. *)
LEMMA EitherDRF ==
  ASSUME ScaleInv, SameLists(opBase, cvc)
  PROVE  cv.drf \in {Cardinality(opBase.spec), Cardinality(opBase.status)}
BY Zenon DEF ScaleInv, DRFInv, SameLists

(* Adding pools, no replica is on its way out. *)
LEMMA NoneLeaves ==
  ASSUME Counting, TypeOK, ScaleInv, opAt # "idle", Cardinality(opBase.spec) > Cardinality(opBase.status)
  PROVE  /\ opBase.status \subseteq opBase.spec
         /\ SameLists(opBase, cvc) => cv.known = cv.seen
<1>1. Cardinality(opBase.spec) \in Nat /\ Cardinality(opBase.status) \in Nat
  BY ListTypes, Counted, Zenon
<1>2. Cardinality(opBase.spec) >= Cardinality(opBase.status)
  BY <1>1
<1>3. ValidatePoolListChanges(opBase, opBase)
  BY Zenon DEF ScaleInv, CopyInv, Allowed
<1>4. opBase.status \ opBase.spec = {}
  BY <1>2, <1>3, Zenon DEF ValidatePoolListChanges
<1>5. cv.known \subseteq cv.seen /\ cv.seen \ cv.known \subseteq cvc.status \ cvc.spec
  BY Zenon DEF ScaleInv, DepartureIsRequested
<1>6. SameLists(opBase, cvc) => cv.seen \ cv.known = {}
  BY <1>4, <1>5, Zenon DEF SameLists
<1> QED
  BY <1>4, <1>5, <1>6

(* Nothing of this is touched but the known replicas, which come and go in both lists. *)
LEMMA Kept ==
  ASSUME ScaleInv, UNCHANGED <<cvc, cvcCache, opAt, opBase, opCVC, opCV, opPool>>, cv'.drf = cv.drf,
         cv'.known \subseteq cv'.seen, cv'.seen \ cv'.known \subseteq cv.seen \ cv.known,
         cv.known = cv.seen => cv'.known = cv'.seen
  PROVE  ScaleInv'
<1>1. CopyInv' /\ DRFInv'
  BY Zenon DEF ScaleInv, CopyInv, DRFInv, Since, SameLists, Allowed, ValidatePoolListChanges
<1>2. Carried => Carried'
  BY Zenon DEF Carried, SameLists
<1>3. WorkInv'
  BY <1>2, Zenon DEF ScaleInv, WorkInv, Pending
<1>4. DepartureIsRequested'
  BY Zenon DEF ScaleInv, DepartureIsRequested
<1> QED
  BY <1>1, <1>3, <1>4, Zenon DEF ScaleInv

(***************************************************************************)
(* The user, who edits a pool list that has come to rest: no copy of the   *)
(* CVC has the new list yet.                                               *)
(***************************************************************************)
LEMMA NewList ==
  ASSUME TypeOK, ScaleInv, Settled, NEW pools \in SUBSET Pool, EditPools(pools)
  PROVE  /\ cvc.spec = cvc.status /\ cvc'.status = cvc.status /\ cvc'.spec = pools /\ pools # cvc.status
         /\ cvc'.pdb = cvc.pdb
         /\ opAt # "idle" => ~SameLists(opBase, cvc')
<1>1. cvc \in CVC
  BY Zenon DEF TypeOK
<1>2. cvc.spec = cvc.status /\ pools # cvc.spec
  BY Zenon DEF EditPools, Disciplined, Settled
<1>3. cvc'.status = cvc.status /\ cvc'.spec = pools /\ cvc'.pdb = cvc.pdb
  BY <1>1, Zenon DEF EditPools, CVC
<1>4. opAt # "idle" => ~SameLists(opBase, cvc')
  BY <1>2, <1>3, Zenon DEF ScaleInv, CopyInv, Since, SameLists
<1> QED
  BY <1>2, <1>3, <1>4, Zenon

LEMMA OwnSteps ==
  ASSUME ScaleInv, UNCHANGED <<cvc, cvcCache, cv, opBase>>, opAt # "idle", WorkInv'
  PROVE  ScaleInv'
<1>1. CopyInv' /\ DRFInv'
  BY Zenon DEF ScaleInv, CopyInv, DRFInv
<1>2. DepartureIsRequested'
  BY Zenon DEF ScaleInv, DepartureIsRequested
<1> QED
  BY <1>1, <1>2, Zenon DEF ScaleInv

LEMMA CarriedKept ==
  ASSUME UNCHANGED <<cvc, cv, opBase>>
  PROVE  Carried' <=> Carried
BY Zenon DEF Carried, SameLists

(* The worker's object is stored: the lists of the CVC come to rest, and no copy of it that is left is ahead. *)
LEMMA Rested ==
  ASSUME Counting, TypeOK, ScaleInv, opAt # "idle", cvc = opBase, Pending(opBase), Carried,
         cvc'.spec = opBase.spec, cvc'.status = opBase.spec, UNCHANGED <<cvcCache, cv>>
  PROVE  /\ Allowed(cvc)' /\ Allowed(cvcCache)' /\ Since(cvcCache, cvc)' /\ Since(opBase, cvc')
         /\ DRFInv' /\ DepartureIsRequested' /\ ~SameLists(opBase, cvc')
<1>1. SameLists(opBase, cvc) /\ cv.drf = Cardinality(opBase.spec) /\ cv.known = cv.seen
  BY Zenon DEF Carried, SameLists
<1>2. SameLists(cvcCache, cvc) /\ Allowed(cvcCache)
  BY <1>1, Zenon DEF ScaleInv, CopyInv
<1>3. Allowed(cvc)'
  <2>1. Cardinality(cvc'.spec) \in Nat
    BY ListTypes, Counted, Zenon
  <2>2. Cardinality(cvc'.spec) >= Cardinality(cvc'.status)
    BY <2>1
  <2> QED
    BY <2>2, Zenon DEF Allowed, ValidatePoolListChanges
<1>4. Since(cvcCache, cvc)' /\ Since(opBase, cvc')
  BY <1>2, Zenon DEF Since, SameLists
<1>5. DRFInv'
  BY <1>1, Zenon DEF DRFInv
<1>6. DepartureIsRequested'
  BY <1>1, Zenon DEF DepartureIsRequested
<1>7. ~SameLists(opBase, cvc')
  BY Zenon DEF SameLists, Pending
<1> QED
  BY <1>2, <1>3, <1>4, <1>5, <1>6, <1>7, Zenon

(* The worker is done; the CVC has its lists, or the new ones. *)
LEMMA ReleaseScale ==
  ASSUME ScaleInv, Release, UNCHANGED <<cvcCache, cv>>, cvc'.spec = cvc.spec, cvc'.status = cvc.status
  PROVE  ScaleInv'
<1>1. CopyInv'
  BY Zenon DEF ScaleInv, CopyInv, Release, Since, SameLists, Allowed, ValidatePoolListChanges
<1>2. DRFInv'
  BY Zenon DEF ScaleInv, DRFInv, Release, SameLists
<1>3. WorkInv'
  BY Zenon DEF WorkInv, Release
<1>4. DepartureIsRequested'
  BY Zenon DEF ScaleInv, DepartureIsRequested
<1> QED
  BY <1>1, <1>2, <1>3, <1>4, Zenon DEF ScaleInv

LEMMA InitScale == ASSUME Counting, Init PROVE ScaleInv
<1>1. PICK pools \in Placements :
        /\ cvc = [spec |-> pools, status |-> pools, hash |-> pools, pdb |-> PDBFor(pools)]
        /\ cv = [drf |-> Cardinality(pools), rf |-> Cardinality(pools),
                 cf |-> Quorum(Cardinality(pools)), known |-> {}, seen |-> {}]
  BY Zenon DEF Init
<1>2. cvc.spec = pools /\ cvc.status = pools /\ cv.drf = Cardinality(pools) /\ cv.known = {} /\ cv.seen = {}
  BY <1>1, Zenon
<1>3. cvcCache = cvc /\ opAt = "idle"
  BY Zenon DEF Init
<1>4. Allowed(cvc)
  <2>1. pools \in SUBSET Pool
    BY ScaleAssumption
  <2>2. Cardinality(pools) \in Nat
    BY <2>1, Counted, Zenon
  <2>3. Cardinality(cvc.spec) >= Cardinality(cvc.status)
    BY <1>2, <2>2
  <2> QED
    BY <1>2, <2>3, Zenon DEF Allowed, ValidatePoolListChanges
<1> QED
  BY <1>2, <1>3, <1>4, Zenon
  DEF ScaleInv, CopyInv, DRFInv, WorkInv, DepartureIsRequested, Since, SameLists

LEMMA ScaleStep == ASSUME Counting, TypeOK, ScaleInv, Settled, [Next]_vars PROVE ScaleInv'
<1>outside. CASE VolumeManager
           \/ (\E p \in Pool : TargetServer(p) \/ Replica(p) \/ ReplicaDown(p))
           \/ Late \/ VolumeMgmtRestart \/ TargetRestart \/ PodRestart
  <2> USE <1>outside
  <2>t. cv \in CV /\ cv.known \subseteq cv.seen
    BY Zenon DEF TypeOK, ScaleInv, DepartureIsRequested
  <2>1. UNCHANGED <<cvc, cvcCache, opAt, opBase, opCVC, opCV, opPool>>
    <3>1. CASE VolumeManager
      <4>1. UNCHANGED outsideVM
        BY <3>1, Zenon DEF VolumeManager, UpdateCStorVolumeDRF, GrowTarget, GrowConf, CheckHealth, ShrinkConf,
                           StoreFactors, ShrinkTarget, StoreSeen, HandleAdd, CreateVolumeTarget
      <4> QED
        BY <4>1, Zenon DEF outsideVM, opVars
    <3>2. CASE \E p \in Pool : TargetServer(p)
      <4>1. UNCHANGED outsideRPC
        BY <3>2, Zenon DEF TargetServer, ServeRequest, UpdateCVWithReplicationDetails, UpdateConfig
      <4> QED
        BY <4>1, Zenon DEF outsideRPC, opVars
    <3>3. CASE \E p \in Pool : Replica(p) \/ ReplicaDown(p)
      <4>1. UNCHANGED outsidePool
        BY <3>3, Zenon DEF Replica, PersistReplicaID, ReplicaUp, DestroyReplica, ReplicaDown
      <4> QED
        BY <4>1, Zenon DEF outsidePool, opVars
    <3>4. CASE VolumeMgmtRestart \/ TargetRestart \/ PodRestart
      <4>1. UNCHANGED outsidePod
        BY <3>4, Zenon DEF VolumeMgmtRestart, TargetRestart, PodRestart
      <4> QED
        BY <4>1, Zenon DEF outsidePod, opVars
    <3>5. CASE Late
      <4>1. UNCHANGED outsideLate
        BY <3>5, Zenon DEF Late, LateUpdate, LateConfig
      <4> QED
        BY <4>1, Zenon DEF outsideLate, opVars
    <3> QED
      BY <3>1, <3>2, <3>3, <3>4, <3>5, Zenon
  <2>2. \/ UNCHANGED cv
        \/ cv' = WithFactors(cv)
        \/ cv' = [cv EXCEPT !.seen = cv.known]
        \/ \E req : cv' = [cv EXCEPT !.rf = req.rf, !.cf = req.cf,
                                     !.known = @ \cup req.id, !.seen = @ \cup req.id]
    <3>1. CASE VolumeManager
      BY <3>1, Zenon DEF VolumeManager, UpdateCStorVolumeDRF, GrowTarget, GrowConf, CheckHealth, ShrinkConf,
                         StoreFactors, ShrinkTarget, StoreSeen, HandleAdd, CreateVolumeTarget
    <3>2. CASE \E p \in Pool : TargetServer(p)
      BY <3>2, Zenon DEF TargetServer, ServeRequest, UpdateCVWithReplicationDetails, UpdateConfig
    <3>3. CASE \E p \in Pool : Replica(p) \/ ReplicaDown(p)
      BY <3>3, Zenon DEF Replica, PersistReplicaID, ReplicaUp, DestroyReplica, ReplicaDown, outsidePool
    <3>4. CASE VolumeMgmtRestart \/ TargetRestart \/ PodRestart
      BY <3>4, Zenon DEF VolumeMgmtRestart, TargetRestart, PodRestart, outsidePod
    <3>5. CASE Late
      BY <3>5, Zenon DEF Late, LateUpdate, LateConfig
    <3> QED
      BY <3>1, <3>2, <3>3, <3>4, <3>5, Zenon
  <2>3. CASE UNCHANGED cv
    BY <2>t, <2>1, <2>3, Kept, Zenon
  <2>4. CASE cv' = WithFactors(cv)
    <3>1. cv'.drf = cv.drf /\ cv'.known = cv.known /\ cv'.seen = cv.seen
      BY <2>t, <2>4, Zenon DEF WithFactors, CV
    <3> QED
      BY <2>t, <2>1, <3>1, Kept, Zenon
  <2>5. CASE cv' = [cv EXCEPT !.seen = cv.known]
    <3>1. cv'.drf = cv.drf /\ cv'.known = cv.known /\ cv'.seen = cv.known
      BY <2>t, <2>5, Zenon DEF CV
    <3> QED
      BY <2>1, <3>1, Kept, Zenon
  <2>6. ASSUME NEW req, cv' = [cv EXCEPT !.rf = req.rf, !.cf = req.cf,
                                         !.known = @ \cup req.id, !.seen = @ \cup req.id]
        PROVE  ScaleInv'
    <3>1. cv'.drf = cv.drf /\ cv'.known = cv.known \cup req.id /\ cv'.seen = cv.seen \cup req.id
      BY <2>t, <2>6, Zenon DEF CV
    <3>2. cv'.known \subseteq cv'.seen /\ cv'.seen \ cv'.known \subseteq cv.seen \ cv.known
      BY <2>t, <3>1, Zenon
    <3> QED
      BY <2>1, <3>1, <3>2, Kept, Zenon
  <2> QED
    BY <2>2, <2>3, <2>4, <2>5, <2>6, Zenon
<1>edit. ASSUME NEW pools \in SUBSET Pool, EditPools(pools)
         PROVE  ScaleInv'
  <2> USE <1>edit
  <2>1. UNCHANGED <<cvcCache, cv, opAt, opBase, opCVC, opCV, opPool>>
    BY Zenon DEF EditPools, opVars
  <2>2. /\ cvc.spec = cvc.status /\ cvc'.status = cvc.status /\ cvc'.spec = pools /\ pools # cvc.status
        /\ opAt # "idle" => ~SameLists(opBase, cvc')
    BY NewList, Zenon
  <2>3. CopyInv'
    <3>1. Allowed(cvc')
      <4>1. ValidatePoolListChanges(cvc, [cvc EXCEPT !.spec = pools]) /\ cvc' = [cvc EXCEPT !.spec = pools]
        BY Zenon DEF EditPools, ValidateCVCSpecChanges
      <4> QED
        BY <2>2, <4>1, Zenon DEF Allowed, ValidatePoolListChanges
    <3>2. Since(cvcCache, cvc') /\ (opAt # "idle" => Since(opBase, cvc'))
      BY <2>2, Zenon DEF ScaleInv, CopyInv, Since, SameLists
    <3> QED
      BY <2>1, <2>2, <3>1, <3>2, Zenon DEF ScaleInv, CopyInv
  <2>4. DRFInv'
    BY <2>1, <2>2, Zenon DEF ScaleInv, DRFInv
  <2>5. WorkInv'
    <3>1. opAt # "idle" => Carried'
      BY <2>1, <2>2, Zenon DEF Carried
    <3> QED
      BY <2>1, <3>1, Zenon DEF ScaleInv, WorkInv, Pending
  <2>6. DepartureIsRequested'
    BY <2>1, <2>2, Zenon DEF ScaleInv, DepartureIsRequested
  <2> QED
    BY <2>3, <2>4, <2>5, <2>6, Zenon DEF ScaleInv
<1>watch. CASE WatchCVC
  <2> USE <1>watch
  <2>1. UNCHANGED <<cvc, cv, opAt, opBase, opCVC, opCV, opPool>> /\ cvcCache' = cvc
    BY Zenon DEF WatchCVC, opVars
  <2>2. CopyInv' /\ DRFInv'
    BY <2>1, Zenon DEF ScaleInv, CopyInv, DRFInv, Since, SameLists
  <2>3. WorkInv' /\ DepartureIsRequested'
    BY <2>1, Zenon DEF ScaleInv, WorkInv, Pending, Carried, DepartureIsRequested, SameLists
  <2> QED
    BY <2>2, <2>3, Zenon DEF ScaleInv
(***************************************************************************)
(* The worker.  Its steps on its own variables leave the lists as they     *)
(* are.                                                                    *)
(***************************************************************************)
<1>sync. CASE SyncCVC
  <2> USE <1>sync
  <2>1. /\ UNCHANGED <<cvc, cvcCache, cv, opCV, opPool>> /\ opBase' = cvcCache /\ opCVC' = cvcCache
        /\ opAt' \in {"up", "down", "policy"}
        /\ opAt' = "up" => Cardinality(cvcCache.spec) > Cardinality(cvcCache.status)
        /\ opAt' = "down" => Cardinality(cvcCache.spec) < Cardinality(cvcCache.status)
    BY Zenon DEF SyncCVC, outsideOp
  <2>2. CopyInv'
    BY <2>1, Zenon DEF ScaleInv, CopyInv
  <2>3. DRFInv'
    BY <2>1, Zenon DEF ScaleInv, DRFInv
  <2>4. WorkInv'
    BY <2>1, Zenon DEF WorkInv
  <2>5. DepartureIsRequested'
    BY <2>1, Zenon DEF ScaleInv, DepartureIsRequested
  <2> QED
    BY <2>2, <2>3, <2>4, <2>5, Zenon DEF ScaleInv
<1>up. CASE ScaleUp
  <2> USE <1>up
  <2>w. WorkInv /\ CopyInv /\ DRFInv /\ DepartureIsRequested
    BY Zenon DEF ScaleInv
  <2>1. /\ opAt \in {"up", "raise", "create", "check"} /\ opAt # "idle"
        /\ UNCHANGED <<cvc, cvcCache, opBase, opPool>>
    BY Zenon DEF ScaleUp, ScaleUpVolumeReplicas, RaiseDRF, HandleVolumeReplicaCreation, UpdateCVCWithScaledUpInfo, outsideOp
  <2>2. /\ Cardinality(opBase.spec) > Cardinality(opBase.status)
        /\ opCVC.status = opBase.status /\ opCVC.spec = opBase.spec
    BY <2>w, <2>1, Zenon DEF WorkInv
  <2>3. opBase.status \subseteq opBase.spec /\ (SameLists(opBase, cvc) => cv.known = cv.seen)
    BY <2>1, <2>2, NoneLeaves, Zenon
  <2>n. /\ Cardinality(opBase.spec) \in Nat /\ Cardinality(opBase.status) \in Nat /\ cv.drf \in Nat
        /\ opCVC \in CVC /\ cv \in CV
    BY ListTypes, Counted, Zenon DEF TypeOK
  <2>4. CASE ScaleUpVolumeReplicas
    <3>1. /\ UNCHANGED <<cv, opCVC>> /\ opCV' = cv /\ opAt' \in {"raise", "create"}
          /\ opAt' = "raise" => cv.drf < Cardinality(opBase.spec)
          /\ opAt' = "create" => ~(cv.drf < Cardinality(opBase.spec))
      BY <2>2, <2>4, Zenon DEF ScaleUpVolumeReplicas
    <3>2. opAt' = "create" => Carried
      <4> SUFFICES ASSUME ~(cv.drf < Cardinality(opBase.spec)), SameLists(opBase, cvc)
                   PROVE  cv.drf = Cardinality(opBase.spec)
        BY <2>3, <3>1, Zenon DEF Carried
      <4>1. cv.drf \in {Cardinality(opBase.spec), Cardinality(opBase.status)}
        BY EitherDRF, Zenon
      <4> QED
        BY <2>2, <2>n, <4>1
    <3>3. opAt' = "create" => Carried'
      BY <2>1, <3>1, <3>2, CarriedKept, Zenon
    <3>4. WorkInv'
      BY <2>1, <2>2, <3>1, <3>3, Zenon DEF WorkInv
    <3> QED
      BY <2>1, <3>1, <3>4, OwnSteps, Zenon
  <2>5. CASE RaiseDRF
    <3>1. UNCHANGED opCVC /\ opCV' = NoCV /\ opAt = "raise"
      BY <2>5, Zenon DEF RaiseDRF
    <3>2. CASE UNCHANGED cv /\ opAt' = "policy"
      <4>1. WorkInv'
        BY <2>1, <2>2, <3>1, <3>2, Zenon DEF WorkInv
      <4> QED
        BY <2>1, <3>2, <4>1, OwnSteps, Zenon
    <3>3. CASE cv = opCV /\ cv' = [cv EXCEPT !.drf = Cardinality(opCVC.spec)] /\ opAt' = "create"
      <4>1. cv'.drf = Cardinality(opBase.spec) /\ cv'.known = cv.known /\ cv'.seen = cv.seen
        BY <2>2, <2>n, <3>3, Zenon DEF CV
      <4>2. cv.drf < Cardinality(opBase.spec)
        BY <2>w, <3>1, <3>3, Zenon DEF WorkInv
      <4>3. cv.drf # Cardinality(opBase.spec)
        BY <2>n, <4>2
      <4>4. SameLists(opBase, cvc)
        BY <2>1, <4>3, OnLatest, Zenon
      <4>5. CopyInv'
        BY <2>w, <2>1, Zenon DEF CopyInv
      <4>6. DRFInv'
        BY <2>w, <2>1, <4>1, <4>4, Zenon DEF DRFInv, CopyInv, SameLists
      <4>7. Carried'
        BY <2>1, <2>3, <4>1, <4>4, Zenon DEF Carried
      <4>8. WorkInv'
        BY <2>1, <2>2, <3>1, <3>3, <4>7, Zenon DEF WorkInv
      <4>9. DepartureIsRequested'
        BY <2>w, <2>1, <4>1, Zenon DEF DepartureIsRequested
      <4> QED
        BY <4>5, <4>6, <4>8, <4>9, Zenon DEF ScaleInv
    <3> QED
      BY <2>5, <3>2, <3>3, Zenon DEF RaiseDRF
  <2>6. CASE HandleVolumeReplicaCreation
    <3>1. UNCHANGED <<cv, opCVC>> /\ opAt = "create" /\ opAt' \in {"check", "policy"}
      BY <2>6, Zenon DEF HandleVolumeReplicaCreation
    <3>2. Carried'
      BY <2>w, <2>1, <3>1, CarriedKept, Zenon DEF WorkInv
    <3>3. WorkInv'
      BY <2>1, <2>2, <3>1, <3>2, Zenon DEF WorkInv
    <3> QED
      BY <2>1, <3>1, <3>3, OwnSteps, Zenon
  <2>7. CASE UpdateCVCWithScaledUpInfo
    <3>1. /\ UNCHANGED cv /\ opAt = "check"
          /\ \/ opCVC' = [opCVC EXCEPT !.status = @ \cup opCVC.spec] /\ opAt' = "deletePDB"
             \/ UNCHANGED opCVC /\ opAt' = "policy"
      BY <2>7, Zenon DEF UpdateCVCWithScaledUpInfo
    <3>2. Carried'
      BY <2>w, <2>1, <3>1, CarriedKept, Zenon DEF WorkInv
    <3>3. Pending(opBase) /\ opBase.status \cup opBase.spec = opBase.spec
      <4>1. opBase.spec # opBase.status
        BY <2>2, <2>n
      <4> QED
        BY <2>3, <4>1 DEF Pending
    <3>4. ASSUME opCVC' = [opCVC EXCEPT !.status = @ \cup opCVC.spec], opAt' = "deletePDB"
          PROVE  WorkInv'
      <4>1. opCVC'.status = opBase.spec /\ opCVC'.spec = opBase.spec
        BY <2>2, <2>n, <3>3, <3>4, Zenon DEF CVC
      <4> QED
        BY <2>1, <3>2, <3>3, <3>4, <4>1, Zenon DEF WorkInv, Pending
    <3>5. ASSUME UNCHANGED opCVC, opAt' = "policy"
          PROVE  WorkInv'
      BY <2>1, <2>2, <3>5, Zenon DEF WorkInv
    <3>6. WorkInv'
      BY <3>1, <3>4, <3>5, Zenon
    <3> QED
      BY <2>1, <3>1, <3>6, OwnSteps, Zenon
  <2> QED
    BY <2>4, <2>5, <2>6, <2>7, Zenon DEF ScaleUp
<1>down. CASE ScaleDown
  <2> USE <1>down
  <2>w. WorkInv /\ CopyInv /\ DRFInv /\ DepartureIsRequested
    BY Zenon DEF ScaleInv
  <2>1. /\ opAt \in {"down", "getCVR", "lower", "deleteCVR"} /\ opAt # "idle"
        /\ UNCHANGED <<cvc, cvcCache, opBase>>
    BY Zenon DEF ScaleDown, ScaleDownVolumeReplicas, GetScaleDownCVR, LowerDRF, DeleteCVR, outsideOp
  <2>2. /\ Cardinality(opBase.spec) < Cardinality(opBase.status)
        /\ opCVC.status = opBase.status /\ opCVC.spec = opBase.spec
    BY <2>w, <2>1, Zenon DEF WorkInv
  <2>n. /\ Cardinality(opBase.spec) \in Nat /\ Cardinality(opBase.status) \in Nat /\ cv.drf \in Nat
        /\ opCVC \in CVC /\ cv \in CV
    BY ListTypes, Counted, Zenon DEF TypeOK
  <2>3. CASE ScaleDownVolumeReplicas
    <3>1. UNCHANGED <<cv, opCVC, opPool>> /\ opCV' = cv /\ opAt' = "getCVR"
      BY <2>3, Zenon DEF ScaleDownVolumeReplicas
    <3>2. WorkInv'
      BY <2>w, <2>1, <2>2, <3>1, Zenon DEF WorkInv, DepartureIsRequested
    <3> QED
      BY <2>1, <3>1, <3>2, OwnSteps, Zenon
  <2>4. CASE GetScaleDownCVR
    <3>1. UNCHANGED <<cv, opCVC, opCV>> /\ opAt = "getCVR" /\ opAt' = "lower" /\ opPool' \subseteq opBase.status \ opBase.spec
      BY <2>2, <2>4, Zenon DEF GetScaleDownCVR
    <3>2. WorkInv'
      BY <2>w, <2>1, <2>2, <3>1, Zenon DEF WorkInv
    <3> QED
      BY <2>1, <3>1, <3>2, OwnSteps, Zenon
  <2>5. CASE LowerDRF
    <3> DEFINE gone == IF "id" \in opFound THEN opPool ELSE {}
    <3>1. /\ UNCHANGED <<opCVC, opPool>> /\ opAt = "lower" /\ opCV' = NoCV
          /\ gone \subseteq opPool
          /\ \/ opCV.drf <= Cardinality(opBase.spec) /\ opAt' = AfterLower(opCV) /\ UNCHANGED cv
             \/ /\ opCV.drf > Cardinality(opBase.spec) /\ cv = opCV
                /\ cv' = [cv EXCEPT !.drf = Cardinality(opBase.spec), !.known = @ \ gone]
                /\ opAt' = AfterLower(cv')
             \/ opAt' = "policy" /\ UNCHANGED cv
      BY <2>2, <2>5, Zenon DEF LowerDRF
    <3> HIDE DEF gone
    <3>2. /\ opCV.drf = cv.drf /\ opCV.known \subseteq opCV.seen /\ (opCV.known = opCV.seen => cv.known = cv.seen)
          /\ opPool \subseteq opBase.status \ opBase.spec
      BY <2>w, <3>1, Zenon DEF WorkInv
    <3>3. CASE opCV.drf <= Cardinality(opBase.spec) /\ opAt' = AfterLower(opCV) /\ UNCHANGED cv
      <4>1. opAt' \in {"policy", "deleteCVR"} /\ (opAt' = "deleteCVR" => ~IsScaleDownInProgress(opCV))
        BY <3>3, Zenon DEF AfterLower
      <4>2. ASSUME ~IsScaleDownInProgress(opCV)
            PROVE  Carried
        <5>1. cv.known = cv.seen
          BY <3>2, <4>2, ListTypes, NoneMissing, Zenon DEF IsScaleDownInProgress
        <5>2. ASSUME SameLists(opBase, cvc)
              PROVE  cv.drf = Cardinality(opBase.spec)
          <6>1. cv.drf \in {Cardinality(opBase.spec), Cardinality(opBase.status)}
            BY <5>2, EitherDRF, Zenon
          <6> QED
            BY <2>2, <2>n, <3>2, <3>3, <6>1
        <5> QED
          BY <5>1, <5>2, Zenon DEF Carried
      <4>3. opAt' = "deleteCVR" => Carried'
        BY <2>1, <3>3, <4>1, <4>2, CarriedKept, Zenon
      <4>4. WorkInv'
        BY <2>w, <2>1, <2>2, <3>1, <3>2, <4>1, <4>3, Zenon DEF WorkInv
      <4> QED
        BY <2>1, <3>3, <4>4, OwnSteps, Zenon
    <3>4. CASE opAt' = "policy" /\ UNCHANGED cv
      <4>1. WorkInv'
        BY <2>1, <2>2, <3>1, <3>4, Zenon DEF WorkInv
      <4> QED
        BY <2>1, <3>4, <4>1, OwnSteps, Zenon
    <3>5. CASE /\ opCV.drf > Cardinality(opBase.spec) /\ cv = opCV
               /\ cv' = [cv EXCEPT !.drf = Cardinality(opBase.spec), !.known = @ \ gone]
               /\ opAt' = AfterLower(cv')
      <4>1. cv'.drf = Cardinality(opBase.spec) /\ cv'.known = cv.known \ gone /\ cv'.seen = cv.seen
        BY <2>n, <3>5, Zenon DEF CV
      <4>2. cv.drf # Cardinality(opBase.spec)
        BY <2>n, <3>5
      <4>3. SameLists(opBase, cvc)
        BY <2>1, <4>2, OnLatest, Zenon
      <4>4. DepartureIsRequested'
        <5>1. cvc'.status = opBase.status /\ cvc'.spec = opBase.spec
          BY <2>1, <4>3, Zenon DEF SameLists
        <5>2. cv.known \subseteq cv.seen /\ cv.seen \ cv.known \subseteq opBase.status \ opBase.spec
          BY <2>w, <4>3, Zenon DEF DepartureIsRequested, SameLists
        <5>3. cv'.known \subseteq cv'.seen /\ cv'.seen \ cv'.known \subseteq opBase.status \ opBase.spec
          BY <3>1, <3>2, <4>1, <5>2
        <5> QED
          BY <5>1, <5>3, Zenon DEF DepartureIsRequested
      <4>5. CopyInv'
        BY <2>w, <2>1, Zenon DEF CopyInv
      <4>6. DRFInv'
        BY <2>w, <2>1, <4>1, <4>3, Zenon DEF DRFInv, CopyInv, SameLists
      <4>7. opAt' \in {"policy", "deleteCVR"} /\ (opAt' = "deleteCVR" => ~IsScaleDownInProgress(cv'))
        BY <3>5, Zenon DEF AfterLower
      <4>8. opAt' = "deleteCVR" => Carried'
        <5>1. cv'.seen \in SUBSET Pool /\ cv'.known \in SUBSET cv'.seen
          BY <4>1, <4>4, ListTypes, Zenon DEF DepartureIsRequested
        <5>2. opAt' = "deleteCVR" => cv'.known = cv'.seen
          BY <4>7, <5>1, NoneMissing, Zenon DEF IsScaleDownInProgress
        <5> QED
          BY <2>1, <4>1, <5>2, Zenon DEF Carried
      <4>9. WorkInv'
        BY <2>1, <2>2, <3>1, <3>2, <4>7, <4>8, Zenon DEF WorkInv
      <4> QED
        BY <4>4, <4>5, <4>6, <4>9, Zenon DEF ScaleInv
    <3> QED
      BY <3>1, <3>3, <3>4, <3>5, Zenon
  <2>6. CASE DeleteCVR
    <3>1. /\ UNCHANGED <<cv, opPool>> /\ opAt = "deleteCVR"
          /\ \/ opCVC' = [opCVC EXCEPT !.status = opCVC.spec] /\ opAt' = "deletePDB"
             \/ UNCHANGED opCVC /\ opAt' = "policy"
      BY <2>6, Zenon DEF DeleteCVR
    <3>2. Carried'
      BY <2>w, <2>1, <3>1, CarriedKept, Zenon DEF WorkInv
    <3>3. Pending(opBase)
      <4>1. opBase.spec # opBase.status
        BY <2>2, <2>n
      <4> QED
        BY <4>1, Zenon DEF Pending
    <3>4. ASSUME opCVC' = [opCVC EXCEPT !.status = opCVC.spec], opAt' = "deletePDB"
          PROVE  WorkInv'
      <4>1. opCVC'.status = opBase.spec /\ opCVC'.spec = opBase.spec
        BY <2>2, <2>n, <3>4, Zenon DEF CVC
      <4> QED
        BY <2>1, <3>2, <3>3, <3>4, <4>1, Zenon DEF WorkInv, Pending
    <3>5. ASSUME UNCHANGED opCVC, opAt' = "policy"
          PROVE  WorkInv'
      BY <2>1, <2>2, <3>5, Zenon DEF WorkInv
    <3>6. WorkInv'
      BY <3>1, <3>4, <3>5, Zenon
    <3> QED
      BY <2>1, <3>1, <3>6, OwnSteps, Zenon
  <2> QED
    BY <2>3, <2>4, <2>5, <2>6, Zenon DEF ScaleDown
<1>pdb. CASE DeletePDBIfNotInUse \/ GetOrCreatePodDisruptionBudget
  <2> USE <1>pdb
  <2>1. /\ UNCHANGED <<cvc, cvcCache, cv, opBase, opCV, opPool>> /\ opAt \in {"deletePDB", "createPDB"}
        /\ opAt' \in {"createPDB", "store"}
        /\ UNCHANGED opCVC \/ opCVC' = [opCVC EXCEPT !.pdb = PDBFor(opCVC.status)]
    BY Zenon DEF DeletePDBIfNotInUse, GetOrCreatePodDisruptionBudget, outsideOp
  <2>2. opCVC'.spec = opCVC.spec /\ opCVC'.status = opCVC.status
    <3>1. opCVC \in CVC
      BY Zenon DEF TypeOK
    <3> QED
      BY <2>1, <3>1, Zenon DEF CVC
  <2>3. Carried' <=> Carried
    BY <2>1, CarriedKept, Zenon
  <2>4. WorkInv'
    BY <2>1, <2>2, <2>3, Zenon DEF ScaleInv, WorkInv, Pending
  <2> QED
    BY <2>1, <2>4, OwnSteps, Zenon
<1>store. CASE UpdatePDBForScaledVolume
  <2> USE <1>store
  <2>1. /\ UNCHANGED <<cvcCache, cv, opBase, opCVC, opCV, opPool>> /\ opAt = "store" /\ opAt' = "policy"
        /\ UNCHANGED cvc \/ (cvc = opBase /\ cvc' = opCVC)
    BY Zenon DEF UpdatePDBForScaledVolume, UpdateAccepted, outsideOp
  <2>2. opCVC.spec = opBase.spec /\ opCVC.status = opBase.spec /\ Pending(opBase) /\ Carried
    BY <2>1, Zenon DEF ScaleInv, WorkInv, Pending
  <2>3. CASE UNCHANGED cvc
    <3>1. Carried'
      BY <2>1, <2>2, <2>3, CarriedKept, Zenon
    <3>2. WorkInv'
      BY <2>1, <2>2, <3>1, Zenon DEF WorkInv
    <3> QED
      BY <2>1, <2>3, <3>2, OwnSteps, Zenon
  <2>4. CASE cvc = opBase /\ cvc' = opCVC
    <3>1. cvc'.spec = opBase.spec /\ cvc'.status = opBase.spec
      BY <2>2, <2>4, Zenon
    <3>2. /\ Allowed(cvc)' /\ Allowed(cvcCache)' /\ Since(cvcCache, cvc)' /\ Since(opBase, cvc')
          /\ DRFInv' /\ DepartureIsRequested' /\ ~SameLists(opBase, cvc')
      BY <2>1, <2>2, <2>4, <3>1, Rested, Zenon
    <3>3. CopyInv'
      BY <2>1, <3>2, Zenon DEF ScaleInv, CopyInv
    <3>4. WorkInv'
      BY <2>1, <2>2, <3>2, Zenon DEF WorkInv, Carried
    <3> QED
      BY <3>2, <3>3, <3>4, Zenon DEF ScaleInv
  <2> QED
    BY <2>1, <2>3, <2>4, Zenon
<1>policy. CASE SyncPolicySpec
  <2> USE <1>policy
  <2>1. /\ UNCHANGED <<cvcCache, cv>> /\ opAt = "policy" /\ Release
        /\ UNCHANGED cvc \/ (cvc = opBase /\ cvc' = [opCVC EXCEPT !.hash = opCVC.spec])
    BY Zenon DEF SyncPolicySpec, UpdateAccepted, outsideOp
  <2>2. opCVC.spec = opBase.spec /\ (opCVC.status # opBase.status => opCVC.status = opBase.spec /\ Carried)
    BY <2>1, Zenon DEF ScaleInv, WorkInv
  <2>3. CASE cvc'.spec = cvc.spec /\ cvc'.status = cvc.status
    BY <2>1, <2>3, ReleaseScale, Zenon
  <2>4. CASE /\ cvc = opBase /\ cvc' = [opCVC EXCEPT !.hash = opCVC.spec]
             /\ opCVC.status # opBase.status
    <3>1. cvc'.spec = opBase.spec /\ cvc'.status = opBase.spec /\ Pending(opBase)
      <4>1. opCVC \in CVC
        BY Zenon DEF TypeOK
      <4>2. cvc'.spec = opCVC.spec /\ cvc'.status = opCVC.status
        BY <2>4, <4>1, Zenon DEF CVC
      <4> QED
        BY <2>2, <2>4, <4>2, Zenon DEF Pending
    <3>2. /\ Allowed(cvc)' /\ Allowed(cvcCache)' /\ Since(cvcCache, cvc)'
          /\ DRFInv' /\ DepartureIsRequested'
      BY <2>1, <2>2, <2>4, <3>1, Rested, Zenon
    <3>3. CopyInv'
      BY <2>1, <3>2, Zenon DEF CopyInv, Release
    <3>4. WorkInv'
      BY <2>1, Zenon DEF WorkInv, Release
    <3> QED
      BY <3>2, <3>3, <3>4, Zenon DEF ScaleInv
  <2>5. CASE /\ cvc = opBase /\ cvc' = [opCVC EXCEPT !.hash = opCVC.spec]
             /\ opCVC.status = opBase.status
    <3>1. opCVC \in CVC
      BY Zenon DEF TypeOK
    <3>2. cvc'.spec = cvc.spec /\ cvc'.status = cvc.status
      BY <2>2, <2>5, <3>1, Zenon DEF CVC
    <3> QED
      BY <2>3, <3>2, Zenon
  <2> QED
    BY <2>1, <2>3, <2>4, <2>5, Zenon
<1>failure. CASE CallFails \/ OperatorRestart
  <2> USE <1>failure
  <2>1. UNCHANGED <<cvc, cvcCache, cv>> /\ opAt # "idle"
    BY Zenon DEF CallFails, OperatorRestart, outsideOp
  <2>2. CASE Release
    BY <2>1, <2>2, ReleaseScale, Zenon
  <2>3. CASE opAt' = "policy" /\ UNCHANGED <<opBase, opCVC, opCV, opPool, opFound>>
    <3>1. Carried' <=> Carried
      BY <2>1, <2>3, CarriedKept, Zenon
    <3>2. WorkInv'
      BY <2>1, <2>3, <3>1, Zenon DEF ScaleInv, WorkInv
    <3> QED
      BY <2>1, <2>3, <3>2, OwnSteps, Zenon
  <2> QED
    BY <2>2, <2>3, Zenon DEF CallFails, OperatorRestart
<1>1. CASE Worker
  BY <1>1, <1>sync, <1>up, <1>down, <1>pdb, <1>store, <1>policy, Zenon DEF Worker
<1>2. CASE UNCHANGED vars
  BY <1>2, Kept, Zenon DEF vars, opVars, ScaleInv, DepartureIsRequested
<1>3. CASE \E pools \in SUBSET Pool : EditPools(pools)
  BY <1>3, <1>edit, Zenon
<1>4. CASE WatchCVC \/ CallFails \/ OperatorRestart
  BY <1>4, <1>watch, <1>failure, Zenon
<1>5. CASE VolumeManager \/ (\E p \in Pool : TargetServer(p) \/ Replica(p) \/ ReplicaDown(p))
           \/ Late \/ VolumeMgmtRestart \/ TargetRestart \/ PodRestart
  BY <1>5, <1>outside, Zenon
<1> QED
  BY <1>1, <1>2, <1>3, <1>4, <1>5, Zenon DEF Next

-----------------------------------------------------------------------------
(* The PDB                                                                 *)

(* With the latest CVC the webhook lets the worker's Update pass. *)
LEMMA WorkerPasses ==
  ASSUME TypeOK, ScaleInv, opAt # "idle", cvc = opBase
  PROVE  UpdateAccepted(opCVC)
<1>1. opCVC.spec = opBase.spec /\ ValidatePoolListChanges(opBase, opBase)
  BY Zenon DEF ScaleInv, WorkInv, CopyInv, Allowed
<1> QED
  BY <1>1, Zenon DEF UpdateAccepted, ValidateCVCSpecChanges, ValidateReplicaScaling, ValidatePoolListChanges

LEMMA GuardKept ==
  ASSUME GuardInv, UNCHANGED <<cvc, cvcCache, pdbs, opAt, opBase, opCVC>>
  PROVE  GuardInv'
BY Zenon DEF GuardInv, Guard, Pending

LEMMA ReleaseGuard ==
  ASSUME GuardInv, Release, UNCHANGED <<cvcCache, pdbs>>, cvc'.spec = cvc.spec, cvc'.status = cvc.status, cvc'.pdb = cvc.pdb
  PROVE  GuardInv'
BY Zenon DEF GuardInv, Guard, Release, Pending

LEMMA InitGuard == ASSUME Init PROVE GuardInv
<1>1. PICK pools \in Placements :
        /\ cvc = [spec |-> pools, status |-> pools, hash |-> pools, pdb |-> PDBFor(pools)]
        /\ pdbs = {PDBFor(pools)} \ {{}}
  BY Zenon DEF Init
<1>2. cvc.status = pools /\ cvc.pdb = PDBFor(pools) /\ cvcCache = cvc /\ opAt = "idle"
  BY <1>1, Zenon DEF Init
<1> QED
  BY <1>1, <1>2, Zenon DEF GuardInv, Guard

LEMMA GuardStep ==
  ASSUME TypeOK, ScaleInv, GuardInv, Settled, "call" \notin FaultKinds, [Next]_vars
  PROVE  GuardInv'
<1>edit. ASSUME NEW pools \in SUBSET Pool, EditPools(pools)
         PROVE  GuardInv'
  <2> USE <1>edit
  <2>1. UNCHANGED <<cvcCache, pdbs, opAt, opBase, opCVC>>
    BY Zenon DEF EditPools, opVars
  <2>2. /\ cvc'.status = cvc.status /\ cvc'.pdb = cvc.pdb /\ cvc'.spec # cvc'.status
        /\ opAt # "idle" => cvc' # opBase
    BY NewList, Zenon DEF SameLists
  <2> QED
    BY <2>1, <2>2, Zenon DEF GuardInv, Guard, Pending
<1>sync. CASE SyncCVC
  <2> USE <1>sync
  <2>1. UNCHANGED <<cvc, cvcCache, pdbs>> /\ opBase' = cvcCache /\ opCVC' = cvcCache /\ opAt' \in {"up", "down", "policy"}
    BY Zenon DEF SyncCVC, outsideOp
  <2> QED
    BY <2>1, Zenon DEF GuardInv, Guard, Pending
(* Up to the PDB the worker has the label of its base; a step that gives up leaves the status too. *)
<1>scaling. CASE ScaleUp \/ ScaleDown
  <2> USE <1>scaling
  <2>1. UNCHANGED <<cvc, cvcCache, pdbs, opBase>> /\ opCVC \in CVC
    BY Zenon DEF ScaleUp, ScaleUpVolumeReplicas, RaiseDRF, HandleVolumeReplicaCreation, UpdateCVCWithScaledUpInfo,
                 ScaleDown, ScaleDownVolumeReplicas, GetScaleDownCVR, LowerDRF, DeleteCVR, outsideOp, TypeOK
  <2>2. /\ opAt \in {"up", "raise", "create", "check", "down", "getCVR", "lower", "deleteCVR"}
        /\ opAt' \in {"raise", "create", "check", "getCVR", "lower", "deleteCVR", "deletePDB", "policy"}
        /\ opAt' = "policy" => UNCHANGED opCVC
        /\ \/ UNCHANGED opCVC
           \/ opCVC' = [opCVC EXCEPT !.status = @ \cup opCVC.spec]
           \/ opCVC' = [opCVC EXCEPT !.status = opCVC.spec]
    <3>1. CASE ScaleUp
      BY <3>1, Zenon DEF ScaleUp, ScaleUpVolumeReplicas, RaiseDRF, HandleVolumeReplicaCreation, UpdateCVCWithScaledUpInfo, Fault
    <3>2. CASE ScaleDown
      BY <3>2, Zenon DEF ScaleDown, ScaleDownVolumeReplicas, GetScaleDownCVR, LowerDRF, AfterLower, DeleteCVR
    <3> QED
      BY <3>1, <3>2, Zenon
  <2>3. opCVC.pdb = opBase.pdb /\ opCVC.status = opBase.status
    BY <2>2, Zenon DEF GuardInv, ScaleInv, WorkInv
  <2>4. opCVC'.pdb = opBase.pdb
    BY <2>1, <2>2, <2>3, Zenon DEF CVC
  <2> QED
    BY <2>1, <2>2, <2>3, <2>4, Zenon DEF GuardInv, Guard, Pending
(* The PDB of a list that is at rest is not the one that a worker on an earlier list deletes. *)
<1>delete. CASE DeletePDBIfNotInUse
  <2> USE <1>delete
  <2>1. /\ UNCHANGED <<cvc, cvcCache, opBase, opCVC>> /\ opAt = "deletePDB" /\ opAt' = "createPDB"
        /\ pdbs' = IF cvc.pdb = opCVC.pdb THEN pdbs \ {opCVC.pdb} ELSE pdbs
    BY Zenon DEF DeletePDBIfNotInUse, outsideOp
  <2>2. ~Pending(cvc) => cvc.pdb \in pdbs' \cup {{}}
    <3> SUFFICES ASSUME ~Pending(cvc), cvc.pdb # {}, cvc.pdb = opCVC.pdb
                 PROVE  FALSE
      BY <2>1, Zenon DEF GuardInv
    <3>1. opCVC.pdb = opBase.pdb /\ Guard(opBase) /\ Guard(cvc)
      BY <2>1, Zenon DEF GuardInv
    <3>2. cvc.pdb = cvc.status /\ cvc.pdb = opBase.status
      BY <3>1, ListTypes, PDBType, Zenon DEF Guard
    <3>3. Pending(opBase) /\ Since(opBase, cvc)
      BY <2>1, Zenon DEF ScaleInv, WorkInv, CopyInv
    <3> QED
      BY <3>2, <3>3, Zenon DEF Pending, Since, SameLists
  <2> QED
    BY <2>1, <2>2, Zenon DEF GuardInv, Guard, Pending
<1>create. CASE GetOrCreatePodDisruptionBudget
  <2> USE <1>create
  <2>1. /\ UNCHANGED <<cvc, cvcCache, opBase>> /\ opAt = "createPDB" /\ opAt' = "store"
        /\ pdbs' = pdbs \cup ({PDBFor(opCVC.status)} \ {{}})
        /\ opCVC' = [opCVC EXCEPT !.pdb = PDBFor(opCVC.status)] /\ opCVC \in CVC
    BY Zenon DEF GetOrCreatePodDisruptionBudget, outsideOp, TypeOK
  <2>2. opCVC'.pdb = PDBFor(opCVC.status) /\ opCVC'.status = opCVC.status
    BY <2>1, Zenon DEF CVC
  <2>3. pdbs \subseteq pdbs' /\ opCVC'.pdb \in pdbs' \cup {{}}
    <3> DEFINE p == PDBFor(opCVC.status)
    <3>1. pdbs' = pdbs \cup ({p} \ {{}}) /\ opCVC'.pdb = p
      BY <2>1, <2>2, Zenon
    <3> HIDE DEF p
    <3> QED
      BY ONLY <3>1, Zenon
  <2> QED
    BY <2>1, <2>2, <2>3, Zenon DEF GuardInv, Guard, Pending
<1>store. CASE UpdatePDBForScaledVolume
  <2> USE <1>store
  <2>1. /\ UNCHANGED <<cvcCache, opBase, opCVC, pdbs>> /\ opAt = "store" /\ opAt' = "policy"
        /\ cvc' = IF UpdateAccepted(opCVC) THEN opCVC ELSE cvc
    BY Zenon DEF UpdatePDBForScaledVolume, outsideOp
  <2>2. Guard(opCVC) /\ opCVC.pdb \in pdbs \cup {{}} /\ opCVC.status # opBase.status
    BY <2>1, Zenon DEF GuardInv, ScaleInv, WorkInv, Pending
  <2>3. CASE UpdateAccepted(opCVC)
    <3>1. cvc' = opCVC /\ cvc' # opBase
      BY <2>1, <2>2, <2>3, Zenon
    <3> QED
      BY <2>1, <2>2, <3>1, Zenon DEF GuardInv, Guard
  <2>4. CASE ~UpdateAccepted(opCVC)
    <3>1. UNCHANGED cvc /\ cvc # opBase
      BY <2>1, <2>4, WorkerPasses, Zenon
    <3> QED
      BY <2>1, <3>1, Zenon DEF GuardInv, Guard, Pending
  <2> QED
    BY <2>3, <2>4, Zenon
<1>policy. CASE SyncPolicySpec
  <2> USE <1>policy
  <2>1. /\ UNCHANGED <<cvcCache, pdbs>> /\ opAt = "policy" /\ Release /\ opCVC \in CVC
        /\ UNCHANGED cvc \/ (cvc = opBase /\ cvc' = [opCVC EXCEPT !.hash = opCVC.spec])
    BY Zenon DEF SyncPolicySpec, UpdateAccepted, outsideOp, TypeOK
  <2>2. CASE cvc = opBase /\ cvc' = [opCVC EXCEPT !.hash = opCVC.spec]
    <3>1. opCVC.pdb = cvc.pdb /\ opCVC.status = cvc.status /\ opCVC.spec = cvc.spec
      BY <2>1, <2>2, Zenon DEF GuardInv, ScaleInv, WorkInv
    <3>2. cvc'.spec = cvc.spec /\ cvc'.status = cvc.status /\ cvc'.pdb = cvc.pdb
      BY <2>1, <2>2, <3>1, Zenon DEF CVC
    <3> QED
      BY <2>1, <3>2, ReleaseGuard, Zenon
  <2> QED
    BY <2>1, <2>2, ReleaseGuard, Zenon
<1>1. CASE Worker
  BY <1>1, <1>sync, <1>scaling, <1>delete, <1>create, <1>store, <1>policy, Zenon DEF Worker
<1>2. CASE \E pools \in SUBSET Pool : EditPools(pools)
  BY <1>2, <1>edit, Zenon
<1>3. CASE WatchCVC
  BY <1>3, Zenon DEF WatchCVC, opVars, GuardInv, Guard, Pending
<1>4. CASE CallFails \/ OperatorRestart
  <2>1. UNCHANGED <<cvc, cvcCache, pdbs>> /\ Release
    BY <1>4, Zenon DEF CallFails, OperatorRestart, Fault, outsideOp
  <2> QED
    BY <2>1, ReleaseGuard, Zenon
<1>5. CASE VolumeManager
  <2>1. UNCHANGED outsideVM
    BY <1>5, Zenon DEF VolumeManager, UpdateCStorVolumeDRF, GrowTarget, GrowConf, CheckHealth, ShrinkConf,
                       StoreFactors, ShrinkTarget, StoreSeen, HandleAdd, CreateVolumeTarget
  <2> QED
    BY <2>1, GuardKept, Zenon DEF outsideVM, opVars
<1>6. CASE \E p \in Pool : TargetServer(p)
  <2>1. UNCHANGED outsideRPC
    BY <1>6, Zenon DEF TargetServer, ServeRequest, UpdateCVWithReplicationDetails, UpdateConfig
  <2> QED
    BY <2>1, GuardKept, Zenon DEF outsideRPC, opVars
<1>7. CASE \E p \in Pool : Replica(p) \/ ReplicaDown(p)
  <2>1. UNCHANGED outsidePool
    BY <1>7, Zenon DEF Replica, PersistReplicaID, ReplicaUp, DestroyReplica, ReplicaDown
  <2> QED
    BY <2>1, GuardKept, Zenon DEF outsidePool, opVars
<1>8. CASE VolumeMgmtRestart \/ TargetRestart \/ PodRestart
  <2>1. UNCHANGED outsidePod
    BY <1>8, Zenon DEF VolumeMgmtRestart, TargetRestart, PodRestart
  <2> QED
    BY <2>1, GuardKept, Zenon DEF outsidePod, opVars
<1>9. CASE UNCHANGED vars
  BY <1>9, GuardKept, Zenon DEF vars, opVars
<1>10. CASE Late
  <2>1. UNCHANGED outsideLate
    BY <1>10, Zenon DEF Late, LateUpdate, LateConfig
  <2> QED
    BY <2>1, GuardKept, Zenon DEF outsideLate, opVars
<1> QED
  BY <1>1, <1>2, <1>3, <1>4, <1>5, <1>6, <1>7, <1>8, <1>9, <1>10, Zenon DEF Next

-----------------------------------------------------------------------------
(* The members                                                             *)

LEMMA Fields ==
  ASSUME TypeOK
  PROVE  /\ cv.drf \in Nat /\ cv.rf \in Nat /\ vmCV.drf \in Nat /\ vmCV.rf \in Nat /\ rpcReq.rf \in Nat
         /\ conf.drf \in Nat /\ conf.rf \in Nat /\ tgt.drf \in Nat /\ tgt.rf \in Nat
         /\ cv.known \in SUBSET Pool /\ cv.seen \in SUBSET Pool /\ vmCV.known \in SUBSET Pool
         /\ conf.known \in SUBSET Pool /\ tgt.known \in SUBSET Pool /\ rpcReq.id \in SUBSET Pool
<1>1. \A n \in Factor : n \in Nat
  BY DEF Factor
<1>2. cv \in CV /\ vmCV \in CV /\ rpcReq \in Request /\ conf \in Conf /\ tgt \in Target
  BY Zenon DEF TypeOK
<1> QED
  BY <1>1, <1>2, Zenon DEF CV, Request, Conf, Target

LEMMA Sizes ==
  ASSUME Counting, NEW B \in SUBSET Pool, NEW A \in SUBSET B
  PROVE  /\ Cardinality(A) \in Nat /\ Cardinality(B) \in Nat /\ Cardinality(A) <= Cardinality(B)
         /\ Cardinality(B) <= Cardinality(A) => A = B
<1>1. Cardinality(B) \in Nat /\ Cardinality(A) \in Nat
  BY Counted
<1>2. Cardinality(A) <= Cardinality(B)
  BY Zenon DEF Counting
<1> QED
  BY <1>1, <1>2, NoneMissing

LEMMA Without ==
  ASSUME Counting, NEW S \in SUBSET Pool, NEW r \in S
  PROVE  /\ Cardinality(S) \in Nat /\ Cardinality(S \ {r}) \in Nat
         /\ Cardinality(S) = Cardinality(S \ {r}) + 1
<1>1. Cardinality(S) \in Nat
  BY Counted
<1>2. Cardinality(S \ {r}) \in Nat
  BY Counted
<1>3. Cardinality(S \ {r}) = Cardinality(S) - 1
  BY Zenon DEF Counting
<1> QED
  BY <1>1, <1>2, <1>3

(* Two majorities of large enough factors meet. *)
LEMMA Majorities ==
  ASSUME Counting, NEW f \in Nat, NEW g \in Nat, NEW U \in SUBSET Pool, Covers(f, g, U)
  PROVE  Quorum(f) + Quorum(g) > Cardinality(U)
<1>1. Cardinality(U) \in Nat
  BY Counted
<1> QED
  BY <1>1 DEF Covers, Quorum

(* The pools of a volume that loses one. *)
LEMMA Halves ==
  ASSUME Counting, TypeOK, ListInv, Down
  PROVE  /\ cvc.spec \in SUBSET cvc.status /\ cvc.status \in SUBSET Pool /\ cvc.spec # cvc.status
         /\ Cardinality(cvc.spec) \in Nat /\ Cardinality(cvc.status) = Cardinality(cvc.spec) + 1
<1>1. PICK r \in cvc.status : cvc.spec = cvc.status \ {r}
  BY Zenon DEF ListInv
<1>2. cvc.status \in SUBSET Pool
  BY ListTypes, Zenon
<1> QED
  BY <1>1, <1>2, Without, Zenon

(* The CV and istgt. *)
LEMMA LatestCovers ==
  ASSUME Counting, TypeOK, MemberInv, Runs
  PROVE  Covers(cv.rf, tgt.rf, cv.known \cup tgt.known)
<1>f. cv.rf \in Nat /\ tgt.rf \in Nat /\ cv.known \in SUBSET Pool /\ tgt.known \in SUBSET Pool
  BY Fields, Zenon
<1>1. CASE ~Down
  <2>1. /\ cv.known \subseteq cvc.spec /\ Cardinality(cv.known) <= cv.rf /\ tgt.known \subseteq cv.known
        /\ Cardinality(cvc.spec) <= tgt.rf + 1
    BY <1>1, Zenon DEF MemberInv, UpInv, Reach
  <2>2. cv.known \cup tgt.known = cv.known
    BY <2>1, Zenon
  <2>3. Cardinality(cv.known) <= Cardinality(cvc.spec) /\ Cardinality(cv.known) \in Nat /\ Cardinality(cvc.spec) \in Nat
    BY <2>1, ListTypes, Sizes
  <2>4. Cardinality(cv.known \cup tgt.known) = Cardinality(cv.known)
    BY <2>2, Zenon
  <2> QED
    BY <1>f, <2>1, <2>3, <2>4 DEF Covers
<1>2. CASE Down
  <2> DEFINE n == Cardinality(cvc.spec)
             m == Cardinality(cvc.status)
  <2>1. cvc.spec \in SUBSET cvc.status /\ n \in Nat /\ m = n + 1
    BY <1>2, Halves DEF MemberInv
  <2>2. /\ cv.known \in {cvc.spec, cvc.status} /\ tgt.known \in {cvc.spec, cvc.status}
        /\ tgt.known = cvc.spec => cv.known = cvc.spec
        /\ Cardinality(tgt.known) <= tgt.rf
    BY <1>2, Zenon DEF MemberInv, DownInv
  <2>3. cv.rf >= n
    <3>1. cv.rf >= m \/ cv.rf >= n
      BY <1>2, Zenon DEF MemberInv, DownInv
    <3> HIDE DEF n, m
    <3> QED
      BY <1>f, <2>1, <3>1
  <2>4. CASE tgt.known = cvc.spec
    <3>1. cv.known \cup tgt.known = cvc.spec
      BY <2>2, <2>4, Zenon
    <3>2. Cardinality(cv.known \cup tgt.known) = n /\ n <= tgt.rf
      BY <2>2, <2>4, <3>1, Zenon
    <3> HIDE DEF n
    <3> QED
      BY <1>f, <2>1, <2>3, <3>2 DEF Covers
  <2>5. CASE tgt.known = cvc.status
    <3>1. cv.known \cup tgt.known = cvc.status
      BY <2>1, <2>2, <2>5, Zenon
    <3>2. Cardinality(cv.known \cup tgt.known) = m /\ m <= tgt.rf
      BY <2>2, <2>5, <3>1, Zenon
    <3> HIDE DEF n, m
    <3> QED
      BY <1>f, <2>1, <2>3, <3>2 DEF Covers
  <2> QED
    BY <2>2, <2>4, <2>5, Zenon
<1> QED
  BY <1>1, <1>2

LEMMA Overlap == ASSUME Counting, TypeOK, MemberInv PROVE QuorumsOverlap
<1>1. CASE ~Runs
  BY <1>1, Zenon DEF QuorumsOverlap, Runs
<1>2. CASE Runs
  <2>1. cv.cf = Quorum(cv.rf) /\ conf.cf = Quorum(conf.rf) /\ Covers(conf.rf, tgt.rf, conf.known \cup tgt.known)
    BY <1>2, Zenon DEF MemberInv, StepInv, MeetInv
  <2>2. Quorum(cv.rf) + Quorum(tgt.rf) > Cardinality(cv.known \cup tgt.known)
    BY <1>2, LatestCovers, Fields, Majorities
  <2>3. Quorum(conf.rf) + Quorum(tgt.rf) > Cardinality(conf.known \cup tgt.known)
    BY <2>1, Fields, Majorities
  <2> QED
    BY <2>1, <2>2, <2>3, Zenon DEF QuorumsOverlap
<1> QED
  BY <1>1, <1>2

(* Steps that leave all but the worker's own state alone. *)
LEMMA Unmoved ==
  ASSUME MemberInv, cvc'.spec = cvc.spec, cvc'.status = cvc.status,
         UNCHANGED <<cv, cvr, hasID, vmAt, vmCV, rpcAt, rpcReq, conf, tgt, up>>, LagInv'
  PROVE  MemberInv'
<1>0. Down' = Down /\ Runs' = Runs
  BY Zenon DEF Down, Runs
<1>1. ListInv' /\ PlaceInv' /\ AllLive'
  BY <1>0, Zenon DEF MemberInv, ListInv, PlaceInv, AllLive
<1>2. StepInv'
  BY <1>0, Zenon DEF MemberInv, StepInv
<1>3. UpInv'
  BY <1>0, Zenon DEF MemberInv, UpInv, Reach
<1>4. DownInv'
  BY <1>0, Zenon DEF MemberInv, DownInv
<1>5. JoinInv' /\ MeetInv'
  BY <1>0, Zenon DEF MemberInv, JoinInv, MeetInv, Covers
<1> QED
  BY <1>1, <1>2, <1>3, <1>4, <1>5, Zenon DEF MemberInv

(* The worker goes on, or lets go of the CVC. *)
LEMMA LagKept ==
  ASSUME MemberInv, cvc'.spec = cvc.spec, cvc'.status = cvc.status, UNCHANGED <<cvcCache, cvr>>,
         \/ opAt' = "idle"
         \/ /\ UNCHANGED opBase /\ opCVC'.status = opCVC.status /\ opAt # "idle" /\ opAt' # "lower"
            /\ opAt' = "deleteCVR" => opAt = "lower" /\ UNCHANGED opPool
  PROVE  LagInv'
BY Zenon DEF MemberInv, LagInv, SameLists, Done

LEMMA OwnMember ==
  ASSUME TypeOK, MemberInv,
         ScaleUpVolumeReplicas \/ ScaleDownVolumeReplicas \/ DeletePDBIfNotInUse \/ GetOrCreatePodDisruptionBudget
         \/ CallFails \/ OperatorRestart
  PROVE  MemberInv'
<1>1. UNCHANGED <<cvc, cvcCache, cv, cvr, hasID, vmAt, vmCV, rpcAt, rpcReq, conf, tgt, up>>
  BY Zenon DEF ScaleUpVolumeReplicas, ScaleDownVolumeReplicas, DeletePDBIfNotInUse, GetOrCreatePodDisruptionBudget,
               CallFails, OperatorRestart, cvrVars, vmVars, rpcVars, outsideOp
<1>2. opAt' = "idle" \/ (UNCHANGED opBase /\ opCVC'.status = opCVC.status /\ opAt # "idle" /\ opAt' \notin {"lower", "deleteCVR"})
  <2>1. opCVC \in CVC
    BY Zenon DEF TypeOK
  <2>2. CASE GetOrCreatePodDisruptionBudget
    BY <2>1, <2>2, Zenon DEF GetOrCreatePodDisruptionBudget, CVC
  <2>3. CASE ScaleUpVolumeReplicas \/ ScaleDownVolumeReplicas \/ DeletePDBIfNotInUse
    BY <2>3, Zenon DEF ScaleUpVolumeReplicas, ScaleDownVolumeReplicas, DeletePDBIfNotInUse
  <2>4. CASE CallFails \/ OperatorRestart
    BY <2>4, Zenon DEF CallFails, OperatorRestart, Release
  <2> QED
    BY <2>2, <2>3, <2>4, Zenon
<1> QED
  BY <1>1, <1>2, LagKept, Unmoved, Zenon

(* The status takes over the spec: the replica that was to leave has left. *)
LEMMA RestMember ==
  ASSUME Counting, TypeOK, ScaleInv, MemberInv, opAt # "idle", cvc = opBase, opCVC.status # opBase.status,
         cvc'.spec = opBase.spec, cvc'.status = opBase.spec,
         UNCHANGED <<cvcCache, cv, cvr, hasID, vmAt, vmCV, rpcAt, rpcReq, conf, tgt, up>>,
         opAt' = "idle" \/ (opAt' = "policy" /\ UNCHANGED opBase)
  PROVE  MemberInv'
<1>1. SameLists(opBase, cvc) /\ SameLists(cvcCache, cvc) /\ cv.drf = Cardinality(cvc.spec) /\ cv.known = cv.seen
  BY Zenon DEF ScaleInv, CopyInv, WorkInv, Carried, SameLists
<1>2. Done(opBase) /\ Done(cvcCache)
  <2>1. Done(opBase)
    BY Zenon DEF MemberInv, LagInv
  <2> QED
    BY <1>1, <2>1, Zenon DEF Done, SameLists
<1>3. ~Down' /\ Runs' = Runs /\ cvc'.spec = cvc.spec /\ cvc'.status = cvc.spec
  BY Zenon DEF Down, Runs
<1>4. ListInv' /\ LagInv' /\ AllLive'
  BY <1>2, <1>3, Zenon DEF MemberInv, ListInv, LagInv, Done, AllLive
<1>5. PlaceInv'
  <2>1. \A p \in Pool : cvr[p] = "live" => p \in cvc.spec
    BY <1>2, Zenon DEF MemberInv, PlaceInv, Done
  <2> QED
    BY <1>3, <2>1, Zenon DEF MemberInv, PlaceInv
<1>6. StepInv'
  BY <1>1, <1>3, Zenon DEF MemberInv, StepInv
<1>7. MeetInv' /\ JoinInv' /\ DownInv'
  BY <1>3, Zenon DEF MemberInv, MeetInv, Covers, JoinInv, DownInv
<1>8. UpInv'
  <2>1. CASE ~Down
    BY <1>3, <2>1, Zenon DEF MemberInv, UpInv, Reach
  <2>2. CASE Down
    <3>1. Cardinality(cvc.spec) \in Nat /\ Cardinality(cvc.spec) # Cardinality(cvc.status)
      BY <2>2, Halves DEF MemberInv
    <3>2. cv.known = cvc.spec /\ cv.seen = cvc.spec /\ cv.rf >= Cardinality(cvc.spec)
      BY <1>1, <2>2, <3>1, Zenon DEF MemberInv, DownInv
    <3>3. /\ conf.known \subseteq cvc.spec
          /\ vmAt = "write" => vmCV.known \subseteq cvc.spec
          /\ Runs => /\ tgt.known = cvc.spec /\ tgt.drf <= Cardinality(cvc.spec) /\ Cardinality(cvc.spec) <= tgt.rf
                     /\ tgt.rf <= cv.rf
          /\ vmAt = "write" /\ ~Runs => vmCV.known = cvc.spec /\ vmCV.rf = cv.rf /\ vmCV.drf <= Cardinality(cvc.spec)
      BY <2>2, <3>2, Zenon DEF MemberInv, DownInv
    <3>4. vmAt \in {"grow", "growConf"} => vmCV.drf <= Cardinality(cvc.spec)
      <4>1. vmAt \in {"grow", "growConf"} => Runs /\ vmCV.drf <= Cardinality(tgt.known)
        BY <2>2, Zenon DEF MemberInv, DownInv, StepInv
      <4> QED
        BY <3>3, <4>1, Zenon
    <3>5. \A f \in Nat : f >= Cardinality(cvc.spec) => Cardinality(cvc.spec) <= f + 1 /\ ~(f < Cardinality(cvc.spec))
      BY <3>1
    <3>6. Cardinality(cvc.spec) <= cv.rf /\ cv.rf \in Nat /\ tgt.rf \in Nat
      BY <3>1, <3>2, Fields
    <3>7. Reach(cvc.spec, cv.rf) /\ (Runs => Reach(cvc.spec, tgt.rf))
      <4>1. Runs => tgt.rf >= Cardinality(cvc.spec)
        BY <3>1, <3>3, <3>6
      <4> QED
        BY <3>2, <3>5, <3>6, <4>1, Zenon DEF Reach
    <3>8. Reach(cvc.spec, cv.rf)' /\ (Runs => Reach(cvc.spec, tgt.rf)')
      BY <1>3, <3>7, Zenon DEF Reach
    <3> QED
      BY <1>3, <3>2, <3>3, <3>4, <3>6, <3>8, Zenon DEF UpInv, Reach
  <2> QED
    BY <2>1, <2>2, Zenon
<1> QED
  BY <1>4, <1>5, <1>6, <1>7, <1>8, Zenon DEF MemberInv

LEMMA WorkerMember == ASSUME Counting, TypeOK, ScaleInv, MemberInv, Worker PROVE MemberInv'
<1>sync. CASE SyncCVC
  <2> USE <1>sync
  <2>1. /\ opBase' = cvcCache /\ opCVC' = cvcCache /\ opAt' \in {"up", "down", "policy"}
        /\ UNCHANGED <<cvc, cvcCache, cv, cvr, hasID, vmAt, vmCV, rpcAt, rpcReq, conf, tgt, up>>
    BY Zenon DEF SyncCVC, cvrVars, vmVars, rpcVars, outsideOp
  <2>2. LagInv'
    BY <2>1, Zenon DEF MemberInv, LagInv, SameLists, Done
  <2> QED
    BY <2>1, <2>2, Unmoved, Zenon
(* The DRF grows on the latest lists, where none leaves. *)
<1>raise. CASE RaiseDRF
  <2> USE <1>raise
  <2>1. /\ UNCHANGED <<cvc, cvcCache, cvr, hasID, vmAt, vmCV, rpcAt, rpcReq, conf, tgt, up, opBase, opCVC, opPool>>
        /\ opAt = "raise" /\ opAt' \in {"create", "policy"}
        /\ UNCHANGED cv \/ (cv = opCV /\ cv' = [cv EXCEPT !.drf = Cardinality(opCVC.spec)])
    BY Zenon DEF RaiseDRF, cvrVars, vmVars, rpcVars, outsideOp
  <2>2. LagInv'
    BY <2>1, LagKept, Zenon
  <2>3. CASE UNCHANGED cv
    BY <2>1, <2>2, <2>3, Unmoved, Zenon
  <2>4. CASE cv = opCV /\ cv' = [cv EXCEPT !.drf = Cardinality(opCVC.spec)]
    <3>1. /\ opCVC.spec = opBase.spec /\ Cardinality(opBase.spec) > Cardinality(opBase.status)
          /\ cv.drf < Cardinality(opBase.spec)
      BY <2>1, <2>4, Zenon DEF ScaleInv, WorkInv
    <3>2. cv.drf # Cardinality(opBase.spec)
      BY <3>1, Fields, ListTypes, Counted
    <3>3. SameLists(opBase, cvc) /\ opBase.status \subseteq opBase.spec
      BY <2>1, <3>1, <3>2, OnLatest, NoneLeaves, Zenon
    <3>4. ~Down /\ Down' = Down /\ Runs' = Runs
      BY <2>1, <3>3, Zenon DEF Down, SameLists, Runs
    <3>5. /\ cv'.rf = cv.rf /\ cv'.cf = cv.cf /\ cv'.known = cv.known /\ cv'.seen = cv.seen
          /\ cv'.drf = Cardinality(cvc.spec)
      BY <2>4, <3>1, <3>3, Zenon DEF TypeOK, CV, SameLists
    <3>6. cv'.drf # 0
      BY <3>5, ListTypes, Counted DEF MemberInv, ListInv
    <3>7. ListInv' /\ PlaceInv' /\ AllLive'
      BY <2>1, <3>4, <3>5, Zenon DEF MemberInv, ListInv, PlaceInv, AllLive
    <3>8. StepInv'
      BY <2>1, <3>4, <3>5, <3>6, Zenon DEF MemberInv, StepInv
    <3>9. UpInv' /\ DownInv'
      BY <2>1, <3>4, <3>5, Zenon DEF MemberInv, UpInv, DownInv, Reach
    <3>10. JoinInv' /\ MeetInv'
      BY <2>1, <3>4, <3>5, Zenon DEF MemberInv, JoinInv, MeetInv, Covers
    <3> QED
      BY <2>2, <3>7, <3>8, <3>9, <3>10, Zenon DEF MemberInv
  <2> QED
    BY <2>1, <2>3, <2>4, Zenon
(* CVRs are created for the pools of the latest list. *)
<1>create. CASE HandleVolumeReplicaCreation
  <2> USE <1>create
  <2>1. /\ UNCHANGED <<cvc, cvcCache, cv, vmAt, vmCV, rpcAt, rpcReq, conf, tgt, up, opBase, opCVC, opPool>>
        /\ opAt = "create" /\ opAt' \in {"check", "policy"}
    BY Zenon DEF HandleVolumeReplicaCreation, vmVars, rpcVars, outsideOp
  <2>2. PICK made \in SUBSET {p \in opCVC.spec \ opCVC.status : cvr[p] = "none"} :
          cvr' = [p \in Pool |-> IF p \in made THEN "live" ELSE cvr[p]] /\ hasID' = hasID \cup made
    BY Zenon DEF HandleVolumeReplicaCreation
  <2>3. /\ opCVC.spec = opBase.spec /\ opCVC.status = opBase.status
        /\ Cardinality(opBase.spec) > Cardinality(opBase.status)
    BY <2>1, Zenon DEF ScaleInv, WorkInv
  <2>t. cvr \in [Pool -> {"none", "live", "deleting"}]
    BY Zenon DEF TypeOK
  <2>4. CASE made = {}
    <3>1. UNCHANGED <<cvr, hasID>>
      BY <2>2, <2>4, <2>t, Zenon
    <3> QED
      BY <2>1, <3>1, LagKept, Unmoved, Zenon
  <2>5. CASE made # {}
    <3>1. SameLists(opBase, cvc)
      <4> SUFFICES ASSUME ~SameLists(opBase, cvc)
                   PROVE  FALSE
        BY Zenon
      <4>1. Done(opBase)
        BY <2>1, Zenon DEF MemberInv, LagInv
      <4> QED
        BY <2>2, <2>3, <2>5, <4>1, Zenon DEF Done
    <3>2. SameLists(cvcCache, cvc)
      BY <2>1, <3>1, Zenon DEF ScaleInv, CopyInv
    <3>3. opBase.status \subseteq opBase.spec
      BY <2>1, <2>3, NoneLeaves, Zenon
    <3>4. ~Down /\ Down' = Down /\ Runs' = Runs
      BY <2>1, <3>1, <3>3, Zenon DEF Down, SameLists, Runs
    <3>5. made \subseteq cvc.spec
      BY <2>2, <2>3, <3>1, Zenon DEF SameLists
    <3>6. \A p \in Pool : /\ cvr'[p] = "live" => cvr[p] = "live" \/ p \in made
                          /\ cvr'[p] = "deleting" => cvr[p] = "deleting"
                          /\ cvr'[p] = "none" => cvr[p] = "none"
                          /\ cvr[p] = "live" => cvr'[p] = "live"
      BY <2>2, <2>t, Zenon
    <3>7. /\ tgt.known \subseteq Pool /\ conf.known \subseteq Pool /\ cv.known \subseteq Pool /\ cv.seen \subseteq Pool
          /\ up \subseteq Pool /\ cvc.spec \subseteq Pool
      BY Fields, ListTypes, Zenon DEF TypeOK
    <3>8. PlaceInv'
      BY <2>1, <3>4, <3>5, <3>6, <3>7, Zenon DEF MemberInv, PlaceInv
    <3>9. AllLive'
      BY <2>1, <3>6, <3>7, Zenon DEF MemberInv, AllLive
    <3>10. LagInv'
      BY <2>1, <2>3, <3>1, <3>2, Zenon DEF LagInv, SameLists
    <3>11. JoinInv'
      BY <2>1, <3>4, <3>6, <3>7, Zenon DEF MemberInv, JoinInv
    <3>12. ListInv' /\ StepInv'
      BY <2>1, <3>4, Zenon DEF MemberInv, ListInv, StepInv
    <3>13. UpInv' /\ DownInv' /\ MeetInv'
      BY <2>1, <3>4, Zenon DEF MemberInv, UpInv, DownInv, Reach, MeetInv, Covers
    <3> QED
      BY <3>8, <3>9, <3>10, <3>11, <3>12, <3>13, Zenon DEF MemberInv
  <2> QED
    BY <2>4, <2>5, Zenon
(* The pools that go to the status have CVRs. *)
<1>check. CASE UpdateCVCWithScaledUpInfo
  <2> USE <1>check
  <2>1. /\ UNCHANGED <<cvc, cvcCache, cv, cvr, hasID, vmAt, vmCV, rpcAt, rpcReq, conf, tgt, up, opBase>>
        /\ opAt = "check" /\ opAt' \in {"deletePDB", "policy"}
        /\ UNCHANGED opCVC \/ \A p \in opCVC.spec \ opCVC.status : cvr[p] # "none"
    BY Zenon DEF UpdateCVCWithScaledUpInfo, cvrVars, vmVars, rpcVars, outsideOp
  <2>2. CASE UNCHANGED opCVC
    BY <2>1, <2>2, LagKept, Unmoved, Zenon
  <2>3. CASE \A p \in opCVC.spec \ opCVC.status : cvr[p] # "none"
    <3>1. opCVC.spec = opBase.spec /\ opCVC.status = opBase.status /\ Cardinality(opBase.spec) > Cardinality(opBase.status)
      BY <2>1, Zenon DEF ScaleInv, WorkInv
    <3>2. opBase.status \subseteq opBase.spec
      BY <2>1, <3>1, NoneLeaves, Zenon
    <3>3. Done(opBase)
      <4>1. CASE ~SameLists(opBase, cvc)
        BY <2>1, <4>1, Zenon DEF MemberInv, LagInv
      <4>2. CASE SameLists(opBase, cvc)
        <5> SUFFICES ASSUME NEW p \in opBase.spec \ opBase.status
                     PROVE  cvr[p] = "live"
          BY <3>2, Zenon DEF Done
        <5>1. p \in Pool /\ p \in cvc.spec /\ cvr[p] # "none"
          BY <2>3, <3>1, <4>2, ListTypes, Zenon DEF SameLists
        <5>2. cvr[p] \in {"none", "live", "deleting"} /\ cvr[p] # "deleting"
          BY <5>1, Zenon DEF MemberInv, PlaceInv, TypeOK
        <5> QED
          BY <5>1, <5>2, Zenon
      <4> QED
        BY <4>1, <4>2, Zenon
    <3>4. LagInv'
      BY <2>1, <3>3, Zenon DEF MemberInv, LagInv, SameLists, Done
    <3> QED
      BY <2>1, <3>4, Unmoved, Zenon
  <2> QED
    BY <2>1, <2>2, <2>3, Zenon
(* The replica to be removed has stored its id. *)
<1>find. CASE GetScaleDownCVR
  <2> USE <1>find
  <2>1. /\ UNCHANGED <<cvc, cvcCache, cv, cvr, hasID, vmAt, vmCV, rpcAt, rpcReq, conf, tgt, up, opBase, opCVC>>
        /\ opAt = "getCVR" /\ opAt' = "lower"
    BY Zenon DEF GetScaleDownCVR, cvrVars, vmVars, rpcVars, outsideOp
  <2>2. PICK p \in opCVC.status \ opCVC.spec :
          opPool' = {p} /\ (cvr[p] # "none" /\ p \in hasID => opFound' = {"object", "id"})
    BY Zenon DEF GetScaleDownCVR
  <2>3. ASSUME SameLists(opBase, cvc), cv.drf > Cardinality(cvc.spec)
        PROVE  "id" \in opFound' /\ opPool' = cvc.status \ cvc.spec
    <3>1. opCVC.spec = opBase.spec /\ opCVC.status = opBase.status
      BY <2>1, Zenon DEF ScaleInv, WorkInv
    <3>2. p \in cvc.status \ cvc.spec
      BY <2>2, <2>3, <3>1, Zenon DEF SameLists
    <3>3. Down
      BY <3>2, Zenon DEF Down
    <3>4. cv.drf # Cardinality(cvc.spec)
      BY <2>3, <3>3, Fields, Halves DEF MemberInv
    <3>5. cv.known = cvc.status /\ cvc.status \subseteq hasID
      BY <3>3, <3>4, Zenon DEF MemberInv, DownInv
    <3>6. cvr[p] = "live" /\ p \in hasID
      BY <3>2, <3>5, Zenon DEF MemberInv, AllLive
    <3>7. opPool' = cvc.status \ cvc.spec
      BY <2>2, <3>2, <3>3, Zenon DEF MemberInv, ListInv
    <3> QED
      BY <2>2, <3>6, <3>7, Zenon
  <2>4. LagInv'
    <3>1. opPool' # {}
      BY <2>2, Zenon
    <3> QED
      BY <2>1, <2>3, <3>1, Zenon DEF MemberInv, LagInv, SameLists, Done
  <2> QED
    BY <2>1, <2>4, Unmoved, Zenon
(* A volume that loses one of its replicas, before the CV does. *)
<1>lower. CASE LowerDRF
  <2> USE <1>lower
  <2>1. /\ UNCHANGED <<cvc, cvcCache, cvr, hasID, vmAt, vmCV, rpcAt, rpcReq, conf, tgt, up, opBase, opCVC, opPool>>
        /\ opAt = "lower" /\ opAt' \in {"deleteCVR", "policy"}
    BY Zenon DEF LowerDRF, AfterLower, cvrVars, vmVars, rpcVars, outsideOp
  <2>2. LagInv'
    BY <2>1, LagKept, Zenon
  <2>3. CASE UNCHANGED cv
    BY <2>1, <2>2, <2>3, Unmoved, Zenon
  <2>4. CASE /\ opCV.drf > Cardinality(opCVC.spec) /\ cv = opCV
             /\ cv' = [cv EXCEPT !.drf = Cardinality(opCVC.spec),
                                 !.known = @ \ (IF "id" \in opFound THEN opPool ELSE {})]
    <3>1. /\ opCVC.spec = opBase.spec /\ Cardinality(opBase.spec) < Cardinality(opBase.status)
      BY <2>1, Zenon DEF ScaleInv, WorkInv
    <3>2. cv.drf > Cardinality(opBase.spec) /\ cv.drf # Cardinality(opBase.spec)
      BY <2>4, <3>1, Fields, ListTypes, Counted
    <3>3. SameLists(opBase, cvc)
      BY <2>1, <3>2, OnLatest, Zenon
    <3>4. "id" \in opFound /\ opPool = cvc.status \ cvc.spec /\ cv.drf # Cardinality(cvc.spec)
      BY <2>1, <3>2, <3>3, Zenon DEF MemberInv, LagInv, SameLists
    <3>5. Down /\ Down' = Down /\ Runs' = Runs
      <4>1. Cardinality(cvc.spec) < Cardinality(cvc.status)
        BY <3>1, <3>3, Zenon DEF SameLists
      <4>2. ~(cvc.status \subseteq cvc.spec)
        BY <4>1, ListTypes, Sizes
      <4> QED
        BY <2>1, <4>2, Zenon DEF Down, Runs
    <3>6. /\ cvc.spec \in SUBSET cvc.status /\ cvc.spec # cvc.status
          /\ Cardinality(cvc.spec) \in Nat /\ Cardinality(cvc.status) = Cardinality(cvc.spec) + 1
      BY <3>5, Halves DEF MemberInv
    <3>7. /\ cv.known = cvc.status /\ cv.seen = cvc.status /\ cv.rf >= Cardinality(cvc.status)
      BY <3>4, <3>5, Zenon DEF MemberInv, DownInv
    <3>8. /\ cv'.rf = cv.rf /\ cv'.cf = cv.cf /\ cv'.known = cvc.spec /\ cv'.seen = cvc.status
          /\ cv'.drf = Cardinality(cvc.spec)
      <4>1. cv \in CV
        BY Zenon DEF TypeOK
      <4>2. cvc.status \ opPool = cvc.spec
        BY <3>4, <3>6, Zenon
      <4>3. cv' = [cv EXCEPT !.drf = Cardinality(cvc.spec), !.known = @ \ opPool]
        BY <2>4, <3>1, <3>3, <3>4, Zenon DEF SameLists
      <4> QED
        BY <3>7, <4>1, <4>2, <4>3, Zenon DEF CV
    <3>9. cv'.drf # 0
      BY <3>8, ListTypes, Counted DEF MemberInv, ListInv
    <3>10. ListInv' /\ PlaceInv' /\ AllLive'
      BY <2>1, <3>5, <3>6, <3>7, <3>8, Zenon DEF MemberInv, ListInv, PlaceInv, AllLive
    <3>11. StepInv'
      BY <2>1, <3>5, <3>7, <3>8, <3>9, Zenon DEF MemberInv, StepInv
    <3>12. cv.rf >= Cardinality(cvc.spec) /\ ~(cv.rf < Cardinality(cvc.status))
      BY <3>6, <3>7, Fields
    <3>13. DownInv'
      BY <2>1, <3>5, <3>6, <3>8, <3>12, Zenon DEF MemberInv, DownInv
    <3>14. UpInv' /\ JoinInv' /\ MeetInv'
      BY <2>1, <3>5, Zenon DEF MemberInv, UpInv, DownInv, JoinInv, MeetInv, Covers
    <3> QED
      BY <2>2, <3>10, <3>11, <3>13, <3>14, Zenon DEF MemberInv
  <2> QED
    BY <2>3, <2>4, Zenon DEF LowerDRF
(* A CVR is deleted once its replica has left. *)
<1>delete. CASE DeleteCVR
  <2> USE <1>delete
  <2>1. /\ UNCHANGED <<cvc, cvcCache, cv, hasID, vmAt, vmCV, rpcAt, rpcReq, conf, tgt, up, opBase, opPool>>
        /\ opAt = "deleteCVR" /\ opAt' \in {"deletePDB", "policy"}
    BY Zenon DEF DeleteCVR, vmVars, rpcVars, outsideOp
  <2>2. CASE UNCHANGED <<cvr, opCVC>>
    BY <2>1, <2>2, LagKept, Unmoved, Zenon
  <2>3. CASE /\ \A p \in opPool : cvr[p] # "none"
             /\ cvr' = [p \in Pool |-> IF p \in opPool THEN "deleting" ELSE cvr[p]]
             /\ opCVC' = [opCVC EXCEPT !.status = opCVC.spec]
    <3>1. /\ opCVC.spec = opBase.spec /\ Cardinality(opBase.spec) < Cardinality(opBase.status)
          /\ opPool \subseteq opBase.status \ opBase.spec /\ opPool # {}
      BY <2>1, Zenon DEF ScaleInv, WorkInv, MemberInv, LagInv
    <3>t. cvr \in [Pool -> {"none", "live", "deleting"}] /\ opPool \subseteq Pool
      BY Zenon DEF TypeOK
    <3>2. CASE ~SameLists(opBase, cvc)
      <4>1. Done(opBase)
        BY <2>1, <3>2, Zenon DEF MemberInv, LagInv
      <4>2. \A p \in opPool : cvr[p] = "deleting"
        BY <2>3, <3>1, <3>t, <4>1, Zenon DEF Done
      <4>3. UNCHANGED cvr
        BY <2>3, <3>t, <4>2, Zenon
      <4>4. LagInv'
        BY <2>1, <4>1, <4>3, Zenon DEF MemberInv, LagInv, SameLists, Done
      <4> QED
        BY <2>1, <4>3, <4>4, Unmoved, Zenon
    <3>3. CASE SameLists(opBase, cvc)
      <4>1. SameLists(cvcCache, cvc) /\ cv.drf = Cardinality(cvc.spec) /\ cv.known = cv.seen
        BY <2>1, <3>3, Zenon DEF ScaleInv, CopyInv, WorkInv, Carried, SameLists
      <4>2. Down /\ Down' = Down /\ Runs' = Runs
        <5>1. Cardinality(cvc.spec) < Cardinality(cvc.status)
          BY <3>1, <3>3, Zenon DEF SameLists
        <5>2. ~(cvc.status \subseteq cvc.spec)
          BY <5>1, ListTypes, Sizes
        <5> QED
          BY <2>1, <5>2, Zenon DEF Down, Runs
      <4>3. /\ cvc.spec \in SUBSET cvc.status /\ cvc.spec # cvc.status
            /\ Cardinality(cvc.spec) # Cardinality(cvc.status)
        BY <4>2, Halves DEF MemberInv
      <4>4. cv.known = cvc.spec /\ cv.seen = cvc.spec
        BY <4>1, <4>2, <4>3, Zenon DEF MemberInv, DownInv
      <4>5. conf.known \subseteq cvc.spec /\ (Runs => tgt.known = cvc.spec) /\ tgt.known \subseteq cvc.spec
        <5>1. conf.known \subseteq cvc.spec /\ (Runs => tgt.known = cvc.spec)
          BY <4>2, <4>4, Zenon DEF MemberInv, DownInv
        <5>2. CASE ~Runs
          <6>1. tgt = StartedFrom(NoConf)
            BY <5>2, Zenon DEF MemberInv, StepInv
          <6>2. tgt.known = {}
            BY <6>1, Zenon DEF StartedFrom, NoConf
          <6> QED
            BY <5>1, <5>2, <6>2, Zenon
        <5> QED
          BY <5>1, <5>2, Zenon
      <4>6. opPool = cvc.status \ cvc.spec
        BY <3>1, <3>3, <4>2, Zenon DEF MemberInv, ListInv, SameLists
      <4>7. \A p \in Pool : /\ cvr'[p] = "live" => cvr[p] = "live"
                            /\ cvr'[p] = "deleting" => cvr[p] = "deleting" \/ p \in opPool
                            /\ cvr'[p] = "none" => cvr[p] = "none"
                            /\ cvr[p] = "live" /\ p \notin opPool => cvr'[p] = "live"
                            /\ p \in opPool => cvr'[p] = "deleting"
        BY <2>3, <3>t, Zenon
      <4>8. cvc.spec \subseteq Pool /\ cvc.status \subseteq Pool /\ up \subseteq Pool
        BY ListTypes, Zenon DEF TypeOK
      <4>9. PlaceInv'
        BY <2>1, <4>2, <4>3, <4>4, <4>5, <4>6, <4>7, <4>8, Zenon DEF MemberInv, PlaceInv
      <4>10. AllLive'
        BY <2>1, <4>4, <4>5, <4>6, <4>7, <4>8, Zenon DEF MemberInv, AllLive
      <4>11. LagInv'
        BY <2>1, <3>1, <3>3, <4>1, <4>3, <4>6, <4>7, <4>8, Zenon DEF LagInv, SameLists, Done
      <4>12. ListInv' /\ StepInv' /\ JoinInv'
        BY <2>1, <4>2, Zenon DEF MemberInv, ListInv, StepInv, DownInv, JoinInv
      <4>13. UpInv' /\ MeetInv'
        BY <2>1, <4>2, Zenon DEF MemberInv, UpInv, MeetInv, Covers
      <4>14. DownInv'
        BY <2>1, <4>2, Zenon DEF MemberInv, DownInv
      <4> QED
        BY <4>9, <4>10, <4>11, <4>12, <4>13, <4>14, Zenon DEF MemberInv
    <3> QED
      BY <3>2, <3>3, Zenon
  <2> QED
    BY <2>2, <2>3, Zenon DEF DeleteCVR
<1>store. CASE UpdatePDBForScaledVolume
  <2> USE <1>store
  <2>1. /\ UNCHANGED <<cvcCache, cv, cvr, hasID, vmAt, vmCV, rpcAt, rpcReq, conf, tgt, up, opBase, opCVC>>
        /\ opAt = "store" /\ opAt' = "policy"
        /\ UNCHANGED cvc \/ (cvc = opBase /\ cvc' = opCVC)
    BY Zenon DEF UpdatePDBForScaledVolume, UpdateAccepted, cvrVars, vmVars, rpcVars, outsideOp
  <2>2. opCVC.spec = opBase.spec /\ opCVC.status = opBase.spec /\ opCVC.status # opBase.status
    BY <2>1, Zenon DEF ScaleInv, WorkInv, Pending
  <2>3. CASE UNCHANGED cvc
    BY <2>1, <2>3, LagKept, Unmoved, Zenon
  <2>4. CASE cvc = opBase /\ cvc' = opCVC
    BY <2>1, <2>2, <2>4, RestMember, Zenon
  <2> QED
    BY <2>1, <2>3, <2>4, Zenon
<1>policy. CASE SyncPolicySpec
  <2> USE <1>policy
  <2>1. /\ UNCHANGED <<cvcCache, cv, cvr, hasID, vmAt, vmCV, rpcAt, rpcReq, conf, tgt, up>>
        /\ opAt = "policy" /\ opAt' = "idle" /\ opCVC \in CVC
        /\ UNCHANGED cvc \/ (cvc = opBase /\ cvc' = [opCVC EXCEPT !.hash = opCVC.spec])
    BY Zenon DEF SyncPolicySpec, Release, UpdateAccepted, cvrVars, vmVars, rpcVars, outsideOp, TypeOK
  <2>2. opCVC.spec = opBase.spec /\ (opCVC.status # opBase.status => opCVC.status = opBase.spec)
    BY <2>1, Zenon DEF ScaleInv, WorkInv
  <2>3. CASE UNCHANGED cvc
    BY <2>1, <2>3, LagKept, Unmoved, Zenon
  <2>4. CASE cvc = opBase /\ cvc' = [opCVC EXCEPT !.hash = opCVC.spec]
    <3>1. cvc'.spec = opBase.spec /\ cvc'.status = opCVC.status
      BY <2>1, <2>2, <2>4, Zenon DEF CVC
    <3>2. CASE opCVC.status = opBase.status
      BY <2>1, <2>4, <3>1, <3>2, LagKept, Unmoved, Zenon
    <3>3. CASE opCVC.status # opBase.status
      BY <2>1, <2>2, <2>4, <3>1, <3>3, RestMember, Zenon
    <3> QED
      BY <3>2, <3>3, Zenon
  <2> QED
    BY <2>1, <2>3, <2>4, Zenon
<1> QED
  BY OwnMember, <1>sync, <1>raise, <1>create, <1>check, <1>find, <1>lower, <1>delete, <1>store, <1>policy, Zenon
     DEF Worker, ScaleUp, ScaleDown

LEMMA AtMostOne ==
  ASSUME Counting, NEW A \in SUBSET Pool, Cardinality(A) <= 1, NEW x \in A
  PROVE  A = {x}
<1>1. Cardinality(A) \in Nat /\ Cardinality(A \ {x}) \in Nat /\ Cardinality(A) = Cardinality(A \ {x}) + 1
  BY Without
<1>2. Cardinality(A \ {x}) = 0
  BY <1>1
<1>3. A \ {x} = {}
  BY <1>2, Counted
<1> QED
  BY <1>3, Zenon

(* An edit finds every replica admitted, and adds one or takes one out. *)
LEMMA EditedOne ==
  ASSUME Counting, TypeOK, ScaleInv, MemberInv, Orderly, NEW pools \in SUBSET Pool, EditPools(pools)
  PROVE  /\ Runs /\ rpcAt = "idle" /\ ~Down /\ \A p \in Pool : cvr[p] # "deleting"
         /\ tgt.known = cvc.spec /\ cv.known = cvc.spec /\ cv.seen = cvc.spec /\ cvc.spec \subseteq hasID
         /\ cv.drf = Cardinality(cvc.spec)
         /\ \/ \E q \in pools : cvc.spec = pools \ {q}
            \/ \E r \in cvc.spec : pools = cvc.spec \ {r}
<1>1. /\ pools # {} /\ pools # cvc.spec /\ cvc.spec = cvc.status /\ Cardinality(pools \ cvc.spec) <= 1
      /\ \A p \in Pool : cvr[p] # "deleting"
      /\ pools \ cvc.spec # {} => AllHealthy
      /\ cvc.spec \ pools # {} => AllHealthy
  BY Zenon DEF EditPools, Disciplined, Orderly
<1>t. cvc.spec \in SUBSET Pool
  BY ListTypes, Zenon
<1>2. cvc.spec \subseteq tgt.known /\ cvc.spec \subseteq hasID /\ cvc.spec # {}
  <2>1. AllHealthy
    BY <1>1, Zenon
  <2> QED
    BY <1>1, <2>1, Zenon DEF AllHealthy, MemberInv, ListInv
<1>3. Runs
  <2> SUFFICES ASSUME ~Runs
               PROVE  FALSE
    BY Zenon
  <2>1. tgt = StartedFrom(NoConf)
    BY Zenon DEF MemberInv, StepInv
  <2>2. tgt.known = {}
    BY <2>1, Zenon DEF StartedFrom, NoConf
  <2> QED
    BY <1>2, <2>2, Zenon
<1>4. ~Down
  BY <1>1, Zenon DEF Down
<1>5. tgt.known = cvc.spec /\ cv.known = cvc.spec
  BY <1>2, <1>3, <1>4, Zenon DEF MemberInv, UpInv
<1>6. cv.seen = cvc.spec /\ cv.drf = Cardinality(cvc.spec)
  BY <1>1, <1>5, Zenon DEF ScaleInv, DRFInv, DepartureIsRequested
<1>7. rpcAt = "idle"
  BY <1>5, Zenon DEF MemberInv, JoinInv
<1>8. \/ \E q \in pools : cvc.spec = pools \ {q}
      \/ \E r \in cvc.spec : pools = cvc.spec \ {r}
  <2>0. ValidatePoolListChanges(cvc, [cvc EXCEPT !.spec = pools]) /\ cvc \in CVC
    BY Zenon DEF EditPools, ValidateCVCSpecChanges, TypeOK
  <2>1. IF Cardinality(pools) >= Cardinality(cvc.spec) THEN cvc.spec \ pools = {} ELSE Cardinality(cvc.spec \ pools) <= 1
    BY <1>1, <2>0, Zenon DEF ValidatePoolListChanges, CVC
  <2>2. CASE cvc.spec \subseteq pools
    <3>1. PICK q \in pools \ cvc.spec : TRUE
      BY <1>1, <2>2, Zenon
    <3>2. pools \ cvc.spec = {q}
      BY <1>1, <3>1, AtMostOne
    <3>3. cvc.spec = pools \ {q}
      BY <2>2, <3>2, Zenon
    <3> QED
      BY <3>1, <3>3, Zenon
  <2>3. CASE ~(cvc.spec \subseteq pools)
    <3>1. PICK r \in cvc.spec : r \notin pools
      BY <2>3, Zenon
    <3>2. ~(Cardinality(pools) >= Cardinality(cvc.spec)) /\ Cardinality(cvc.spec \ pools) <= 1
      BY <2>1, <3>1, Zenon
    <3>3. cvc.spec \ pools = {r}
      <4>1. cvc.spec \ pools \in SUBSET Pool /\ r \in cvc.spec \ pools
        BY <1>t, <3>1, Zenon
      <4> QED
        BY <3>2, <4>1, AtMostOne, Zenon
    <3>4. cvc.spec \ {r} \in SUBSET pools
      BY <3>3, Zenon
    <3>5. Cardinality(cvc.spec) = Cardinality(cvc.spec \ {r}) + 1 /\ Cardinality(cvc.spec) \in Nat
          /\ Cardinality(cvc.spec \ {r}) \in Nat /\ Cardinality(pools) \in Nat
      BY <1>t, <3>1, Without, Counted
    <3>6. Cardinality(pools) <= Cardinality(cvc.spec \ {r})
      BY <3>2, <3>5
    <3>7. pools = cvc.spec \ {r}
      BY <3>4, <3>6, Sizes
    <3> QED
      BY <3>7, Zenon
  <2> QED
    BY <2>2, <2>3, Zenon
<1> QED
  BY <1>1, <1>2, <1>3, <1>4, <1>5, <1>6, <1>7, <1>8, Zenon

-----------------------------------------------------------------------------
(* The members: the volume manager                                         *)

(* What holds of the CVC, its copies and the CVRs when the volume manager or the target server works. *)
LEMMA ServedMember ==
  ASSUME MemberInv, cv'.drf = cv.drf,
         UNCHANGED <<cvc, cvcCache, cvr, up, opAt, opBase, opCVC, opFound, opPool>>
  PROVE  ListInv' /\ LagInv' /\ Down' = Down
<1>1. Down' = Down
  BY Zenon DEF Down
<1> QED
  BY <1>1, Zenon DEF MemberInv, ListInv, LagInv, SameLists, Done

LEMMA OutsideManager ==
  ASSUME VolumeManager
  PROVE  UNCHANGED <<cvc, cvcCache, cvr, hasID, up, opAt, opBase, opCVC, opFound, opPool, rpcAt, rpcReq>>
<1>1. UNCHANGED outsideVM
  BY Zenon DEF VolumeManager, UpdateCStorVolumeDRF, GrowTarget, GrowConf, CheckHealth, ShrinkConf,
               StoreFactors, ShrinkTarget, StoreSeen, HandleAdd, CreateVolumeTarget
<1> QED
  BY <1>1, Zenon DEF outsideVM, cvrVars, opVars, rpcVars

(* The volume manager is done with an event, or its write has failed. *)
LEMMA ManagerDone ==
  ASSUME MemberInv, UNCHANGED <<cvc, cvcCache, cvr, hasID, up, opAt, opBase, opCVC, opFound, opPool, rpcAt, rpcReq>>,
         UNCHANGED <<cv, conf, tgt>>, vmAt' = "idle"
  PROVE  MemberInv'
<1>1. ListInv' /\ LagInv' /\ Down' = Down /\ Runs' = Runs
  BY ServedMember, Zenon DEF Runs
<1>2. PlaceInv' /\ AllLive' /\ StepInv'
  BY <1>1, Zenon DEF MemberInv, PlaceInv, AllLive, StepInv
<1>3. UpInv' /\ JoinInv'
  BY <1>1, Zenon DEF MemberInv, UpInv, Reach, JoinInv
<1>4. DownInv' /\ MeetInv'
  BY <1>1, Zenon DEF MemberInv, DownInv, MeetInv, Covers
<1> QED
  BY <1>1, <1>2, <1>3, <1>4, Zenon DEF MemberInv

(* While the volume manager shrinks the volume, one replica is on its way out. *)
LEMMA Shrinks ==
  ASSUME Counting, TypeOK, ScaleInv, MemberInv, vmAt \in {"health", "shrinkConf", "factors", "shrink", "seen"}
  PROVE  /\ Down /\ Runs /\ vmCV = cv
         /\ cv.known = cvc.spec /\ cv.seen = cvc.status /\ cv.drf = Cardinality(cvc.spec) /\ cv.rf >= cv.drf
         /\ cvc.spec \in SUBSET cvc.status /\ cvc.spec # cvc.status
         /\ Cardinality(cvc.spec) \in Nat /\ Cardinality(cvc.status) = Cardinality(cvc.spec) + 1
         /\ tgt.known \in {cvc.spec, cvc.status} /\ Cardinality(tgt.known) <= tgt.rf
         /\ Cardinality(cvc.spec) <= tgt.rf
<1>1. Down /\ Runs /\ vmCV = cv /\ cv.known # cv.seen
  BY Zenon DEF MemberInv, StepInv
<1>2. /\ cvc.spec \in SUBSET cvc.status /\ cvc.spec # cvc.status
      /\ Cardinality(cvc.spec) \in Nat /\ Cardinality(cvc.status) = Cardinality(cvc.spec) + 1
  BY <1>1, Halves DEF MemberInv
<1>3. /\ cv.known = cvc.spec /\ cv.seen = cvc.status /\ cv.drf = Cardinality(cvc.spec)
      /\ cv.rf >= Cardinality(cvc.spec)
      /\ tgt.known \in {cvc.spec, cvc.status} /\ Cardinality(tgt.known) <= tgt.rf
  <2>1. tgt.known \in {cvc.spec, cvc.status} /\ Cardinality(tgt.known) <= tgt.rf
    BY <1>1, Zenon DEF MemberInv, DownInv
  <2>2. \/ cv.known = cvc.status /\ cv.seen = cvc.status
        \/ /\ cv.known = cvc.spec /\ cv.seen \in {cvc.spec, cvc.status} /\ cv.drf = Cardinality(cvc.spec)
           /\ cv.rf >= Cardinality(cvc.spec)
    BY <1>1, Zenon DEF MemberInv, DownInv
  <2>3. cv.known = cvc.spec /\ cv.seen = cvc.status
    BY <1>1, <2>2
  <2>4. cv.drf = Cardinality(cvc.spec) /\ cv.rf >= Cardinality(cvc.spec)
    BY <1>1, <2>2, <2>3, Zenon
  <2> QED
    BY <2>1, <2>3, <2>4, Zenon
<1>4. Cardinality(tgt.known) \in {Cardinality(cvc.spec), Cardinality(cvc.status)}
  BY <1>3, Zenon
<1>5. Cardinality(cvc.spec) <= tgt.rf
  BY <1>2, <1>3, <1>4, Fields
<1> QED
  BY <1>1, <1>2, <1>3, <1>5, Zenon

(* While no pool is on its way out, the CV does not want more replicas than the spec lists. *)
LEMMA LatestDRF == ASSUME Counting, TypeOK, ScaleInv, ~Down PROVE cv.drf <= Cardinality(cvc.spec)
<1>1. cvc.status \in SUBSET cvc.spec
  BY Zenon DEF Down
<1>2. Cardinality(cvc.status) <= Cardinality(cvc.spec) /\ Cardinality(cvc.spec) \in Nat
  BY <1>1, ListTypes, Sizes
<1>3. cv.drf = Cardinality(cvc.status) \/ cv.drf = Cardinality(cvc.spec)
  BY Zenon DEF ScaleInv, DRFInv
<1> QED
  BY <1>2, <1>3

(* While a pool is on its way out, the latest CV is one the target can be started from. *)
LEMMA LatestDown ==
  ASSUME Counting, TypeOK, MemberInv, Down
  PROVE  /\ cv.known \in {cvc.spec, cvc.status} /\ cv.known \subseteq cvc.status
         /\ cv.drf <= Cardinality(cv.known) /\ Cardinality(cv.known) <= cv.rf
         /\ cv.seen = cvc.spec => cv.known = cvc.spec
         /\ cv.rf >= Cardinality(cvc.spec)
         /\ cv.rf < Cardinality(cvc.status) => cv.known = cvc.spec
<1>1. /\ cvc.spec \in SUBSET cvc.status /\ cvc.spec # cvc.status
      /\ Cardinality(cvc.spec) \in Nat /\ Cardinality(cvc.status) = Cardinality(cvc.spec) + 1
  BY Halves DEF MemberInv
<1>2. \/ /\ cv.known = cvc.status /\ cv.seen = cvc.status /\ cv.drf = Cardinality(cvc.status)
         /\ cv.rf >= Cardinality(cvc.status)
      \/ /\ cv.known = cvc.spec /\ cv.drf = Cardinality(cvc.spec) /\ cv.rf >= Cardinality(cvc.spec)
  BY Zenon DEF MemberInv, DownInv
<1>3. CASE /\ cv.known = cvc.status /\ cv.seen = cvc.status /\ cv.drf = Cardinality(cvc.status)
           /\ cv.rf >= Cardinality(cvc.status)
  <2>1. cv.drf <= Cardinality(cv.known) /\ Cardinality(cv.known) <= cv.rf
    BY <1>1, <1>3, Fields
  <2>2. cv.rf >= Cardinality(cvc.spec) /\ ~(cv.rf < Cardinality(cvc.status))
    BY <1>1, <1>3, Fields
  <2> QED
    BY <1>1, <1>3, <2>1, <2>2, Zenon
<1>4. CASE cv.known = cvc.spec /\ cv.drf = Cardinality(cvc.spec) /\ cv.rf >= Cardinality(cvc.spec)
  <2>1. cv.drf <= Cardinality(cv.known) /\ Cardinality(cv.known) <= cv.rf
    BY <1>1, <1>4, Fields
  <2> QED
    BY <1>1, <1>4, <2>1, Zenon
<1> QED
  BY <1>2, <1>3, <1>4, Zenon

(* The replicas the volume manager is about to write into istgt.conf are live. *)
LEMMA WrittenLive ==
  ASSUME MemberInv, vmAt = "write"
  PROVE  \A p \in vmCV.known : cvr[p] = "live"
<1>1. CASE ~Down
  BY <1>1, Zenon DEF MemberInv, UpInv, AllLive
<1>2. CASE Down
  <2>1. vmCV.known \subseteq cvc.status
    BY <1>2, Zenon DEF MemberInv, DownInv
  <2>2. cv.rf < Cardinality(cvc.status) => vmCV.known \subseteq cvc.spec
    BY <1>2, Zenon DEF MemberInv, DownInv
  <2>3. cv.seen = cvc.spec => cv.rf < Cardinality(cvc.status)
    BY <1>2, Zenon DEF MemberInv, DownInv
  <2>4. cv.seen \in {cvc.spec, cvc.status}
    BY <1>2, Zenon DEF MemberInv, DownInv
  <2>5. vmCV.known \subseteq cv.seen
    BY <2>1, <2>2, <2>3, <2>4, Zenon
  <2> QED
    BY <2>5, Zenon DEF MemberInv, AllLive
<1> QED
  BY <1>1, <1>2, Zenon

LEMMA ManagerMember == ASSUME Counting, TypeOK, ScaleInv, MemberInv, VolumeManager PROVE MemberInv'
<1>begin. CASE UpdateCStorVolumeDRF
  <2> USE <1>begin
  <2>0. UNCHANGED <<cvc, cvcCache, cvr, hasID, up, opAt, opBase, opCVC, opFound, opPool, rpcAt, rpcReq>>
    BY OutsideManager, Zenon DEF VolumeManager
  <2>1. /\ vmAt = "idle" /\ conf.drf # 0 /\ vmCV' = cv /\ UNCHANGED <<cv, conf, tgt>>
        /\ \/ Cardinality(cv.known) < Cardinality(cv.seen) /\ vmAt' = "health"
           \/ Cardinality(cv.known) = Cardinality(cv.seen) /\ vmAt' = "grow"
    BY Zenon DEF UpdateCStorVolumeDRF, IsDRFPending
  <2>2. Runs
    <3>1. NoConf.drf = 0
      BY DEF NoConf
    <3>2. ~Runs => conf = NoConf
      BY Zenon DEF MemberInv, StepInv
    <3> QED
      BY <2>1, <3>1, <3>2, Zenon
  <2>3. ListInv' /\ LagInv' /\ Down' = Down /\ Runs'
    BY <2>0, <2>1, <2>2, ServedMember, Zenon DEF Runs
  <2>4. PlaceInv' /\ AllLive' /\ JoinInv' /\ MeetInv'
    BY <2>0, <2>1, <2>2, <2>3, Zenon DEF MemberInv, PlaceInv, AllLive, JoinInv, MeetInv, Covers
  <2>5. cv.known \in SUBSET cv.seen /\ cv.seen \in SUBSET Pool
    BY Fields, Zenon DEF ScaleInv, DepartureIsRequested
  <2>6. CASE Cardinality(cv.known) < Cardinality(cv.seen) /\ vmAt' = "health"
    <3>1. cv.known # cv.seen
      BY <2>5, <2>6, Sizes
    <3>2. Down
      BY <2>5, <3>1, Zenon DEF ScaleInv, DepartureIsRequested, Down
    <3>3. StepInv'
      BY <2>0, <2>1, <2>2, <2>3, <2>6, <3>1, <3>2, Zenon DEF MemberInv, StepInv
    <3>4. UpInv' /\ DownInv'
      BY <2>0, <2>1, <2>2, <2>3, <2>6, <3>2, Zenon DEF MemberInv, UpInv, DownInv
    <3> QED
      BY <2>3, <2>4, <3>3, <3>4, Zenon DEF MemberInv
  <2>7. CASE Cardinality(cv.known) = Cardinality(cv.seen) /\ vmAt' = "grow"
    <3>1. cv.known = cv.seen
      BY <2>5, <2>7, Sizes
    <3>2. StepInv'
      BY <2>0, <2>1, <2>2, <2>3, <2>7, Zenon DEF MemberInv, StepInv
    <3>3. ~Down => cv.drf <= Cardinality(cvc.spec)
      <4> SUFFICES ASSUME ~Down
                   PROVE  cv.drf <= Cardinality(cvc.spec)
        BY Zenon
      <4>1. cvc.status \in SUBSET cvc.spec
        BY Zenon DEF Down
      <4>2. Cardinality(cvc.status) <= Cardinality(cvc.spec) /\ Cardinality(cvc.spec) \in Nat
        BY <4>1, ListTypes, Sizes
      <4>3. cv.drf = Cardinality(cvc.status) \/ cv.drf = Cardinality(cvc.spec)
        BY Zenon DEF ScaleInv, DRFInv
      <4> QED
        BY <4>2, <4>3
    <3>4. UpInv'
      BY <2>0, <2>1, <2>2, <2>3, <2>7, <3>3, Zenon DEF MemberInv, UpInv, Reach
    <3>5. Down => cv.drf <= Cardinality(tgt.known)
      <4> SUFFICES ASSUME Down
                   PROVE  cv.drf <= Cardinality(tgt.known)
        BY Zenon
      <4>1. cvc.spec \in SUBSET cvc.status /\ cvc.status \in SUBSET Pool /\ cvc.spec # cvc.status
        BY Halves DEF MemberInv
      <4>2. /\ Cardinality(cvc.spec) \in Nat /\ Cardinality(cvc.status) \in Nat
        BY <4>1, Sizes
      <4>3. cv.drf = Cardinality(tgt.known)
        BY <2>2, <3>1, <4>1, Zenon DEF MemberInv, DownInv
      <4> QED
        BY <4>3, Fields
    <3>6. DownInv'
      BY <2>0, <2>1, <2>2, <2>3, <2>7, <3>5, Zenon DEF MemberInv, DownInv
    <3> QED
      BY <2>3, <2>4, <3>2, <3>4, <3>6, Zenon DEF MemberInv
  <2> QED
    BY <2>1, <2>6, <2>7, Zenon
<1>grow. CASE GrowTarget
  <2> USE <1>grow
  <2>0. UNCHANGED <<cvc, cvcCache, cvr, hasID, up, opAt, opBase, opCVC, opFound, opPool, rpcAt, rpcReq>>
    BY OutsideManager, Zenon DEF VolumeManager
  <2>1. /\ vmAt = "grow" /\ UNCHANGED <<cv, conf>>
        /\ \/ UNCHANGED tgt /\ vmAt' = "idle"
           \/ tgt' = [tgt EXCEPT !.drf = vmCV.drf] /\ vmAt' = "growConf" /\ UNCHANGED vmCV
    BY Zenon DEF GrowTarget, VMDone
  <2>2. CASE UNCHANGED tgt /\ vmAt' = "idle"
    BY <2>0, <2>1, <2>2, ManagerDone, Zenon
  <2>3. CASE tgt' = [tgt EXCEPT !.drf = vmCV.drf] /\ vmAt' = "growConf" /\ UNCHANGED vmCV
    <3>1. tgt'.drf = vmCV.drf /\ tgt'.rf = tgt.rf /\ tgt'.known = tgt.known
      BY <2>3, Zenon DEF TypeOK, Target
    <3>2. Runs /\ vmCV.drf # 0
      BY <2>1, Zenon DEF MemberInv, StepInv
    <3>3. ListInv' /\ LagInv' /\ Down' = Down /\ Runs'
      BY <2>0, <2>1, <3>1, <3>2, ServedMember, Zenon DEF Runs
    <3>4. PlaceInv' /\ AllLive' /\ StepInv'
      BY <2>0, <2>1, <2>3, <3>1, <3>2, <3>3, Zenon DEF MemberInv, PlaceInv, AllLive, StepInv
    <3>5. UpInv'
      BY <2>0, <2>1, <2>3, <3>1, <3>2, <3>3, Zenon DEF MemberInv, UpInv, Reach
    <3>6. DownInv'
      BY <2>0, <2>1, <2>3, <3>1, <3>2, <3>3, Zenon DEF MemberInv, DownInv
    <3>7. JoinInv' /\ MeetInv'
      BY <2>0, <2>1, <2>3, <3>1, <3>2, <3>3, Zenon DEF MemberInv, JoinInv, MeetInv, Covers
    <3> QED
      BY <3>3, <3>4, <3>5, <3>6, <3>7, Zenon DEF MemberInv
  <2> QED
    BY <2>1, <2>2, <2>3, Zenon
<1>growConf. CASE GrowConf
  <2> USE <1>growConf
  <2>0. UNCHANGED <<cvc, cvcCache, cvr, hasID, up, opAt, opBase, opCVC, opFound, opPool, rpcAt, rpcReq>>
    BY OutsideManager, Zenon DEF VolumeManager
  <2>1. /\ vmAt = "growConf" /\ vmAt' = "idle" /\ UNCHANGED <<cv, tgt>>
        /\ UNCHANGED conf \/ conf' = [conf EXCEPT !.drf = vmCV.drf]
    BY Zenon DEF GrowConf, VMDone
  <2>2. CASE UNCHANGED conf
    BY <2>0, <2>1, <2>2, ManagerDone, Zenon
  <2>3. CASE conf' = [conf EXCEPT !.drf = vmCV.drf]
    <3>1. conf'.drf = vmCV.drf /\ conf'.rf = conf.rf /\ conf'.cf = conf.cf /\ conf'.known = conf.known
      BY <2>3, Zenon DEF TypeOK, Conf
    <3>2. Runs /\ vmCV.drf # 0
      BY <2>1, Zenon DEF MemberInv, StepInv
    <3>3. ListInv' /\ LagInv' /\ Down' = Down /\ Runs'
      BY <2>0, <2>1, <3>2, ServedMember, Zenon DEF Runs
    <3>4. PlaceInv' /\ AllLive' /\ StepInv'
      BY <2>0, <2>1, <3>1, <3>2, <3>3, Zenon DEF MemberInv, PlaceInv, AllLive, StepInv
    <3>5. UpInv'
      BY <2>0, <2>1, <3>1, <3>2, <3>3, Zenon DEF MemberInv, UpInv, Reach
    <3>6. DownInv'
      BY <2>0, <2>1, <3>1, <3>2, <3>3, Zenon DEF MemberInv, DownInv
    <3>7. JoinInv' /\ MeetInv'
      BY <2>0, <2>1, <3>1, <3>2, <3>3, Zenon DEF MemberInv, JoinInv, MeetInv, Covers
    <3> QED
      BY <3>3, <3>4, <3>5, <3>6, <3>7, Zenon DEF MemberInv
  <2> QED
    BY <2>1, <2>2, <2>3, Zenon
<1>health. CASE CheckHealth
  <2> USE <1>health
  <2>0. UNCHANGED <<cvc, cvcCache, cvr, hasID, up, opAt, opBase, opCVC, opFound, opPool, rpcAt, rpcReq>>
    BY OutsideManager, Zenon DEF VolumeManager
  <2>1. /\ vmAt = "health" /\ UNCHANGED <<cv, conf, tgt>>
        /\ \/ vmAt' = "idle"
           \/ UNCHANGED vmCV /\ vmAt' = "shrinkConf"
           \/ UNCHANGED vmCV /\ vmAt' = "shrink" /\ ~(vmCV.drf < vmCV.rf)
    BY Zenon DEF CheckHealth, VMDone
  <2>2. CASE vmAt' = "idle"
    BY <2>0, <2>1, <2>2, ManagerDone, Zenon
  <2>3. CASE UNCHANGED vmCV /\ vmAt' \in {"shrinkConf", "shrink"} /\ (vmAt' = "shrink" => ~(vmCV.drf < vmCV.rf))
    <3>1. Down /\ Runs /\ vmCV = cv
      BY <2>1, Shrinks, Zenon
    <3>2. vmAt' = "shrink" => cv.rf <= cv.drf
      BY <2>3, <3>1, Fields
    <3>3. ListInv' /\ LagInv' /\ Down' = Down /\ Runs'
      BY <2>0, <2>1, <3>1, ServedMember, Zenon DEF Runs
    <3>4. PlaceInv' /\ AllLive' /\ StepInv'
      BY <2>0, <2>1, <2>3, <3>1, <3>2, <3>3, Zenon DEF MemberInv, PlaceInv, AllLive, StepInv
    <3>5. UpInv' /\ JoinInv' /\ MeetInv'
      BY <2>0, <2>1, <2>3, <3>1, <3>3, Zenon DEF MemberInv, UpInv, DownInv, JoinInv, MeetInv, Covers
    <3>6. DownInv'
      BY <2>0, <2>1, <2>3, <3>1, <3>3, Zenon DEF MemberInv, DownInv
    <3> QED
      BY <3>3, <3>4, <3>5, <3>6, Zenon DEF MemberInv
  <2> QED
    BY <2>1, <2>2, <2>3, Zenon
<1>shrinkConf. CASE ShrinkConf
  <2> USE <1>shrinkConf
  <2>0. UNCHANGED <<cvc, cvcCache, cvr, hasID, up, opAt, opBase, opCVC, opFound, opPool, rpcAt, rpcReq>>
    BY OutsideManager, Zenon DEF VolumeManager
  <2>1. vmAt = "shrinkConf" /\ UNCHANGED <<cv, tgt>>
    BY Zenon DEF ShrinkConf
  <2>2. CASE UNCHANGED conf /\ vmAt' = "idle"
    BY <2>0, <2>1, <2>2, ManagerDone, Zenon
  <2>3. CASE /\ vmAt' = "factors" /\ UNCHANGED vmCV
             /\ \E p \in vmCV.seen \ vmCV.known :
                  conf' = [drf |-> vmCV.drf, rf |-> vmCV.drf, cf |-> Quorum(vmCV.drf), known |-> conf.known \ {p}]
    <3>1. /\ Down /\ Runs /\ vmCV = cv
          /\ cv.known = cvc.spec /\ cv.seen = cvc.status /\ cv.drf = Cardinality(cvc.spec)
          /\ cvc.spec \in SUBSET cvc.status /\ cvc.spec # cvc.status
          /\ Cardinality(cvc.spec) \in Nat /\ Cardinality(cvc.status) = Cardinality(cvc.spec) + 1
          /\ tgt.known \in {cvc.spec, cvc.status} /\ Cardinality(tgt.known) <= tgt.rf
      BY <2>1, Shrinks
    <3>p. PICK p \in vmCV.seen \ vmCV.known :
            conf' = [drf |-> vmCV.drf, rf |-> vmCV.drf, cf |-> Quorum(vmCV.drf), known |-> conf.known \ {p}]
      BY <2>3, Zenon
    <3>q. p \in cvc.status \ cvc.spec
      BY <3>1, <3>p, Zenon
    <3>2. /\ conf'.drf = cv.drf /\ conf'.rf = cv.drf /\ conf'.cf = Quorum(cv.drf) /\ conf'.known = conf.known \ {p}
      BY <3>1, <3>p
    <3>3. ListInv' /\ LagInv' /\ Down' = Down /\ Runs'
      BY <2>0, <2>1, <3>1, ServedMember, Zenon DEF Runs
    <3>4. conf'.known \subseteq cvc.spec /\ conf'.known \subseteq conf.known
      <4>1. cvc.spec = cvc.status \ {p}
        BY <3>1, <3>q, Zenon DEF MemberInv, ListInv
      <4>2. conf.known \subseteq cvc.status
        BY <3>1, Zenon DEF MemberInv, DownInv
      <4> QED
        BY <3>2, <4>1, <4>2, Zenon
    <3>5. cv.drf # 0 /\ conf'.rf >= Cardinality(cvc.spec)
      BY <3>1, <3>2 DEF MemberInv, StepInv
    <3>6. PlaceInv' /\ AllLive' /\ StepInv'
      BY <2>0, <2>1, <2>3, <3>1, <3>2, <3>3, <3>4, <3>5, Zenon DEF MemberInv, PlaceInv, AllLive, StepInv
    <3>7. UpInv' /\ JoinInv'
      BY <2>0, <2>1, <2>3, <3>1, <3>3, Zenon DEF MemberInv, UpInv, DownInv, JoinInv
    <3>8. DownInv'
      BY <2>0, <2>1, <2>3, <3>1, <3>3, <3>4, <3>5, Zenon DEF MemberInv, DownInv
    <3>9. Covers(conf'.rf, tgt.rf, conf'.known \cup tgt.known)
      <4>1. conf'.known \cup tgt.known = tgt.known
        BY <3>1, <3>4, Zenon
      <4>2. Cardinality(conf'.known \cup tgt.known) = Cardinality(tgt.known) /\ conf'.rf = Cardinality(cvc.spec)
        BY <3>1, <3>2, <4>1, Zenon
      <4>3. Cardinality(tgt.known) \in {Cardinality(cvc.spec), Cardinality(cvc.status)}
        BY <3>1, Zenon
      <4> QED
        BY <3>1, <4>2, <4>3, Fields DEF Covers
    <3>10. MeetInv'
      BY <2>1, <2>3, <3>9, Zenon DEF MeetInv, Covers
    <3> QED
      BY <3>3, <3>6, <3>7, <3>8, <3>10, Zenon DEF MemberInv
  <2> QED
    BY <2>2, <2>3, Zenon DEF ShrinkConf, VMDone
<1>factors. CASE StoreFactors
  <2> USE <1>factors
  <2>0. UNCHANGED <<cvc, cvcCache, cvr, hasID, up, opAt, opBase, opCVC, opFound, opPool, rpcAt, rpcReq>>
    BY OutsideManager, Zenon DEF VolumeManager
  <2>1. vmAt = "factors" /\ UNCHANGED <<conf, tgt>>
    BY Zenon DEF StoreFactors
  <2>2. CASE UNCHANGED cv /\ vmAt' = "idle"
    BY <2>0, <2>1, <2>2, ManagerDone, Zenon
  <2>3. CASE cv' = WithFactors(cv) /\ vmCV' = cv' /\ vmAt' = "shrink"
    <3>1. /\ Down /\ Runs
          /\ cv.known = cvc.spec /\ cv.seen = cvc.status /\ cv.drf = Cardinality(cvc.spec)
          /\ cvc.spec # cvc.status /\ cv.drf \in Nat
          /\ Cardinality(cvc.status) = Cardinality(cvc.spec) + 1
      BY <2>1, Shrinks, Fields
    <3>2. /\ cv'.drf = cv.drf /\ cv'.rf = cv.drf /\ cv'.cf = Quorum(cv'.rf)
          /\ cv'.known = cv.known /\ cv'.seen = cv.seen
      <4>1. cv' = [cv EXCEPT !.rf = cv.drf, !.cf = Quorum(cv.drf)]
        BY <2>3, Zenon DEF WithFactors
      <4> QED
        BY <4>1, Zenon DEF TypeOK, CV
    <3>3. ListInv' /\ LagInv' /\ Down' = Down /\ Runs'
      BY <2>0, <2>1, <3>1, <3>2, ServedMember, Zenon DEF Runs
    <3>4. /\ cv'.rf <= cv'.drf /\ cv'.rf >= Cardinality(cvc.spec)
      BY <3>1, <3>2
    <3>5. PlaceInv' /\ AllLive' /\ MeetInv' /\ JoinInv' /\ UpInv'
      BY <2>0, <2>1, <2>3, <3>1, <3>2, <3>3, Zenon
         DEF MemberInv, PlaceInv, AllLive, MeetInv, JoinInv, UpInv, DownInv, Covers
    <3>6. StepInv'
      BY <2>0, <2>1, <2>3, <3>1, <3>2, <3>3, <3>4, Zenon DEF MemberInv, StepInv
    <3>7. conf.known \subseteq cvc.spec /\ conf.rf >= Cardinality(cvc.spec)
      BY <2>1, Zenon DEF MemberInv, StepInv
    <3>8. DownInv'
      BY <2>0, <2>1, <2>3, <3>1, <3>2, <3>3, <3>4, <3>7, Zenon DEF MemberInv, DownInv
    <3> QED
      BY <3>3, <3>5, <3>6, <3>8, Zenon DEF MemberInv
  <2> QED
    BY <2>2, <2>3, Zenon DEF StoreFactors, VMDone
<1>shrink. CASE ShrinkTarget
  <2> USE <1>shrink
  <2>0. UNCHANGED <<cvc, cvcCache, cvr, hasID, up, opAt, opBase, opCVC, opFound, opPool, rpcAt, rpcReq>>
    BY OutsideManager, Zenon DEF VolumeManager
  <2>1. vmAt = "shrink" /\ UNCHANGED <<cv, conf>>
    BY Zenon DEF ShrinkTarget
  <2>2. CASE UNCHANGED tgt /\ vmAt' = "idle"
    BY <2>0, <2>1, <2>2, ManagerDone, Zenon
  <2>3. CASE /\ tgt' = [drf |-> vmCV.drf, rf |-> IF tgt.rf > vmCV.drf THEN vmCV.drf ELSE tgt.rf,
                        known |-> tgt.known \cap vmCV.known]
             /\ vmAt' = "seen" /\ UNCHANGED vmCV
    <3>1. /\ Down /\ Runs /\ vmCV = cv
          /\ cv.known = cvc.spec /\ cv.seen = cvc.status /\ cv.drf = Cardinality(cvc.spec)
          /\ cvc.spec # cvc.status /\ cv.drf \in Nat
          /\ Cardinality(cvc.status) = Cardinality(cvc.spec) + 1 /\ cv.rf >= cv.drf
          /\ cvc.spec \in SUBSET cvc.status
          /\ tgt.known \in {cvc.spec, cvc.status} /\ Cardinality(cvc.spec) <= tgt.rf
      BY <2>1, Shrinks, Fields
    <3>2. cv.rf <= cv.drf
      BY <2>1, Zenon DEF MemberInv, StepInv
    <3>3. /\ cv.rf = cv.drf /\ cv.rf < Cardinality(cvc.status)
      BY <3>1, <3>2, Fields
    <3>4. tgt'.drf = cv.drf /\ tgt'.rf = cv.drf /\ tgt'.known = cvc.spec
      <4>1. /\ tgt'.drf = vmCV.drf /\ tgt'.known = tgt.known \cap vmCV.known
            /\ tgt'.rf = IF tgt.rf > vmCV.drf THEN vmCV.drf ELSE tgt.rf
        BY <2>3
      <4>2. tgt.known \cap cvc.spec = cvc.spec
        BY <3>1
      <4>3. tgt'.rf = cv.drf
        BY <3>1, <4>1, Fields
      <4> QED
        BY <3>1, <4>1, <4>2, <4>3
    <3>5. cv.drf # 0
      BY Zenon DEF MemberInv, StepInv
    <3>6. ListInv' /\ LagInv' /\ Down' = Down /\ Runs'
      BY <2>0, <2>1, <3>1, <3>4, <3>5, ServedMember, Zenon DEF Runs
    <3>7. PlaceInv' /\ JoinInv' /\ UpInv'
      BY <2>0, <2>1, <2>3, <3>1, <3>4, <3>6, Zenon DEF MemberInv, PlaceInv, JoinInv, UpInv, DownInv
    <3>8. AllLive'
      BY <2>0, <2>1, <3>1, <3>4, <3>6, Zenon DEF MemberInv, AllLive
    <3>9. /\ tgt'.drf <= Cardinality(tgt'.known) /\ Cardinality(tgt'.known) <= tgt'.rf /\ tgt'.rf <= cv.rf
      BY <3>1, <3>3, <3>4
    <3>10. StepInv'
      BY <2>0, <2>1, <2>3, <3>1, <3>2, <3>4, <3>6, <3>9, Zenon DEF MemberInv, StepInv
    <3>11. conf.known \subseteq cvc.spec /\ conf.rf >= Cardinality(cvc.spec)
      BY <3>1, <3>3, Zenon DEF MemberInv, DownInv
    <3>12. DownInv'
      BY <2>0, <2>1, <2>3, <3>1, <3>4, <3>6, <3>9, <3>11, Zenon DEF MemberInv, DownInv
    <3>13. Covers(conf.rf, tgt'.rf, conf.known \cup tgt'.known)
      <4>1. conf.known \cup tgt'.known = cvc.spec
        BY <3>4, <3>11, Zenon
      <4>2. 2 * Cardinality(cvc.spec) <= conf.rf + tgt'.rf + 1
        BY <3>1, <3>4, <3>11, Fields
      <4> QED
        BY <4>1, <4>2, Zenon DEF Covers
    <3>14. MeetInv'
      BY <2>1, <2>3, <3>13, Zenon DEF MeetInv, Covers
    <3> QED
      BY <3>6, <3>7, <3>8, <3>10, <3>12, <3>14, Zenon DEF MemberInv
  <2> QED
    BY <2>2, <2>3, Zenon DEF ShrinkTarget, VMDone
<1>seen. CASE StoreSeen
  <2> USE <1>seen
  <2>0. UNCHANGED <<cvc, cvcCache, cvr, hasID, up, opAt, opBase, opCVC, opFound, opPool, rpcAt, rpcReq>>
    BY OutsideManager, Zenon DEF VolumeManager
  <2>1. vmAt = "seen" /\ UNCHANGED <<conf, tgt>> /\ vmAt' = "idle"
    BY Zenon DEF StoreSeen, VMDone
  <2>2. CASE UNCHANGED cv
    BY <2>0, <2>1, <2>2, ManagerDone, Zenon
  <2>3. CASE cv' = [cv EXCEPT !.seen = cv.known]
    <3>1. /\ Down /\ Runs
          /\ cv.known = cvc.spec /\ cv.seen = cvc.status /\ cv.drf = Cardinality(cvc.spec)
          /\ cvc.spec # cvc.status /\ cv.drf \in Nat /\ cv.rf >= Cardinality(cvc.spec)
          /\ Cardinality(cvc.status) = Cardinality(cvc.spec) + 1
      BY <2>1, Shrinks, Fields
    <3>2. /\ cv'.drf = cv.drf /\ cv'.rf = cv.rf /\ cv'.cf = cv.cf
          /\ cv'.known = cvc.spec /\ cv'.seen = cvc.spec
      BY <2>3, <3>1, Zenon DEF TypeOK, CV
    <3>3. cv.rf <= cv.drf /\ tgt.known = cvc.spec /\ tgt.rf <= cv.rf
      BY <2>1, Zenon DEF MemberInv, StepInv
    <3>4. cv.rf < Cardinality(cvc.status)
      BY <3>1, <3>3, Fields
    <3>5. ListInv' /\ LagInv' /\ Down' = Down /\ Runs'
      BY <2>0, <2>1, <3>1, <3>2, ServedMember, Zenon DEF Runs
    <3>6. PlaceInv'
      BY <2>0, <2>1, <3>1, <3>2, <3>5, Zenon DEF MemberInv, PlaceInv
    <3>7. AllLive'
      BY <2>0, <2>1, <3>1, <3>2, <3>5, Zenon DEF MemberInv, AllLive
    <3>8. MeetInv' /\ JoinInv' /\ UpInv' /\ StepInv'
      BY <2>0, <2>1, <3>1, <3>2, <3>5, Zenon DEF MemberInv, MeetInv, JoinInv, UpInv, DownInv, StepInv, Covers
    <3>9. DownInv'
      BY <2>0, <2>1, <3>1, <3>2, <3>3, <3>4, <3>5, Zenon DEF MemberInv, DownInv
    <3> QED
      BY <3>5, <3>6, <3>7, <3>8, <3>9, Zenon DEF MemberInv
  <2> QED
    BY <2>2, <2>3, Zenon DEF StoreSeen
<1>add. CASE HandleAdd
  <2> USE <1>add
  <2>0. UNCHANGED <<cvc, cvcCache, cvr, hasID, up, opAt, opBase, opCVC, opFound, opPool, rpcAt, rpcReq>>
    BY OutsideManager, Zenon DEF VolumeManager
  <2>1. vmAt' = "write" /\ vmCV' = cv /\ UNCHANGED <<cv, conf, tgt>>
    BY Zenon DEF HandleAdd
  <2>2. ListInv' /\ LagInv' /\ Down' = Down /\ Runs' = Runs
    BY <2>0, <2>1, ServedMember, Zenon DEF Runs
  <2>3. PlaceInv' /\ AllLive' /\ StepInv'
    BY <2>0, <2>1, <2>2, Zenon DEF MemberInv, PlaceInv, AllLive, StepInv
  <2>4. ~Down => cv.drf <= Cardinality(cvc.spec)
    BY LatestDRF, Zenon
  <2>5. UpInv'
    BY <2>0, <2>1, <2>2, <2>4, Zenon DEF MemberInv, UpInv, Reach
  <2>6. Down => /\ cv.known \in {cvc.spec, cvc.status} /\ cv.known \subseteq cvc.status
                /\ cv.drf <= Cardinality(cv.known) /\ Cardinality(cv.known) <= cv.rf
                /\ cv.seen = cvc.spec => cv.known = cvc.spec
                /\ cv.rf >= Cardinality(cvc.spec)
                /\ cv.rf < Cardinality(cvc.status) => cv.known = cvc.spec
    BY LatestDown, Zenon
  <2>7. DownInv'
    <3>1. Down => /\ vmCV'.known \subseteq cvc.status
                  /\ cv.rf < Cardinality(cvc.status) =>
                       vmCV'.known \subseteq cvc.spec /\ vmCV'.rf >= Cardinality(cvc.spec)
      BY <2>1, <2>6, Zenon
    <3>2. Down => /\ vmCV'.known \in {cvc.spec, cvc.status}
                  /\ vmCV'.known = cvc.spec => cv.known = cvc.spec
                  /\ vmCV'.drf <= Cardinality(vmCV'.known) /\ Cardinality(vmCV'.known) <= vmCV'.rf
                  /\ cv.seen = cvc.spec => vmCV'.known = cvc.spec /\ vmCV'.rf = cv.rf
      BY <2>1, <2>6, Zenon
    <3> QED
      BY <2>0, <2>1, <2>2, <3>1, <3>2, Zenon DEF MemberInv, DownInv
  <2>8. ~Down /\ Runs => Cardinality(cvc.spec) <= cv.rf + 1
    <3> SUFFICES ASSUME ~Down, Runs
                 PROVE  Cardinality(cvc.spec) <= cv.rf + 1
      BY Zenon
    <3>1. Cardinality(cvc.spec) <= tgt.rf + 1 /\ tgt.rf <= cv.rf
      BY Zenon DEF MemberInv, UpInv, Reach
    <3>2. Cardinality(cvc.spec) \in Nat
      BY ListTypes, Sizes
    <3> QED
      BY <3>1, <3>2, Fields
  <2>9. JoinInv'
    BY <2>0, <2>1, <2>2, <2>8, Zenon DEF MemberInv, JoinInv, StepInv
  <2>10. MeetInv'
    <3>1. Runs => Covers(cv.rf, tgt.rf, cv.known \cup tgt.known)
      BY LatestCovers, Zenon
    <3>2. Down /\ Runs => tgt.drf <= Cardinality(tgt.known)
      BY Zenon DEF MemberInv, DownInv
    <3> QED
      BY <2>0, <2>1, <2>2, <2>8, <3>1, <3>2, Zenon DEF MemberInv, MeetInv, Covers
  <2> QED
    BY <2>2, <2>3, <2>5, <2>7, <2>9, <2>10, Zenon DEF MemberInv
<1>write. CASE CreateVolumeTarget
  <2> USE <1>write
  <2>0. UNCHANGED <<cvc, cvcCache, cvr, hasID, up, opAt, opBase, opCVC, opFound, opPool, rpcAt, rpcReq>>
    BY OutsideManager, Zenon DEF VolumeManager
  <2>1. /\ vmAt = "write" /\ UNCHANGED cv /\ vmAt' = "idle"
        /\ tgt' = IF tgt.drf = 0 THEN StartedFrom(conf') ELSE tgt
        /\ conf' = ConfOf(vmCV) \/ UNCHANGED conf
    BY Zenon DEF CreateVolumeTarget, VMDone
  <2>2. CASE UNCHANGED conf
    <3>1. ~Runs => conf = NoConf /\ tgt = StartedFrom(NoConf)
      BY Zenon DEF MemberInv, StepInv
    <3>2. UNCHANGED tgt
      BY <2>1, <2>2, <3>1, Zenon DEF Runs
    <3> QED
      BY <2>0, <2>1, <2>2, <3>2, ManagerDone, Zenon
  <2>3. CASE conf' = ConfOf(vmCV)
    <3>1. conf'.drf = vmCV.drf /\ conf'.rf = vmCV.rf /\ conf'.cf = vmCV.cf /\ conf'.known = vmCV.known
      BY <2>3 DEF ConfOf
    <3>2. vmCV.drf # 0 /\ vmCV.cf = Quorum(vmCV.rf)
      BY <2>1, Zenon DEF MemberInv, StepInv
    <3>3. \A p \in vmCV.known : cvr[p] = "live"
      BY <2>1, WrittenLive, Zenon
    <3>4. CASE Runs
      <4>1. UNCHANGED tgt
        BY <2>1, <3>4, Zenon DEF Runs
      <4>2. ListInv' /\ LagInv' /\ Down' = Down /\ Runs'
        BY <2>0, <2>1, <3>4, <4>1, ServedMember, Zenon DEF Runs
      <4>s. StepInv'
        BY <2>0, <2>1, <3>1, <3>2, <4>1, <4>2, Zenon DEF MemberInv, StepInv
      <4>m. AllLive'
        BY <2>0, <2>1, <3>1, <3>3, <4>1, Zenon DEF MemberInv, AllLive
      <4>3. PlaceInv'
        BY <2>0, <2>1, <3>4, <4>1, <4>2, Zenon DEF MemberInv, PlaceInv
      <4>4. UpInv'
        BY <2>0, <2>1, <3>1, <3>4, <4>1, <4>2, Zenon DEF MemberInv, UpInv, Reach
      <4>5. DownInv'
        <5>1. Down => /\ conf'.known \subseteq cvc.status
                      /\ cv.rf < Cardinality(cvc.status) =>
                           conf'.known \subseteq cvc.spec /\ conf'.rf >= Cardinality(cvc.spec)
          BY <2>1, <3>1, Zenon DEF MemberInv, DownInv
        <5> QED
          BY <2>0, <2>1, <3>4, <4>1, <4>2, <5>1, Zenon DEF MemberInv, DownInv
      <4>6. JoinInv' /\ MeetInv'
        BY <2>0, <2>1, <3>1, <3>4, <4>1, <4>2, Zenon DEF MemberInv, JoinInv, MeetInv, Covers
      <4> QED
        BY <4>2, <4>3, <4>4, <4>5, <4>6, <4>m, <4>s, Zenon DEF MemberInv
    <3>5. CASE ~Runs
      <4>1. tgt'.drf = vmCV.drf /\ tgt'.rf = vmCV.rf /\ tgt'.known = vmCV.known
        <5>1. tgt' = StartedFrom(conf')
          BY <2>1, <3>5, Zenon DEF Runs
        <5>2. tgt'.drf = conf'.drf /\ tgt'.rf = conf'.rf /\ tgt'.known = conf'.known
          BY <5>1 DEF StartedFrom
        <5> QED
          BY <3>1, <5>2, Zenon
      <4>2. ListInv' /\ LagInv' /\ Down' = Down /\ Runs' /\ rpcAt = "idle"
        BY <2>0, <2>1, <3>2, <3>5, <4>1, ServedMember, Zenon DEF Runs, MemberInv, StepInv
      <4>3. AllLive' /\ StepInv'
        BY <2>0, <2>1, <3>1, <3>2, <3>3, <4>1, <4>2, Zenon DEF MemberInv, AllLive, StepInv
      <4>4. PlaceInv'
        <5>1. cv.known = cvc.spec /\ cv.seen = cvc.spec => vmCV.known = cvc.spec
          BY <2>1, <3>5, Zenon DEF MemberInv, UpInv, DownInv
        <5> QED
          BY <2>0, <2>1, <4>1, <4>2, <5>1, Zenon DEF MemberInv, PlaceInv
      <4>5. UpInv'
        <5>1. ~Down => /\ vmCV.known = cv.known /\ vmCV.rf = cv.rf /\ vmCV.drf <= Cardinality(cvc.spec)
                       /\ Cardinality(cv.known) <= cv.rf /\ Reach(cv.known, cv.rf)
          BY <2>1, <3>5, Zenon DEF MemberInv, UpInv
        <5>2. cv.rf <= cv.rf
          BY Fields
        <5>3. ~Down => /\ tgt'.known \subseteq cv.known /\ Cardinality(tgt'.known) <= tgt'.rf
                       /\ tgt'.rf <= cv.rf /\ tgt'.drf <= Cardinality(cvc.spec)
                       /\ Reach(tgt'.known, tgt'.rf) /\ conf'.known \subseteq cv.known
          BY <3>1, <4>1, <5>1, <5>2, Zenon
        <5> QED
          BY <2>0, <2>1, <4>2, <5>3, Zenon DEF MemberInv, UpInv, Reach
      <4>6. DownInv'
        <5>1. cv.rf <= cv.rf
          BY Fields
        <5>2. Down => /\ tgt'.known \in {cvc.spec, cvc.status}
                      /\ tgt'.known = cvc.spec => cv.known = cvc.spec
                      /\ tgt'.drf <= Cardinality(tgt'.known) /\ Cardinality(tgt'.known) <= tgt'.rf
                      /\ cv.seen = cvc.spec => tgt'.known = cvc.spec /\ tgt'.rf <= cv.rf
          BY <2>1, <3>5, <4>1, <5>1, Zenon DEF MemberInv, DownInv
        <5> QED
          BY <2>0, <2>1, <3>1, <4>2, <5>2, Zenon DEF MemberInv, DownInv
      <4>7. MeetInv'
        <5>1. Cardinality(vmCV.known) <= vmCV.rf
          BY <2>1, <3>5, Zenon DEF MemberInv, UpInv, DownInv
        <5>2. Cardinality(vmCV.known) \in Nat
          BY Fields, Sizes
        <5>3. 2 * Cardinality(vmCV.known) <= vmCV.rf + vmCV.rf + 1
          BY <5>1, <5>2, Fields
        <5>4. conf'.known \cup tgt'.known = vmCV.known
          BY <3>1, <4>1, Zenon
        <5> QED
          BY <2>1, <3>1, <4>1, <5>3, <5>4, Zenon DEF MeetInv, Covers
      <4>8. JoinInv'
        BY <2>0, <4>2, Zenon DEF JoinInv
      <4> QED
        BY <4>2, <4>3, <4>4, <4>5, <4>6, <4>7, <4>8, Zenon DEF MemberInv
    <3> QED
      BY <3>4, <3>5, Zenon
  <2> QED
    BY <2>1, <2>2, <2>3, Zenon
<1> QED
  BY <1>begin, <1>grow, <1>growConf, <1>health, <1>shrinkConf, <1>factors, <1>shrink,
     <1>seen, <1>add, <1>write, Zenon DEF VolumeManager

(* The target server gives its request up, alone or with the volume manager's process. *)
LEMMA ServerDone ==
  ASSUME MemberInv, UNCHANGED <<cvc, cvcCache, cvr, hasID, up, opAt, opBase, opCVC, opFound, opPool>>,
         UNCHANGED <<cv, conf, tgt>>, UNCHANGED <<vmAt, vmCV>> \/ vmAt' = "down", rpcAt' = "idle"
  PROVE  MemberInv'
<1>1. ListInv' /\ LagInv' /\ Down' = Down /\ Runs' = Runs
  BY ServedMember, Zenon DEF Runs
<1>2. PlaceInv' /\ AllLive' /\ JoinInv'
  BY <1>1, Zenon DEF MemberInv, PlaceInv, AllLive, JoinInv
<1>3. StepInv'
  BY <1>1, Zenon DEF MemberInv, StepInv
<1>4. UpInv'
  BY <1>1, Zenon DEF MemberInv, UpInv, Reach
<1>5. DownInv'
  BY <1>1, Zenon DEF MemberInv, DownInv
<1>6. MeetInv'
  BY <1>1, Zenon DEF MemberInv, MeetInv, Covers
<1> QED
  BY <1>1, <1>2, <1>3, <1>4, <1>5, <1>6, Zenon DEF MemberInv

(* The replica whose request the target server handles is one that joins. *)
LEMMA Joins ==
  ASSUME TypeOK, MemberInv, rpcAt # "idle"
  PROVE  /\ ~Down /\ Runs
         /\ vmAt \notin {"health", "shrinkConf", "factors", "shrink", "seen"}
         /\ \A p \in Pool : cvr[p] # "deleting"
         /\ rpcReq.id \subseteq cvc.spec /\ \A p \in rpcReq.id : cvr[p] = "live"
         /\ rpcReq.rf >= Cardinality(cvc.spec) /\ rpcReq.rf >= tgt.rf
         /\ rpcReq.cf = Quorum(rpcReq.rf)
<1>1. ~Down /\ Runs
  BY Zenon DEF MemberInv, JoinInv, StepInv
<1>2. PICK p \in cvc.spec \ tgt.known : rpcReq.id = {p} /\ cvr[p] = "live"
  BY Zenon DEF MemberInv, JoinInv
<1>3. \A q \in Pool : cvr[q] # "deleting"
  BY <1>1, <1>2, Zenon DEF MemberInv, PlaceInv
<1>4. vmAt \notin {"health", "shrinkConf", "factors", "shrink", "seen"}
  BY <1>1, Zenon DEF MemberInv, StepInv
<1>5. /\ rpcReq.rf >= Cardinality(cvc.spec) /\ rpcReq.rf >= tgt.rf
      /\ rpcReq.cf = Quorum(rpcReq.rf)
  BY Zenon DEF MemberInv, JoinInv
<1>6. rpcReq.id \subseteq cvc.spec /\ \A q \in rpcReq.id : cvr[q] = "live"
  BY <1>2, Zenon
<1> QED
  BY <1>1, <1>3, <1>4, <1>5, <1>6, Zenon

LEMMA ServerMember == ASSUME Counting, TypeOK, ScaleInv, MemberInv, NEW p \in Pool, TargetServer(p) PROVE MemberInv'
<1>request. CASE ServeRequest(p)
  <2> USE <1>request
  <2>0. UNCHANGED <<cvc, cvcCache, cvr, hasID, up, opAt, opBase, opCVC, opFound, opPool, vmAt, vmCV, cv, conf, tgt>>
    BY Zenon DEF ServeRequest, outsideRPC, cvrVars, opVars, vmVars
  <2>1. /\ rpcAt' = "update" /\ rpcReq' = RequestFor(p)
        /\ p \in up \ tgt.known /\ Cardinality(tgt.known) < tgt.drf
    BY Zenon DEF ServeRequest
  <2> DEFINE n == Cardinality(tgt.known \cup {p})
             rf == IF n > tgt.rf THEN n ELSE tgt.rf
  <2>2. /\ rpcReq'.id = {p} /\ rpcReq'.rf = rf /\ rpcReq'.cf = Quorum(rf)
    <3>1. rpcReq' = [id |-> {p}, rf |-> rf, cf |-> Quorum(rf)]
      BY <2>1, Zenon DEF RequestFor
    <3> HIDE DEF rf
    <3> QED
      BY <3>1
  <2>3. Cardinality(tgt.known) \in Nat /\ Cardinality(cvc.spec) \in Nat /\ n \in Nat
    BY Fields, ListTypes, Sizes
  <2>4. Runs /\ ~(tgt.drf <= Cardinality(tgt.known))
    BY <2>1, <2>3, Fields DEF Runs
  <2>5. ~Down
    BY <2>4, Zenon DEF MemberInv, DownInv
  <2>6. /\ tgt.known \subseteq cvc.spec /\ tgt.drf <= Cardinality(cvc.spec)
        /\ tgt.rf < Cardinality(cvc.spec) => \E q \in cvc.spec : cvc.spec \ {q} \subseteq tgt.known
    BY <2>4, <2>5, Zenon DEF MemberInv, UpInv, Reach
  <2>7. cvr[p] = "live"
    <3>1. tgt.known # cvc.spec
      BY <2>4, <2>6, Zenon
    <3>2. cvr[p] # "deleting" /\ cvr[p] # "none"
      BY <2>1, <2>4, <3>1, Zenon DEF MemberInv, PlaceInv
    <3>3. cvr[p] \in {"none", "live", "deleting"}
      BY Zenon DEF TypeOK
    <3> QED
      BY <3>2, <3>3, Zenon
  <2>8. p \in cvc.spec \ tgt.known
    BY <2>1, <2>5, <2>7, Zenon DEF MemberInv, PlaceInv, Down
  <2>9. rf >= tgt.rf
    BY <2>3, Fields
  <2>10. rf >= Cardinality(cvc.spec)
    <3>1. CASE tgt.rf >= Cardinality(cvc.spec)
      BY <2>3, <3>1, Fields
    <3>2. CASE tgt.rf < Cardinality(cvc.spec)
      <4>1. PICK q \in cvc.spec : cvc.spec \ {q} \subseteq tgt.known
        BY <2>6, <3>2, Zenon
      <4>2. q = p
        BY <2>8, <4>1, Zenon
      <4>3. cvc.spec \in SUBSET (tgt.known \cup {p}) /\ tgt.known \cup {p} \in SUBSET Pool
        BY <4>1, <4>2, Fields
      <4>4. Cardinality(cvc.spec) <= n
        BY <4>3, Sizes
      <4> QED
        BY <2>3, <3>2, <4>4, Fields
    <3> QED
      BY <2>3, <3>1, <3>2, Fields
  <2> HIDE DEF rf, n
  <2>11. vmAt = "write" => Cardinality(cvc.spec) <= vmCV.rf + 1
    BY <2>4, Zenon DEF MemberInv, MeetInv
  <2>12. ListInv' /\ LagInv' /\ Down' = Down /\ Runs' = Runs
    BY <2>0, ServedMember, Zenon DEF Runs
  <2>13. JoinInv'
    <3>1. rpcReq'.id = {p} /\ cvr[p] = "live" /\ rpcReq'.cf = Quorum(rpcReq'.rf)
      BY <2>2, <2>7, Zenon
    <3>2. rpcReq'.rf >= Cardinality(cvc.spec) /\ rpcReq'.rf >= tgt.rf
      BY <2>2, <2>9, <2>10, Zenon
    <3> QED
      BY <2>0, <2>1, <2>2, <2>5, <2>8, <2>11, <2>12, <3>1, <3>2, Zenon DEF JoinInv
  <2>14. PlaceInv' /\ AllLive' /\ StepInv'
    BY <2>0, <2>1, <2>4, <2>12, Zenon DEF MemberInv, PlaceInv, AllLive, StepInv
  <2>15. UpInv' /\ DownInv'
    BY <2>0, <2>5, <2>12, Zenon DEF MemberInv, UpInv, DownInv, Reach
  <2>16. MeetInv'
    BY <2>0, <2>12, Zenon DEF MemberInv, MeetInv, Covers
  <2> QED
    BY <2>12, <2>13, <2>14, <2>15, <2>16, Zenon DEF MemberInv
<1>details. CASE UpdateCVWithReplicationDetails
  <2> USE <1>details
  <2>0. UNCHANGED <<cvc, cvcCache, cvr, hasID, up, opAt, opBase, opCVC, opFound, opPool, vmAt, vmCV, conf, tgt>>
    BY Zenon DEF UpdateCVWithReplicationDetails, outsideRPC, cvrVars, opVars, vmVars
  <2>1. CASE UNCHANGED cv /\ rpcAt' = "idle"
    BY <2>0, <2>1, ServerDone, Zenon
  <2>2. CASE /\ cv' = [cv EXCEPT !.rf = rpcReq.rf, !.cf = rpcReq.cf,
                                 !.known = @ \cup rpcReq.id, !.seen = @ \cup rpcReq.id]
             /\ rpcAt' = "conf" /\ UNCHANGED rpcReq
    <3>0. rpcAt # "idle"
      BY Zenon DEF UpdateCVWithReplicationDetails
    <3>1. /\ ~Down /\ Runs
          /\ vmAt \notin {"health", "shrinkConf", "factors", "shrink", "seen"}
          /\ \A q \in Pool : cvr[q] # "deleting"
          /\ rpcReq.id \subseteq cvc.spec /\ \A q \in rpcReq.id : cvr[q] = "live"
          /\ rpcReq.rf >= Cardinality(cvc.spec) /\ rpcReq.rf >= tgt.rf
          /\ rpcReq.cf = Quorum(rpcReq.rf)
      BY <3>0, Joins, Zenon
    <3>2. /\ cv'.drf = cv.drf /\ cv'.rf = rpcReq.rf /\ cv'.cf = rpcReq.cf
          /\ cv'.known = cv.known \cup rpcReq.id /\ cv'.seen = cv.seen \cup rpcReq.id
      BY <2>2, Zenon DEF TypeOK, CV
    <3>3. ListInv' /\ LagInv' /\ Down' = Down /\ Runs'
      BY <2>0, <3>1, <3>2, ServedMember, Zenon DEF Runs
    <3>4. PlaceInv' /\ AllLive'
      BY <2>0, <3>1, <3>2, <3>3, Zenon DEF MemberInv, PlaceInv, AllLive
    <3>5. StepInv'
      BY <2>0, <3>1, <3>2, <3>3, Zenon DEF MemberInv, StepInv
    <3>6. UpInv'
      <4>1. cv'.known \in SUBSET cvc.spec
        BY <3>1, <3>2, Zenon DEF MemberInv, UpInv
      <4>2. Cardinality(cv'.known) <= Cardinality(cvc.spec) /\ Cardinality(cv'.known) \in Nat /\ Cardinality(cvc.spec) \in Nat
        BY <4>1, ListTypes, Sizes
      <4>3. Cardinality(cv'.known) <= cv'.rf /\ tgt.rf <= cv'.rf
        BY <3>1, <3>2, <4>2, Fields
      <4>4. conf.known \subseteq cv'.known /\ tgt.known \subseteq cv'.known
        BY <3>1, <3>2, Zenon DEF MemberInv, UpInv
      <4>5. vmAt = "write" => vmCV.known \subseteq cv'.known
        BY <3>1, <3>2, Zenon DEF MemberInv, UpInv
      <4> QED
        BY <2>0, <3>1, <3>3, <4>1, <4>3, <4>4, <4>5, Zenon DEF MemberInv, UpInv, Reach
    <3>7. JoinInv'
      BY <2>0, <2>2, <3>0, <3>2, <3>3, Zenon DEF MemberInv, JoinInv
    <3>8. DownInv' /\ MeetInv'
      BY <2>0, <3>1, <3>3, Zenon DEF MemberInv, DownInv, MeetInv, Covers
    <3> QED
      BY <3>3, <3>4, <3>5, <3>6, <3>7, <3>8, Zenon DEF MemberInv
  <2> QED
    BY <2>1, <2>2, Zenon DEF UpdateCVWithReplicationDetails, RPCDone
<1>config. CASE UpdateConfig
  <2> USE <1>config
  <2>0. UNCHANGED <<cvc, cvcCache, cvr, hasID, up, opAt, opBase, opCVC, opFound, opPool, vmAt, vmCV, cv>>
    BY Zenon DEF UpdateConfig, outsideRPC, cvrVars, opVars, vmVars
  <2>1. rpcAt = "conf" /\ rpcAt # "idle" /\ rpcAt' = "idle"
    BY Zenon DEF UpdateConfig, RPCDone
  <2>2. CASE UNCHANGED <<conf, tgt>>
    BY <2>0, <2>1, <2>2, ServerDone, Zenon
  <2>3. CASE /\ conf.drf # 0
             /\ conf' = [conf EXCEPT !.rf = rpcReq.rf, !.cf = rpcReq.cf, !.known = @ \cup rpcReq.id]
             /\ tgt' = [tgt EXCEPT !.rf = rpcReq.rf, !.known = @ \cup rpcReq.id]
    <3>1. /\ ~Down /\ Runs
          /\ vmAt \notin {"health", "shrinkConf", "factors", "shrink", "seen"}
          /\ \A q \in Pool : cvr[q] # "deleting"
          /\ rpcReq.id \subseteq cvc.spec /\ \A q \in rpcReq.id : cvr[q] = "live"
          /\ rpcReq.rf >= Cardinality(cvc.spec)
          /\ rpcReq.cf = Quorum(rpcReq.rf)
      BY <2>1, Joins, Zenon
    <3>2. /\ conf'.drf = conf.drf /\ conf'.rf = rpcReq.rf /\ conf'.cf = rpcReq.cf
          /\ conf'.known = conf.known \cup rpcReq.id
      BY <2>3, Zenon DEF TypeOK, Conf
    <3>3. tgt'.drf = tgt.drf /\ tgt'.rf = rpcReq.rf /\ tgt'.known = tgt.known \cup rpcReq.id
      BY <2>3, <3>1, Zenon DEF TypeOK, Target
    <3>4. /\ cv.rf = rpcReq.rf /\ rpcReq.id \subseteq cv.known
          /\ vmAt = "write" => Cardinality(cvc.spec) <= vmCV.rf + 1
      BY <2>1, Zenon DEF MemberInv, JoinInv
    <3>5. ListInv' /\ LagInv' /\ Down' = Down /\ Runs'
      BY <2>0, <3>1, <3>3, ServedMember, Zenon DEF Runs
    <3>6. PlaceInv' /\ AllLive'
      BY <2>0, <3>1, <3>2, <3>3, <3>5, Zenon DEF MemberInv, PlaceInv, AllLive
    <3>7. StepInv'
      BY <2>0, <2>3, <3>1, <3>2, <3>5, Zenon DEF MemberInv, StepInv
    <3>8. JoinInv' /\ DownInv'
      BY <2>1, <3>1, <3>5, Zenon DEF JoinInv, DownInv
    <3>9. /\ cv.known \subseteq cvc.spec /\ Cardinality(cv.known) <= cv.rf
          /\ conf'.known \subseteq cv.known /\ tgt'.known \subseteq cv.known
          /\ vmAt = "write" => vmCV.known \subseteq cv.known
          /\ tgt'.drf <= Cardinality(cvc.spec)
      BY <3>1, <3>2, <3>3, <3>4, Zenon DEF MemberInv, UpInv
    <3>10. /\ Cardinality(cvc.spec) \in Nat /\ Cardinality(cv.known) \in Nat
           /\ Cardinality(cv.known) <= Cardinality(cvc.spec)
      BY <3>9, ListTypes, Sizes
    <3>11. UpInv'
      <4>1. Cardinality(tgt'.known) <= Cardinality(cv.known) /\ Cardinality(tgt'.known) \in Nat
        BY <3>9, ListTypes, Sizes
      <4>2. Cardinality(tgt'.known) <= tgt'.rf /\ tgt'.rf <= cv.rf
        BY <3>3, <3>4, <3>9, <3>10, <4>1, Fields
      <4>3. Cardinality(cvc.spec) <= tgt'.rf + 1 /\ ~(tgt'.rf < Cardinality(cvc.spec))
        BY <3>1, <3>3, <3>10, Fields
      <4> QED
        BY <2>0, <3>1, <3>5, <3>9, <4>2, <4>3, Zenon DEF MemberInv, UpInv, Reach
    <3>12. MeetInv'
      <4>1. /\ Cardinality(conf'.known \cup tgt'.known) \in Nat
            /\ Cardinality(conf'.known \cup tgt'.known) <= Cardinality(cv.known)
        <5>1. conf'.known \cup tgt'.known \in SUBSET cv.known
          BY <3>9, Zenon
        <5> QED
          BY <5>1, ListTypes, Sizes
      <4>2. Covers(conf'.rf, tgt'.rf, conf'.known \cup tgt'.known)
        BY <3>2, <3>3, <3>4, <3>9, <3>10, <4>1, Fields DEF Covers
      <4>3. ASSUME vmAt = "write"
            PROVE  Covers(vmCV.rf, tgt'.rf, vmCV.known \cup tgt'.known)
        <5>1. vmCV.known \cup tgt'.known \in SUBSET cv.known
          BY <3>9, <4>3, Zenon
        <5>2. /\ Cardinality(vmCV.known \cup tgt'.known) \in Nat
              /\ Cardinality(vmCV.known \cup tgt'.known) <= Cardinality(cv.known)
          BY <5>1, ListTypes, Sizes
        <5>3. Cardinality(cvc.spec) <= vmCV.rf + 1 /\ tgt'.rf >= Cardinality(cvc.spec)
          BY <3>1, <3>3, <3>4, <4>3, Zenon
        <5>4. tgt'.rf \in Nat
          BY <3>3, Fields
        <5> QED
          BY <3>10, <5>2, <5>3, <5>4, Fields DEF Covers
      <4> QED
        BY <2>0, <3>4, <4>2, <4>3, Zenon DEF MeetInv, Covers
    <3> QED
      BY <3>5, <3>6, <3>7, <3>8, <3>11, <3>12, Zenon DEF MemberInv
  <2> QED
    BY <2>2, <2>3, Zenon DEF UpdateConfig
<1> QED
  BY <1>request, <1>details, <1>config, Zenon DEF TargetServer

LEMMA InitMember == ASSUME Counting, Init PROVE MemberInv
<1>1. PICK pools \in Placements :
        /\ cvc = [spec |-> pools, status |-> pools, hash |-> pools, pdb |-> PDBFor(pools)]
        /\ cv = [drf |-> Cardinality(pools), rf |-> Cardinality(pools),
                 cf |-> Quorum(Cardinality(pools)), known |-> {}, seen |-> {}]
        /\ cvr = [p \in Pool |-> IF p \in pools THEN "live" ELSE "none"]
  BY Zenon DEF Init
<1>2. cvc.spec = pools /\ cvc.status = pools
  BY <1>1, Zenon
<1>3. /\ cv.drf = Cardinality(pools) /\ cv.rf = Cardinality(pools)
      /\ cv.cf = Quorum(cv.rf) /\ cv.known = {} /\ cv.seen = {}
  BY <1>1
<1>4. /\ cvcCache = cvc /\ opAt = "idle" /\ vmAt = "down" /\ rpcAt = "idle" /\ up = {}
      /\ conf = NoConf /\ tgt = StartedFrom(NoConf)
  BY Zenon DEF Init
<1>5. /\ NoConf.drf = 0 /\ NoConf.known = {}
      /\ StartedFrom(NoConf).drf = 0 /\ StartedFrom(NoConf).known = {}
  BY DEF NoConf, StartedFrom
<1>6. conf.known = {} /\ tgt.drf = 0 /\ tgt.known = {} /\ ~Runs
  BY <1>4, <1>5, Zenon DEF Runs
<1>7. pools # {} /\ pools \in SUBSET Pool
  BY ScaleAssumption, Zenon
<1>8. Cardinality(pools) \in Nat /\ Cardinality(pools) # 0
  <2>1. Cardinality(pools) \in Nat /\ (Cardinality(pools) = 0 <=> pools = {})
    BY <1>7, Counted
  <2> QED
    BY <1>7, <2>1
<1>9. ~Down
  BY <1>2, Zenon DEF Down
<1>10. ListInv /\ LagInv /\ JoinInv /\ MeetInv
  BY <1>2, <1>4, <1>6, <1>7, <1>9, Zenon DEF ListInv, LagInv, SameLists, JoinInv, MeetInv
<1>11. AllLive
  BY <1>3, <1>6, Zenon DEF AllLive
<1>12. PlaceInv
  <2>1. \A p \in Pool : cvr[p] # "deleting" /\ (cvr[p] = "live" => p \in pools)
    BY <1>1
  <2> QED
    BY <1>2, <1>4, <2>1, Zenon DEF PlaceInv
<1>13. StepInv
  BY <1>3, <1>4, <1>6, <1>8, Zenon DEF StepInv
<1>14. Reach(cv.known, cv.rf) /\ Cardinality(cv.known) <= cv.rf
  <2>1. Cardinality(cv.known) = 0
    BY <1>3, Counted
  <2>2. Cardinality(cvc.spec) = cv.rf /\ cv.rf \in Nat
    BY <1>2, <1>3, <1>8, Zenon
  <2>3. Cardinality(cvc.spec) <= cv.rf + 1 /\ ~(cv.rf < Cardinality(cvc.spec)) /\ Cardinality(cv.known) <= cv.rf
    BY <2>1, <2>2
  <2> QED
    BY <2>3, Zenon DEF Reach
<1>15. UpInv /\ DownInv
  BY <1>3, <1>4, <1>6, <1>9, <1>14, Zenon DEF UpInv, DownInv
<1> QED
  BY <1>10, <1>11, <1>12, <1>13, <1>15, Zenon DEF MemberInv

LEMMA MemberStep ==
  ASSUME Counting, TypeOK, ScaleInv, MemberInv, Orderly, late = {}, [Next]_vars PROVE MemberInv'
<1>watch. CASE WatchCVC
  <2> USE <1>watch
  <2>1. /\ cvcCache' = cvc
        /\ UNCHANGED <<cvc, cv, cvr, hasID, vmAt, vmCV, rpcAt, rpcReq, conf, tgt, up, opAt, opBase, opCVC, opFound, opPool>>
    BY Zenon DEF WatchCVC, cvrVars, opVars, vmVars, rpcVars
  <2>2. LagInv'
    BY <2>1, Zenon DEF MemberInv, LagInv, SameLists, Done
  <2> QED
    BY <2>1, <2>2, Unmoved, Zenon
<1>edit. ASSUME NEW pools \in SUBSET Pool, EditPools(pools)
         PROVE  MemberInv'
  <2> USE <1>edit
  <2>1. /\ UNCHANGED <<cvcCache, cv, cvr, hasID, vmAt, vmCV, rpcAt, rpcReq, conf, tgt, up, opAt, opBase, opCVC, opFound, opPool>>
        /\ pools # {}
    BY Zenon DEF EditPools, cvrVars, opVars, vmVars, rpcVars
  <2>2. /\ Runs /\ rpcAt = "idle" /\ ~Down /\ \A p \in Pool : cvr[p] # "deleting"
        /\ tgt.known = cvc.spec /\ cv.known = cvc.spec /\ cv.seen = cvc.spec /\ cvc.spec \subseteq hasID
        /\ cv.drf = Cardinality(cvc.spec)
        /\ \/ \E q \in pools : cvc.spec = pools \ {q}
           \/ \E r \in cvc.spec : pools = cvc.spec \ {r}
    BY EditedOne
  <2>3. /\ cvc.spec = cvc.status /\ cvc'.status = cvc.spec /\ cvc'.spec = pools
        /\ opAt # "idle" => ~SameLists(opBase, cvc')
    BY NewList, Zenon DEF Orderly, Settled
  <2>4. Runs' /\ Runs
    BY <2>1, <2>2, Zenon DEF Runs
  <2>5. LagInv'
    BY <2>1, <2>3, Zenon DEF MemberInv, LagInv, SameLists, Done
  <2>6. AllLive' /\ JoinInv'
    BY <2>1, <2>2, Zenon DEF MemberInv, AllLive, JoinInv
  <2>7. PlaceInv'
    BY <2>1, <2>2, <2>3, Zenon DEF MemberInv, PlaceInv
  <2>8. vmAt \notin {"health", "shrinkConf", "factors", "shrink", "seen"}
    BY <2>2, Zenon DEF MemberInv, StepInv
  <2>9. StepInv'
    BY <2>1, <2>4, <2>8, Zenon DEF MemberInv, StepInv
  <2>10. /\ tgt.drf <= Cardinality(cvc.spec) /\ Cardinality(cvc.spec) <= tgt.rf /\ tgt.rf <= cv.rf
         /\ conf.known \subseteq cvc.spec /\ (vmAt = "write" => vmCV.known \subseteq cvc.spec)
         /\ vmAt \in {"grow", "growConf"} => vmCV.drf <= Cardinality(cvc.spec)
    BY <2>2, Zenon DEF MemberInv, UpInv
  <2>11. MeetInv'
    BY <2>1, <2>2, <2>4, <2>10, Zenon DEF MemberInv, MeetInv, Covers
  <2>f. /\ tgt.drf \in Nat /\ tgt.rf \in Nat /\ cv.rf \in Nat /\ vmCV.drf \in Nat
        /\ cvc.spec \in SUBSET Pool /\ Cardinality(cvc.spec) \in Nat
    BY Fields, ListTypes, Counted
  <2>12. CASE \E q \in pools : cvc.spec = pools \ {q}
    <3>1. PICK q \in pools : cvc.spec = pools \ {q}
      BY <2>12, Zenon
    <3>2. Cardinality(pools) \in Nat /\ Cardinality(pools) = Cardinality(cvc.spec) + 1
      BY <3>1, Without
    <3>3. ~Down'
      BY <2>3, <3>1, Zenon DEF Down
    <3>4. ListInv' /\ DownInv'
      BY <2>1, <2>3, <3>3, Zenon DEF MemberInv, ListInv, DownInv
    <3>5. /\ tgt.drf <= Cardinality(pools) /\ Cardinality(pools) <= tgt.rf + 1 /\ Cardinality(cvc.spec) <= cv.rf
          /\ vmAt \in {"grow", "growConf"} => vmCV.drf <= Cardinality(pools)
      BY <2>f, <2>10, <3>2
    <3>6. Reach(tgt.known, tgt.rf)'
      BY <2>1, <2>2, <2>3, <3>1, <3>5, Zenon DEF Reach
    <3>7. UpInv'
      BY <2>1, <2>2, <2>3, <2>4, <2>10, <3>1, <3>5, <3>6, Zenon DEF UpInv
    <3> QED
      BY <2>5, <2>6, <2>7, <2>9, <2>11, <3>4, <3>7, Zenon DEF MemberInv
  <2>13. CASE \E r \in cvc.spec : pools = cvc.spec \ {r}
    <3>1. PICK r \in cvc.spec : pools = cvc.spec \ {r}
      BY <2>13, Zenon
    <3>2. Down' /\ pools # cvc.spec
      BY <2>3, <3>1, Zenon DEF Down
    <3>3. ListInv' /\ UpInv'
      BY <2>1, <2>3, <3>1, <3>2, Zenon DEF MemberInv, ListInv, UpInv
    <3>4. cv.rf >= Cardinality(cvc.spec) /\ ~(cv.rf < Cardinality(cvc.spec))
      BY <2>f, <2>10
    <3>5. DownInv'
      BY <2>1, <2>2, <2>3, <2>4, <2>10, <3>2, <3>4, Zenon DEF DownInv
    <3> QED
      BY <2>5, <2>6, <2>7, <2>9, <2>11, <3>3, <3>5, Zenon DEF MemberInv
  <2> QED
    BY <2>2, <2>12, <2>13, Zenon
(* A replica connects, loses its connection or gets its id. *)
<1>connection. ASSUME NEW p \in Pool, PersistReplicaID(p) \/ ReplicaUp(p) \/ ReplicaDown(p)
               PROVE  MemberInv'
  <2> USE <1>connection
  <2>1. /\ UNCHANGED <<cvc, cvcCache, cv, cvr, opAt, opBase, opCVC, opFound, opPool>>
        /\ UNCHANGED <<vmAt, vmCV, rpcAt, rpcReq, conf, tgt>>
    BY Zenon DEF PersistReplicaID, ReplicaUp, ReplicaDown, outsidePool, cvrVars, opVars, vmVars, rpcVars
  <2>2. hasID \subseteq hasID' /\ up' \subseteq up \cup {p} /\ (p \in up' => p \in up \/ cvr[p] # "none")
    BY Zenon DEF PersistReplicaID, ReplicaUp, ReplicaDown, cvrVars
  <2>3. Down' = Down /\ Runs' = Runs
    BY <2>1, Zenon DEF Down, Runs
  <2>4. ListInv' /\ LagInv'
    BY <2>1, <2>3, Zenon DEF MemberInv, ListInv, LagInv, Done, SameLists
  <2>l. AllLive' /\ JoinInv' /\ MeetInv'
    BY <2>1, <2>3, Zenon DEF MemberInv, AllLive, JoinInv, MeetInv, Covers
  <2>s. StepInv'
    BY <2>1, <2>3, Zenon DEF MemberInv, StepInv
  <2>5. PlaceInv'
    BY <2>1, <2>2, <2>3, Zenon DEF MemberInv, PlaceInv
  <2>6. UpInv'
    BY <2>1, <2>3, Zenon DEF MemberInv, UpInv, Reach
  <2>7. DownInv'
    BY <2>1, <2>2, <2>3, Zenon DEF MemberInv, DownInv
  <2> QED
    BY <2>4, <2>5, <2>6, <2>7, <2>l, <2>s, Zenon DEF MemberInv
<1>destroy. ASSUME NEW p \in Pool, DestroyReplica(p)
            PROVE  MemberInv'
  <2> USE <1>destroy
  <2>1. /\ UNCHANGED <<cvc, cvcCache, cv, opAt, opBase, opCVC, opFound, opPool>>
        /\ UNCHANGED <<vmAt, vmCV, rpcAt, rpcReq, conf, tgt>>
    BY Zenon DEF DestroyReplica, outsidePool, opVars, vmVars, rpcVars
  <2>2. cvr[p] = "deleting" /\ cvr' = [cvr EXCEPT ![p] = "none"] /\ up' = up \ {p}
    BY Zenon DEF DestroyReplica
  <2>3. cvr'[p] = "none" /\ \A q \in Pool : q # p => cvr'[q] = cvr[q]
    BY <2>2, Zenon DEF TypeOK
  <2>4. \A q \in Pool : (cvr'[q] = "live" <=> cvr[q] = "live") /\ (cvr'[q] = "deleting" => cvr[q] = "deleting")
    BY <2>2, <2>3
  <2>5. Down' = Down /\ Runs' = Runs
    BY <2>1, Zenon DEF Down, Runs
  <2>6. ListInv' /\ StepInv' /\ MeetInv'
    BY <2>1, <2>5, Zenon DEF MemberInv, ListInv, StepInv, MeetInv, Covers
  <2>7. LagInv'
    <3>1. cvcCache \in CVC /\ opBase \in CVC
      BY Zenon DEF TypeOK
    <3>2. ASSUME NEW c \in CVC, Done(c)
          PROVE  Done(c)'
      <4>1. c.spec \subseteq Pool /\ c.status \subseteq Pool
        BY <3>2, Zenon DEF CVC
      <4> QED
        BY <2>4, <3>2, <4>1, Zenon DEF Done
    <3>3. /\ Done(cvcCache) => Done(cvcCache)'
          /\ Done(opBase) => Done(opBase)'
      <4>1. cvcCache' = cvcCache /\ opBase' = opBase
        BY <2>1, Zenon
      <4> QED
        BY <3>1, <3>2, <4>1, Zenon DEF Done
    <3> QED
      BY <2>1, <3>3, Zenon DEF MemberInv, LagInv, SameLists
  <2>8. PlaceInv'
    <3>1. \A q \in Pool : cvr'[q] = "live" => q \in cvc.spec \cup cvc.status
      BY <2>4, Zenon DEF MemberInv, PlaceInv
    <3>2. \A q \in Pool : cvr'[q] = "deleting" =>
            /\ q \notin cvc.spec /\ cvc.spec \subseteq cvc.status
            /\ cv.known = cvc.spec /\ cv.seen = cvc.spec
            /\ Runs => tgt.known = cvc.spec
      BY <2>4, Zenon DEF MemberInv, PlaceInv
    <3>3. \A q \in up' : cvr'[q] # "none"
      <4>1. up \subseteq Pool
        BY Zenon DEF TypeOK
      <4> QED
        BY <2>2, <2>3, <4>1, Zenon DEF MemberInv, PlaceInv
    <3> QED
      BY <2>1, <2>5, <3>1, <3>2, <3>3, Zenon DEF PlaceInv
  <2>9. AllLive'
    BY <2>1, <2>4, Fields, Zenon DEF MemberInv, AllLive
  <2>10. UpInv'
    BY <2>1, <2>5, Zenon DEF MemberInv, UpInv, Reach
  <2>11. Down => cv.known # cvc.status
    <3>1. cv.known = cvc.spec
      BY <2>2, Zenon DEF MemberInv, PlaceInv
    <3> QED
      BY <3>1, Zenon DEF Down
  <2>12. DownInv'
    BY <2>1, <2>5, <2>11, Zenon DEF MemberInv, DownInv
  <2>13. JoinInv'
    BY <2>1, <2>4, <2>5, ListTypes, Zenon DEF MemberInv, JoinInv
  <2> QED
    BY <2>5, <2>6, <2>7, <2>8, <2>9, <2>10, <2>12, <2>13, Zenon DEF MemberInv
<1>pod. CASE PodRestart
  <2> USE <1>pod
  <2>1. /\ UNCHANGED <<cvc, cvcCache, cv, cvr, hasID, opAt, opBase, opCVC, opFound, opPool>>
        /\ vmAt' = "down" /\ rpcAt' = "idle" /\ conf' = NoConf /\ tgt' = StartedFrom(NoConf) /\ up' = {}
    BY Zenon DEF PodRestart, ServerStops, RPCDone, outsidePod, cvrVars, opVars
  <2>2. NoConf.drf = 0 /\ NoConf.known = {} /\ StartedFrom(NoConf).drf = 0 /\ StartedFrom(NoConf).known = {}
    BY DEF NoConf, StartedFrom
  <2>3. conf'.known = {} /\ tgt'.drf = 0 /\ tgt'.known = {}
    BY <2>1, <2>2, Zenon
  <2>4. Down' = Down /\ ~Runs'
    BY <2>1, <2>3, Zenon DEF Down, Runs
  <2>5. ListInv' /\ LagInv' /\ JoinInv' /\ MeetInv'
    BY <2>1, <2>4, Zenon DEF MemberInv, ListInv, LagInv, Done, SameLists, JoinInv, MeetInv
  <2>6. PlaceInv'
    BY <2>1, <2>4, Zenon DEF MemberInv, PlaceInv
  <2>m. AllLive'
    BY <2>1, <2>3, Zenon DEF MemberInv, AllLive
  <2>7. StepInv'
    BY <2>1, <2>4, Zenon DEF MemberInv, StepInv
  <2>8. ASSUME ~Down
        PROVE  Reach(cv.known, cv.rf)
    <3>1. CASE ~Runs
      BY <2>8, <3>1, Zenon DEF MemberInv, UpInv
    <3>2. CASE Runs
      <4>1. tgt.known \subseteq cv.known /\ tgt.rf <= cv.rf /\ Reach(tgt.known, tgt.rf)
        BY <2>8, <3>2, Zenon DEF MemberInv, UpInv
      <4>2. Cardinality(cvc.spec) \in Nat
        BY ListTypes, Sizes
      <4>3. Cardinality(cvc.spec) <= tgt.rf + 1
        BY <4>1, Zenon DEF Reach
      <4>4. Cardinality(cvc.spec) <= cv.rf + 1 /\ (cv.rf < Cardinality(cvc.spec) => tgt.rf < Cardinality(cvc.spec))
        BY <4>1, <4>2, <4>3, Fields
      <4> QED
        BY <4>1, <4>4, Zenon DEF Reach
    <3> QED
      BY <3>1, <3>2, Zenon
  <2>9. UpInv'
    BY <2>1, <2>3, <2>4, <2>8, Zenon DEF MemberInv, UpInv, Reach
  <2>10. DownInv'
    BY <2>1, <2>3, <2>4, Zenon DEF MemberInv, DownInv
  <2> QED
    BY <2>5, <2>6, <2>7, <2>9, <2>10, <2>m, Zenon DEF MemberInv
<1>1. CASE Worker \/ CallFails \/ OperatorRestart
  BY <1>1, WorkerMember, OwnMember, Zenon
<1>4. CASE \E pools \in SUBSET Pool : EditPools(pools)
  BY <1>4, <1>edit, Zenon
<1>5. CASE WatchCVC
  BY <1>5, <1>watch, Zenon
<1>6. CASE VolumeManager
  BY <1>6, ManagerMember, Zenon
<1>7. CASE \E p \in Pool : TargetServer(p)
  BY <1>7, ServerMember, Zenon
<1>8. CASE \E p \in Pool : Replica(p) \/ ReplicaDown(p)
  BY <1>8, <1>connection, <1>destroy, Zenon DEF Replica
<1>9. CASE VolumeMgmtRestart
  <2>1. /\ UNCHANGED <<cvc, cvcCache, cvr, hasID, up, opAt, opBase, opCVC, opFound, opPool>>
        /\ UNCHANGED <<cv, conf, tgt>> /\ vmAt' = "down" /\ rpcAt' = "idle"
    BY <1>9, Zenon DEF VolumeMgmtRestart, ServerStops, RPCDone, outsidePod, cvrVars, opVars
  <2> QED
    BY <2>1, ServerDone, Zenon
<1>10. CASE TargetRestart \/ PodRestart
  <2>1. ~TargetRestart
    BY Zenon DEF TargetRestart, Fault, Orderly
  <2> QED
    BY <1>10, <2>1, <1>pod, Zenon
<1>11. CASE UNCHANGED vars
  <2>1. /\ UNCHANGED <<cvc, cvcCache, cv, cvr, hasID, vmAt, vmCV, rpcAt, rpcReq, conf, tgt, up>>
        /\ UNCHANGED <<opAt, opBase, opCVC, opFound, opPool>>
    BY <1>11, Zenon DEF vars, cvrVars, opVars, vmVars, rpcVars
  <2>2. LagInv'
    BY <2>1, Zenon DEF MemberInv, LagInv, Done, SameLists
  <2> QED
    BY <2>1, <2>2, Unmoved, Zenon
<1>12. ~Late
  BY Zenon DEF Late
<1> QED
  BY <1>1, <1>4, <1>5, <1>6, <1>7, <1>8, <1>9, <1>10, <1>11, <1>12, Zenon DEF Next

(* Only a restart of istgt takes the connection from a request. *)
LEMMA NoneLate == ASSUME "target" \notin FaultKinds, late = {}, [Next]_vars PROVE late' = {}
<1>1. CASE \/ (\E pools \in SUBSET Pool : EditPools(pools)) \/ WatchCVC
           \/ (\E p \in Pool : Replica(p) \/ ReplicaDown(p)) \/ UNCHANGED vars
  BY <1>1, Zenon DEF EditPools, WatchCVC, Replica, PersistReplicaID, ReplicaUp, DestroyReplica, ReplicaDown,
                     outsidePool, rpcVars, vars
<1>2. CASE Worker \/ CallFails \/ OperatorRestart
  <2>1. UNCHANGED outsideOp
    <3>1. CASE SyncCVC \/ ScaleUp \/ CallFails \/ OperatorRestart
      BY <3>1, Zenon DEF SyncCVC, ScaleUp, ScaleUpVolumeReplicas, RaiseDRF, HandleVolumeReplicaCreation,
                         UpdateCVCWithScaledUpInfo, CallFails, OperatorRestart
    <3>2. CASE ScaleDown
      BY <3>2, Zenon DEF ScaleDown, ScaleDownVolumeReplicas, GetScaleDownCVR, LowerDRF, DeleteCVR
    <3>3. CASE \/ DeletePDBIfNotInUse \/ GetOrCreatePodDisruptionBudget \/ UpdatePDBForScaledVolume
               \/ SyncPolicySpec
      BY <3>3, Zenon DEF DeletePDBIfNotInUse, GetOrCreatePodDisruptionBudget, UpdatePDBForScaledVolume,
                         SyncPolicySpec
    <3> QED
      BY <1>2, <3>1, <3>2, <3>3, Zenon DEF Worker
  <2> QED
    BY <2>1, Zenon DEF outsideOp, rpcVars
<1>3. CASE VolumeManager
  <2>1. UNCHANGED outsideVM
    BY <1>3, Zenon DEF VolumeManager, UpdateCStorVolumeDRF, GrowTarget, GrowConf, CheckHealth, ShrinkConf,
                       StoreFactors, ShrinkTarget, StoreSeen, HandleAdd, CreateVolumeTarget
  <2> QED
    BY <2>1, Zenon DEF outsideVM, rpcVars
<1>4. CASE \E p \in Pool : TargetServer(p)
  BY <1>4, Zenon DEF TargetServer, ServeRequest, UpdateCVWithReplicationDetails, UpdateConfig, outsideRPC
<1>5. CASE VolumeMgmtRestart \/ PodRestart
  BY <1>5, Zenon DEF VolumeMgmtRestart, PodRestart, ServerStops
<1>6. ~Late /\ ~TargetRestart
  BY Zenon DEF Late, TargetRestart, Fault
<1> QED
  BY <1>1, <1>2, <1>3, <1>4, <1>5, <1>6, Zenon DEF Next

-----------------------------------------------------------------------------
(* The theorems                                                            *)

Library == INSTANCE FiniteSetTheorems

LEMMA Counts == Counting
<1>1. \A S : (Library!IsFiniteSet(S) <=> IsFiniteSet(S)) /\ Library!Cardinality(S) = Cardinality(S)
  BY Zenon DEF Library!IsFiniteSet, Library!Cardinality, IsFiniteSet, Cardinality
<1>2. ASSUME NEW B \in SUBSET Pool
      PROVE  IsFiniteSet(B) /\ Cardinality(B) \in Nat /\ (Cardinality(B) = 0 <=> B = {})
  <2>1. IsFiniteSet(B)
    BY <1>1, Library!FS_Subset, ScaleAssumption
  <2>2. Cardinality(B) \in Nat
    BY <1>1, <2>1, Library!FS_CardinalityType
  <2>3. Cardinality(B) = 0 <=> B = {}
    BY <1>1, <2>1, Library!FS_EmptySet
  <2> QED
    BY <2>1, <2>2, <2>3, Zenon
<1>3. ASSUME NEW B \in SUBSET Pool, NEW A \in SUBSET B
      PROVE  Cardinality(A) <= Cardinality(B) /\ (Cardinality(A) = Cardinality(B) => A = B)
  BY <1>1, <1>2, Library!FS_Subset
<1>4. ASSUME NEW S \in SUBSET Pool, NEW r \in S
      PROVE  Cardinality(S \ {r}) = Cardinality(S) - 1
  BY <1>1, <1>2, Library!FS_RemoveElement
<1> QED
  BY <1>2, <1>3, <1>4, Zenon DEF Counting

(* Every record, phase and counter of the model stays in its domain, the   *)
(* factors within the number of pools, however often scaling is cut short. *)
THEOREM TypeCorrect == Spec => []TypeOK
<1>1. Init => TypeOK
  BY Counts, InitType
<1>2. TypeOK /\ [Next]_vars => TypeOK'
  BY Counts, TypeStep
<1> QED
  BY <1>1, <1>2, PTL DEF Spec

(***************************************************************************)
(* Where one edit follows the other, a replica leaves the CV only when its *)
(* pool has left the list: a worker on a stale CVC never lowers the DRF,   *)
(* because it finds the one it wants, and no failure, restart or conflict  *)
(* between the steps of scaleDownVolumeReplicas and the volume manager's   *)
(* makes the known replicas of spec and status differ otherwise.           *)
(***************************************************************************)
THEOREM Departures ==
  ASSUME "settled" \in Discipline
  PROVE  Spec => []DepartureIsRequested
<1>1. Init => TypeOK /\ ScaleInv
  BY Counts, InitType, InitScale
<1>2. TypeOK /\ ScaleInv /\ [Next]_vars => TypeOK' /\ ScaleInv'
  BY Counts, TypeStep, ScaleStep DEF Settled
<1>3. ScaleInv => DepartureIsRequested
  BY DEF ScaleInv
<1> QED
  BY <1>1, <1>2, <1>3, PTL DEF Spec

(***************************************************************************)
(* Where one edit follows the other and no call to the API server fails,   *)
(* a volume at rest has the PDB of its pools, whenever a worker stops or   *)
(* acts on a stale CVC: what deletePDBIfNotInUse deletes is the PDB of the *)
(* earlier list, and an object that could not be stored with its new label *)
(* is not stored with its new status either.                               *)
(***************************************************************************)
THEOREM Guarded ==
  ASSUME "settled" \in Discipline, "call" \notin FaultKinds
  PROVE  Spec => []RestingVolumeIsGuarded
<1>1. Init => TypeOK /\ ScaleInv /\ GuardInv
  BY Counts, InitType, InitScale, InitGuard
<1>2. TypeOK /\ ScaleInv /\ GuardInv /\ [Next]_vars => TypeOK' /\ ScaleInv' /\ GuardInv'
  BY Counts, TypeStep, ScaleStep, GuardStep DEF Settled
<1>3. GuardInv => RestingVolumeIsGuarded
  BY DEF GuardInv, Guard, Pending, RestingVolumeIsGuarded
<1> QED
  BY <1>1, <1>2, <1>3, PTL DEF Spec

(* The same strengthening serves both of the theorems that follow. *)
LEMMA Membership ==
  ASSUME {"settled", "one", "gone", "ready", "joined"} \subseteq Discipline, "target" \notin FaultKinds
  PROVE  Spec => [](TypeOK /\ MemberInv /\ late = {})
<1>1. Init => TypeOK /\ ScaleInv /\ MemberInv
  BY Counts, InitType, InitScale, InitMember
<1>2. Init => late = {}
  BY Zenon DEF Init
<1>3. TypeOK /\ ScaleInv /\ MemberInv /\ late = {} /\ [Next]_vars =>
        TypeOK' /\ ScaleInv' /\ MemberInv' /\ (late = {})'
  BY Counts, TypeStep, ScaleStep, MemberStep, NoneLate DEF Settled, Orderly
<1> QED
  BY <1>1, <1>2, <1>3, PTL DEF Spec

(***************************************************************************)
(* Where the user scales as the tutorial says (one pool out at a time,     *)
(* none back before its replica is gone, no edit before the last one is    *)
(* carried out and its replicas have joined) and istgt does not restart    *)
(* alone, no request outlives its connection, and every replica the CV,    *)
(* istgt.conf or the running target lists as a member has its CVR:         *)
(* DeleteCVR runs only when the volume manager has taken the replica out   *)
(* of all three, and none puts it back from an earlier copy of the CV.     *)
(***************************************************************************)
THEOREM Members ==
  ASSUME {"settled", "one", "gone", "ready", "joined"} \subseteq Discipline, "target" \notin FaultKinds
  PROVE  Spec => [](MembersLive /\ late = {})
<1>1. MemberInv => MembersLive
  BY DEF MemberInv, AllLive, MembersLive
<1> QED
  BY <1>1, Membership, PTL

(***************************************************************************)
(* Under the same conditions a quorum of the running target's members and  *)
(* a quorum of those it would restart with, from istgt.conf or from the    *)
(* CV, always meet, at every step of scaling up or down and whichever of   *)
(* the steps fails: no acknowledged write is forgotten.                    *)
(***************************************************************************)
THEOREM Quorums ==
  ASSUME {"settled", "one", "gone", "ready", "joined"} \subseteq Discipline, "target" \notin FaultKinds
  PROVE  Spec => [](QuorumsOverlap /\ late = {})
<1>1. TypeOK /\ MemberInv => QuorumsOverlap
  BY Counts, Overlap
<1> QED
  BY <1>1, Membership, PTL
=============================================================================
