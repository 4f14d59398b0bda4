---------------------------- MODULE VolumeResize ----------------------------
(***************************************************************************)
(* Capacity of one cStor volume, from its provisioning through any number  *)
(* of expansions.  Four parties act on it:                                 *)
(*   - the user (through CSI) raises spec.capacity of the                  *)
(*     CStorVolumeConfig (CVC);                                            *)
(*   - a worker of the CVC controller (pkg/controllers/cstorvolumeconfig)  *)
(*     reads the CVC from its informer cache and drives the CStorVolume    *)
(*     (CV);                                                               *)
(*   - the volume manager (pkg/controllers/volume-mgmt), which runs in the *)
(*     target pod, brings the target to the capacity the CV asks for;      *)
(*   - the iSCSI target istgt, which reads istgt.conf when it starts.      *)
(*                                                                         *)
(* A capacity is a number; 0 is "no such object, file or target yet".  An  *)
(* Update carries a resourceVersion: it takes effect only if the object is *)
(* still the one that was read.  Every write below changes the record, and *)
(* no record recurs, so "same version" is equality of records.  A Patch    *)
(* carries none, and writes just the fields it names.                      *)
(***************************************************************************)
EXTENDS Integers

CONSTANTS
  ProvisionedCap,     \* spec.capacity of the CVC when it is created
  MaxCap,             \* bound: the largest capacity ever requested
  MaxFaults,          \* bound: failed calls, crashes and restarts
  FaultKinds,         \* the kinds of fault that happen
  ExpandWhilePending  \* may the CVC be expanded before it is Bound?

ASSUME ResizeAssumption ==
  /\ ProvisionedCap \in Nat \ {0}
  /\ MaxCap \in Nat
  /\ ProvisionedCap <= MaxCap
  /\ MaxFaults \in Nat
  /\ FaultKinds \subseteq {"call", "disk", "create", "volume-mgmt", "target", "pod"}
  /\ ExpandWhilePending \in BOOLEAN

VARIABLES
  cvc,      \* the CVC: phase, spec.capacity, status.capacity and conditions
  cvcCache, \* the CVC in the informer cache of the CVC controller
  cv,       \* the CV: spec.capacity, status.capacity and conditions
  opAt,     \* the CVC worker: where it is,
  opCVC,    \*   and the copy of the CVC it works on
  vmAt,     \* the volume manager: where it is,
  vmEvent,  \*   the event it handles,
  vmBase,   \*   the CV as it was read or last written,
  vmCV,     \*   and its copy
  conf,     \* the "LUN0 Storage" line of istgt.conf
  target,   \* the capacity istgt exports
  faults    \* faults so far

opVars == <<opAt, opCVC>>
vmVars == <<vmAt, vmEvent, vmBase, vmCV>>
vars == <<cvc, cvcCache, cv, opVars, vmVars, conf, target, faults>>

Cap == 0 .. MaxCap

CVC == [phase : {"Pending", "Bound"}, spec : Cap, status : Cap, conditions : SUBSET {"Resizing"}]

CV == [spec : Cap, status : Cap, conditions : SUBSET {"Resizing"}]

OpSteps == {"idle", "provision", "bind", "resize", "mark", "patchCV", "finish"}

VMSteps == {"down", "target", "init", "idle", "condition", "resize", "conf",
            "update", "status"}

Init ==
  /\ cvc = [phase |-> "Pending", spec |-> ProvisionedCap, status |-> 0,
            conditions |-> {}]
  /\ cvcCache = cvc
  /\ cv = [spec |-> 0, status |-> 0, conditions |-> {}]
  /\ opAt = "idle"
  /\ opCVC = cvc
  /\ vmAt = "down"
  /\ vmEvent = "Add"
  /\ vmBase = cv
  /\ vmCV = cv
  /\ conf = 0
  /\ target = 0
  /\ faults = 0

Fault(kind) ==
  /\ kind \in FaultKinds
  /\ faults < MaxFaults
  /\ faults' = faults + 1

-----------------------------------------------------------------------------
(* The user and the informer                                               *)

\* The user asks for more.  Nothing in the admission webhook looks at
\* spec.capacity, so the phase does not matter to it; CSI expands Bound CVCs.
Expand(c) ==
  /\ cvc.phase = "Bound" \/ ExpandWhilePending
  /\ c > cvc.spec
  /\ cvc' = [cvc EXCEPT !.spec = c]
  /\ UNCHANGED <<cvcCache, cv, opVars, vmVars, conf, target, faults>>

\* A watch event brings the informer cache of the CVC controller up to date.
WatchCVC ==
  /\ cvcCache # cvc
  /\ cvcCache' = cvc
  /\ UNCHANGED <<cvc, cv, opVars, vmVars, conf, target, faults>>

-----------------------------------------------------------------------------
(* The CVC controller: one worker at a time holds the key of this CVC      *)

\* cvcNeedResize
CVCNeedResize(c) == c.spec > c.status

\* syncCVC on the cached CVC: provision a Pending one, resize a Bound one.
SyncCVC ==
  /\ opAt = "idle"
  /\ \/ /\ cvcCache.phase = "Pending"
        /\ opAt' = "provision"
     \/ /\ cvcCache.phase # "Pending"
        /\ CVCNeedResize(cvcCache)
        /\ opAt' = "resize"
  /\ opCVC' = cvcCache
  /\ UNCHANGED <<cvc, cvcCache, cv, vmVars, conf, target, faults>>

\* getOrCreateCStorVolumeResource: an existing CV is taken as it is.
GetOrCreateCStorVolumeResource ==
  /\ opAt = "provision"
  /\ cv' = IF cv.spec = 0 THEN [cv EXCEPT !.spec = opCVC.spec] ELSE cv
  /\ opAt' = "bind"
  /\ UNCHANGED <<opCVC, cvc, cvcCache, vmVars, conf, target, faults>>

\* The end of createVolumeOperation: phase Bound, status.capacity set to the
\* spec.capacity of the worker's copy, and the Update of updateCVCObj.
UpdateCVCObj ==
  /\ opAt = "bind"
  /\ cvc' = IF cvc = opCVC
            THEN [cvc EXCEPT !.phase = "Bound", !.status = opCVC.spec]
            ELSE cvc
  /\ opAt' = "idle"
  /\ UNCHANGED <<opCVC, cvcCache, cv, vmVars, conf, target, faults>>

\* Mutation: resizeCVC asks the CV's spec whether the resize is done.
ResizeCVCMistakesSpec ==
  /\ opAt = "resize"
  /\ opAt' = IF opCVC.spec = cv.spec THEN "finish" ELSE "mark"
  /\ UNCHANGED <<opCVC, cvc, cvcCache, cv, vmVars, conf, target, faults>>

\* Mutation: resizeCVC does not look for a resize under way.
ResizeCVCUnguarded ==
  /\ opAt = "resize"
  /\ opAt' = IF opCVC.spec = cv.status THEN "finish" ELSE "mark"
  /\ UNCHANGED <<opCVC, cvc, cvcCache, cv, vmVars, conf, target, faults>>

\* resizeCVC up to its first write: GET the CV; a resize still under way at the
\* volume manager is left alone.
ResizeCVC ==
  /\ opAt = "resize"
  /\ \/ /\ cv.spec > cv.status
        /\ opAt' = "idle"
     \/ /\ cv.spec <= cv.status
        /\ opCVC.spec = cv.status
        /\ opAt' = "finish"
     \/ /\ cv.spec <= cv.status
        /\ opCVC.spec # cv.status
        /\ opAt' = "mark"
  /\ UNCHANGED <<opCVC, cvc, cvcCache, cv, vmVars, conf, target, faults>>

\* markCVCResizeInProgress: a Patch of the conditions.  Its transition time is
\* new, so the Patch names them whatever the worker's copy holds.
MarkCVCResizeInProgress ==
  /\ opAt = "mark"
  /\ cvc' = [cvc EXCEPT !.conditions = {"Resizing"}]
  /\ opAt' = "patchCV"
  /\ UNCHANGED <<opCVC, cvcCache, cv, vmVars, conf, target, faults>>

\* Mutation: the capacity is rounded up on its way to the CV.
ResizeCVRoundsUp ==
  /\ opAt = "patchCV"
  /\ cv' = [cv EXCEPT !.spec = opCVC.spec + 1]
  /\ opAt' = "idle"
  /\ UNCHANGED <<opCVC, cvc, cvcCache, vmVars, conf, target, faults>>

\* resizeCV: a Patch of the CV's spec.capacity.
ResizeCV ==
  /\ opAt = "patchCV"
  /\ cv' = [cv EXCEPT !.spec = opCVC.spec]
  /\ opAt' = "idle"
  /\ UNCHANGED <<opCVC, cvc, cvcCache, vmVars, conf, target, faults>>

\* markCVCResizeFinished: a Patch made of the differences between the worker's
\* copy and the same copy with status.capacity set and no resize condition, so
\* the conditions are named only if the copy holds the Resizing condition.
MarkCVCResizeFinished ==
  /\ opAt = "finish"
  /\ cvc' = [cvc EXCEPT !.status = opCVC.spec,
                        !.conditions = @ \ opCVC.conditions]
  /\ opAt' = "idle"
  /\ UNCHANGED <<opCVC, cvcCache, cv, vmVars, conf, target, faults>>

\* A call of the worker fails and its error is returned (the key is queued
\* again, processNextWorkItem), or the operator stops and is started again.
WorkerFails ==
  /\ opAt # "idle"
  /\ Fault("call")
  /\ opAt' = "idle"
  /\ UNCHANGED <<opCVC, cvc, cvcCache, cv, vmVars, conf, target>>

-----------------------------------------------------------------------------
(* The volume manager                                                      *)

\* IsResizePending of the CV
IsResizePending(c) == c.status < c.spec

Resized(c) == [c EXCEPT !.status = c.spec]

\* The Update of a CV: it succeeds on the version that was read.
UpdateSucceeds == cv = vmBase

\* The Update fails: on a conflict, or for a reason outside this model.
UpdateFails ==
  \/ cv # vmBase /\ UNCHANGED faults
  \/ Fault("call")

\* QOpAdd, the first event after a start of the volume manager: GET the CV.
HandleAdd ==
  /\ vmAt = "down"
  /\ cv.spec # 0
  /\ vmAt' = "target"
  /\ vmEvent' = "Add"
  /\ vmBase' = cv
  /\ vmCV' = cv
  /\ UNCHANGED <<cvc, cvcCache, cv, opVars, conf, target, faults>>

\* CreateVolumeTarget: istgt.conf is written from the CV's spec, a failure to
\* write it is only logged, and istgt is told to refresh.  A target that runs
\* already may or may not take the new size over from a refresh.
CreateVolumeTarget ==
  /\ vmAt = "target"
  /\ \E written \in BOOLEAN :
       /\ IF written THEN UNCHANGED faults ELSE Fault("create")
       /\ conf' = IF written THEN vmCV.spec ELSE conf
  /\ target' \in IF target = 0 THEN {conf'} ELSE {target, conf'}
  /\ vmAt' = "init"
  /\ vmCV' = IF IsResizePending(vmCV) THEN vmCV ELSE Resized(vmCV)
  /\ UNCHANGED <<cvc, cvcCache, cv, opVars, vmEvent, vmBase>>

\* syncHandler stores the outcome of QOpAdd.
StoreInit ==
  /\ vmAt = "init"
  /\ \/ UpdateSucceeds /\ cv' = vmCV /\ UNCHANGED faults
     \/ UpdateFails /\ UNCHANGED cv
  /\ vmAt' = "idle"
  /\ UNCHANGED <<cvc, cvcCache, opVars, vmEvent, vmBase, vmCV, conf, target>>

\* Mutation: a CV that carries the Resizing condition is taken for one whose
\* resize somebody else carries through.
HandleSyncSkipsResizing(event) ==
  /\ vmAt = "idle"
  /\ \/ /\ IsResizePending(cv) /\ "Resizing" \notin cv.conditions
        /\ vmAt' = "condition"
     \/ /\ ~IsResizePending(cv) \/ "Resizing" \in cv.conditions
        /\ event = "PeriodicSync"
        /\ vmAt' = "status"
  /\ vmEvent' = event
  /\ vmBase' = cv
  /\ vmCV' = cv
  /\ UNCHANGED <<cvc, cvcCache, cv, opVars, conf, target, faults>>

\* QOpModify or QOpPeriodicSync: GET the CV and see whether a resize is pending.
HandleSync(event) ==
  /\ vmAt = "idle"
  /\ \/ /\ IsResizePending(cv)
        /\ vmAt' = IF "Resizing" \in cv.conditions THEN "resize" ELSE "condition"
     \/ /\ ~IsResizePending(cv)
        /\ event = "PeriodicSync"
        /\ vmAt' = "status"
  /\ vmEvent' = event
  /\ vmBase' = cv
  /\ vmCV' = cv
  /\ UNCHANGED <<cvc, cvcCache, cv, opVars, conf, target, faults>>

\* What follows the resize part of an event: QOpPeriodicSync goes on to the
\* volume's status, QOpModify is done.
AfterResize == IF vmEvent = "PeriodicSync" THEN "status" ELSE "idle"

\* addResizeConditions puts the condition on the copy, then Updates.
AddResizeConditions ==
  /\ vmAt = "condition"
  /\ vmCV' = [vmCV EXCEPT !.conditions = {"Resizing"}]
  /\ \/ /\ UpdateSucceeds
        /\ cv' = vmCV'
        /\ vmBase' = vmCV'
        /\ vmAt' = "resize"
        /\ UNCHANGED faults
     \/ /\ UpdateFails
        /\ vmAt' = AfterResize
        /\ UNCHANGED <<cv, vmBase>>
  /\ UNCHANGED <<cvc, cvcCache, opVars, vmEvent, conf, target>>

\* Mutation: the resize is reported done before istgt.conf is written.
UpdateConfFileIgnoresError ==
  /\ vmAt = "conf"
  /\ \/ conf' = vmCV.spec /\ UNCHANGED faults
     \/ Fault("disk") /\ UNCHANGED conf
  /\ vmCV' = [Resized(vmCV) EXCEPT !.conditions = {}]
  /\ vmAt' = "update"
  /\ UNCHANGED <<cvc, cvcCache, cv, opVars, vmEvent, vmBase, target>>

\* ResizeTargetVolume sends the resize command to istgt.  On an error (no
\* target, or ERR from it) only the message of the condition changes.
ResizeTarget ==
  /\ vmAt = "resize"
  /\ \/ /\ target # 0
        /\ target' = vmCV.spec
        /\ vmAt' = "conf"
        /\ UNCHANGED faults
     \/ /\ IF target = 0 THEN UNCHANGED faults ELSE Fault("call")
        /\ vmAt' = "update"
        /\ UNCHANGED target
  /\ UNCHANGED <<cvc, cvcCache, cv, opVars, vmEvent, vmBase, vmCV, conf>>

\* ResizeTargetVolume then writes the new size to istgt.conf; only then does
\* resizeCStorVolume call the resize done.
UpdateConfFile ==
  /\ vmAt = "conf"
  /\ \/ /\ conf' = vmCV.spec
        /\ vmCV' = [Resized(vmCV) EXCEPT !.conditions = {}]
        /\ UNCHANGED faults
     \/ /\ Fault("disk")
        /\ UNCHANGED <<vmCV, conf>>
  /\ vmAt' = "update"
  /\ UNCHANGED <<cvc, cvcCache, cv, opVars, vmEvent, vmBase, target>>

\* The Update at the end of resizeCStorVolume; if it fails, the event goes on
\* with the object as it was before.
ResizeCStorVolume ==
  /\ vmAt = "update"
  /\ \/ UpdateSucceeds /\ cv' = vmCV /\ vmBase' = vmCV /\ UNCHANGED <<vmCV, faults>>
     \/ UpdateFails /\ vmCV' = vmBase /\ UNCHANGED <<cv, vmBase>>
  /\ vmAt' = AfterResize
  /\ UNCHANGED <<cvc, cvcCache, opVars, vmEvent, conf, target>>

\* Mutation: the status is stored without the resourceVersion that was read.
StoreVolumeStatusBlindly ==
  /\ vmAt = "status"
  /\ cv' = vmCV
  /\ vmAt' = "idle"
  /\ UNCHANGED <<cvc, cvcCache, opVars, vmEvent, vmBase, vmCV, conf, target, faults>>

\* The end of QOpPeriodicSync: phase and replica statuses go to the CV, with
\* whatever else the copy holds by now.
StoreVolumeStatus ==
  /\ vmAt = "status"
  /\ \/ UpdateSucceeds /\ cv' = vmCV /\ UNCHANGED faults
     \/ UpdateFails /\ UNCHANGED cv
  /\ vmAt' = "idle"
  /\ UNCHANGED <<cvc, cvcCache, opVars, vmEvent, vmBase, vmCV, conf, target>>

-----------------------------------------------------------------------------
(* Restarts in the target pod                                              *)

\* The volume manager's container restarts; the informer of the new process
\* reports the CV as added.
VolumeMgmtRestart ==
  /\ vmAt # "down"
  /\ Fault("volume-mgmt")
  /\ vmAt' = "down"
  /\ UNCHANGED <<cvc, cvcCache, cv, opVars, vmEvent, vmBase, vmCV, conf, target>>

\* The istgt container restarts and reads istgt.conf, which the containers of
\* the pod share (external).
TargetRestart ==
  /\ target # conf
  /\ Fault("target")
  /\ target' = conf
  /\ UNCHANGED <<cvc, cvcCache, cv, opVars, vmVars, conf>>

\* The target pod is recreated: istgt.conf goes with it (external).
PodRestart ==
  /\ cv.spec # 0
  /\ Fault("pod")
  /\ vmAt' = "down"
  /\ conf' = 0
  /\ target' = 0
  /\ UNCHANGED <<cvc, cvcCache, cv, opVars, vmEvent, vmBase, vmCV>>

-----------------------------------------------------------------------------
Worker ==
  \/ SyncCVC \/ GetOrCreateCStorVolumeResource \/ UpdateCVCObj
  \/ ResizeCVC \/ MarkCVCResizeInProgress \/ ResizeCV \/ MarkCVCResizeFinished

VolumeManager ==
  \/ HandleAdd \/ CreateVolumeTarget \/ StoreInit
  \/ HandleSync("PeriodicSync")
  \/ AddResizeConditions \/ ResizeTarget \/ UpdateConfFile
  \/ ResizeCStorVolume \/ StoreVolumeStatus

Next ==
  \/ \E c \in Cap : Expand(c)
  \/ WatchCVC
  \/ Worker \/ WorkerFails
  \/ VolumeManager \/ HandleSync("Modify")
  \/ VolumeMgmtRestart \/ TargetRestart \/ PodRestart

Spec == Init /\ [][Next]_vars

\* The queue hands the key to a worker again (resync, or AddRateLimited), a
\* watch event arrives some time, and the volume manager's informer resyncs
\* periodically: each party that can take a step takes one in the end.
FairSpec == Spec /\ WF_vars(Worker) /\ WF_vars(WatchCVC) /\ WF_vars(VolumeManager)

-----------------------------------------------------------------------------
(* Properties                                                              *)

\* The type invariant.
TypeOK ==
  /\ cvc \in CVC
  /\ cvcCache \in CVC
  /\ cv \in CV
  /\ opAt \in OpSteps
  /\ opCVC \in CVC
  /\ vmAt \in VMSteps
  /\ vmEvent \in {"Add", "Modify", "PeriodicSync"}
  /\ vmBase \in CV
  /\ vmCV \in CV
  /\ conf \in Cap
  /\ target \in Cap
  /\ faults \in 0 .. MaxFaults

\* A target started from the istgt.conf at hand exports at least the capacity
\* the CVC's status announces, whatever call, write or container failed before:
\* resizeCStorVolume reports a resize only after istgt.conf holds it, and the
\* CVC follows the CV.
AnnouncedIsConfigured ==
  conf # 0 => cvc.status <= conf

\* The running target exports at least what the CVC's status announces.
AnnouncedIsExported ==
  target # 0 => cvc.status <= target

\* The protocol keeps the promise of VolumeExpansion: no interleaving of the
\* worker, the volume manager and their faults announces what was not requested
\* and configured, or configures less than was announced.
Promise == INSTANCE VolumeExpansion
             WITH requested <- cvc.spec, announced <- cvc.status, backing <- conf

KeepsPromise == Promise!Spec

\* resizeCVC starts no second resize of the CV while the volume manager still
\* works on one ("Resize already in progress").
OneResizeAtATime ==
  [][cv'.spec # cv.spec => cv.spec <= cv.status]_vars

\* No stale copy, in a cache or in a handler, takes a capacity back: neither
\* the CV's nor the CVC's recorded capacities ever shrink.
NoCapacityShrinks ==
  [][/\ cv'.spec >= cv.spec /\ cv'.status >= cv.status
     /\ cvc'.status >= cvc.status]_vars

\* Every expansion is carried through: a Bound CVC that asks for more than its
\* status gives ends up with what it asks for.
ResizeCompletes ==
  cvc.phase = "Bound" /\ CVCNeedResize(cvc) ~> ~CVCNeedResize(cvc)

=============================================================================
