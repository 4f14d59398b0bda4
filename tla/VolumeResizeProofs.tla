------------------------- MODULE VolumeResizeProofs -------------------------
(***************************************************************************)
(* Theorems about VolumeResize, for every capacity, every number of faults *)
(* and every set of fault kinds.  Those on what the CVC announces assume   *)
(* that a CVC is not expanded before it is Bound.                          *)
(***************************************************************************)
EXTENDS VolumeResize, TLAPS

\* A fault keeps the count within its bound.
LEMMA FaultBounded ==
  ASSUME TypeOK, NEW k, Fault(k)
  PROVE  faults' \in 0 .. MaxFaults
BY ResizeAssumption DEF TypeOK, Fault

\* One step keeps the types.
LEMMA TypeStep == TypeOK /\ [Next]_vars => TypeOK'
<1> SUFFICES ASSUME TypeOK, [Next]_vars PROVE TypeOK'
  OBVIOUS
<1> USE ResizeAssumption, FaultBounded
    DEF TypeOK, CVC, CV, OpSteps, VMSteps, Cap, opVars, vmVars
<1>1. ASSUME NEW c \in Cap, Expand(c) PROVE TypeOK'
  BY <1>1 DEF Expand
<1>2. CASE WatchCVC
  BY <1>2 DEF WatchCVC
<1>3. CASE SyncCVC
  BY <1>3 DEF SyncCVC
<1>4. CASE GetOrCreateCStorVolumeResource
  BY <1>4 DEF GetOrCreateCStorVolumeResource
<1>5. CASE UpdateCVCObj
  <2>1. cvc' \in CVC
    BY <1>5, Zenon DEF UpdateCVCObj
  <2> QED
    BY <1>5, <2>1 DEF UpdateCVCObj
<1>6. CASE ResizeCVC
  BY <1>6 DEF ResizeCVC
<1>7. CASE MarkCVCResizeInProgress
  BY <1>7 DEF MarkCVCResizeInProgress
<1>8. CASE ResizeCV
  BY <1>8 DEF ResizeCV
<1>9. CASE MarkCVCResizeFinished
  BY <1>9, Zenon DEF MarkCVCResizeFinished
<1>10. CASE WorkerFails
  BY <1>10 DEF WorkerFails
<1>11. CASE HandleAdd
  BY <1>11 DEF HandleAdd
<1>12. CASE CreateVolumeTarget
  BY <1>12 DEF CreateVolumeTarget, Resized
<1>13. CASE StoreInit
  BY <1>13 DEF StoreInit, UpdateFails
<1>14. ASSUME NEW e \in {"Modify", "PeriodicSync"}, HandleSync(e) PROVE TypeOK'
  BY <1>14 DEF HandleSync
<1>15. CASE AddResizeConditions
  BY <1>15 DEF AddResizeConditions, AfterResize, UpdateFails
<1>16. CASE ResizeTarget
  BY <1>16 DEF ResizeTarget
<1>17. CASE UpdateConfFile
  <2>1. vmCV' \in CV
    <3>1. [Resized(vmCV) EXCEPT !.conditions = {}] \in CV
      BY Zenon DEF Resized
    <3> QED
      BY <1>17, <3>1 DEF UpdateConfFile
  <2>2. conf' \in Cap /\ faults' \in 0 .. MaxFaults
    BY <1>17 DEF UpdateConfFile
  <2> QED
    BY <1>17, <2>1, <2>2 DEF UpdateConfFile
<1>18. CASE ResizeCStorVolume
  BY <1>18 DEF ResizeCStorVolume, AfterResize, UpdateFails
<1>19. CASE StoreVolumeStatus
  BY <1>19 DEF StoreVolumeStatus, UpdateFails
<1>20. CASE VolumeMgmtRestart
  BY <1>20 DEF VolumeMgmtRestart
<1>21. CASE TargetRestart
  BY <1>21 DEF TargetRestart
<1>22. CASE PodRestart
  BY <1>22 DEF PodRestart
<1>23. CASE UNCHANGED vars
  BY <1>23 DEF vars
<1> QED
  BY <1>1, <1>2, <1>3, <1>4, <1>5, <1>6, <1>7, <1>8, <1>9, <1>10, <1>11,
     <1>12, <1>13, <1>14, <1>15, <1>16, <1>17, <1>18, <1>19, <1>20, <1>21,
     <1>22, <1>23, Zenon
  DEF Next, Worker, VolumeManager

\* The type invariant of VolumeResize holds in every reachable state.
THEOREM TypeCorrect == Spec => []TypeOK
<1>1. Init => TypeOK
  BY ResizeAssumption DEF Init, TypeOK, CVC, CV, OpSteps, VMSteps, Cap
<1> QED
  BY <1>1, TypeStep, PTL DEF Spec

-----------------------------------------------------------------------------
(* The inductive invariant.  No party sees a capacity another one has not  *)
(* written: requests flow from the CVC through the cache and the worker to *)
(* the CV, achievements from istgt.conf through the volume manager and the *)
(* CV to the CVC's status.                                                 *)

\* A CVC, current or copied, has its provisioned capacity until it is Bound.
Unexpanded(c) == c.phase = "Pending" => c.spec = ProvisionedCap /\ c.status = 0

\* Requests: each copy lags behind the one it is taken from.
Requests ==
  /\ Unexpanded(cvc) /\ Unexpanded(cvcCache) /\ Unexpanded(opCVC)
  /\ cv.spec <= cvcCache.spec
  /\ cvcCache.spec <= cvc.spec
  /\ opCVC.spec <= cvcCache.spec
  /\ opAt # "idle" => cv.spec <= opCVC.spec
  /\ opAt \in {"provision", "bind"} => opCVC.phase = "Pending"
  /\ opAt \in {"resize", "mark", "patchCV", "finish"} => opCVC.phase = "Bound"
  /\ cv.spec = 0 \/ ProvisionedCap <= cv.spec
  /\ cvc.phase = "Bound" \/ opCVC.phase = "Bound" \/ cvcCache.phase = "Bound"
       \/ opAt = "bind" \/ vmAt # "down" => cv.spec # 0
  /\ opCVC.phase = "Bound" => cvcCache.phase = "Bound"
  /\ cvcCache.phase = "Bound" => cvc.phase = "Bound"
  /\ opAt \in {"mark", "patchCV"} => cv.spec <= cv.status

\* The volume manager's copies: it alone raises the CV's status.
Copies ==
  vmAt \notin {"down", "idle"} =>
    /\ vmBase.spec <= cv.spec
    /\ vmCV.spec = vmBase.spec
    /\ ProvisionedCap <= vmCV.spec
    /\ cv.status = vmBase.status
    /\ vmBase.status <= vmBase.spec
    /\ vmAt # "update" => vmCV.status = vmBase.status
    /\ vmAt = "update" => \/ vmCV.status = vmBase.status
                          \/ vmCV.status = vmCV.spec /\ conf = vmCV.spec

\* Achievements: each report is backed by the layer below.
Achievements ==
  /\ cvc.status <= ProvisionedCap \/ cvc.status <= cv.status
  /\ cvc.status <= cvc.spec
  /\ cv.status <= cv.spec
  /\ conf # 0 => ProvisionedCap <= conf /\ cv.status <= conf /\ conf <= cv.spec
  /\ opAt = "finish" => opCVC.spec <= cv.status

IInv == TypeOK /\ Requests /\ Copies /\ Achievements

\* One step keeps the inductive invariant, provided no Pending CVC is expanded.
LEMMA InvStep ==
  ASSUME ~ExpandWhilePending, IInv, [Next]_vars
  PROVE  IInv'
<1>0. TypeOK'
  BY TypeStep DEF IInv
<1> SUFFICES Requests' /\ Copies' /\ Achievements'
  BY <1>0 DEF IInv
<1> USE <1>0, ResizeAssumption
    DEF IInv, TypeOK, CVC, CV, Cap, OpSteps, VMSteps, opVars, vmVars,
        Requests, Copies, Achievements, Unexpanded
<1>1. ASSUME NEW c \in Cap, Expand(c)
      PROVE  Requests' /\ Copies' /\ Achievements'
  BY <1>1 DEF Expand
<1>2. CASE WatchCVC
  BY <1>2 DEF WatchCVC
<1>3. CASE SyncCVC
  BY <1>3 DEF SyncCVC
<1>4. CASE GetOrCreateCStorVolumeResource
  BY <1>4 DEF GetOrCreateCStorVolumeResource
<1>5. CASE UpdateCVCObj
  BY <1>5 DEF UpdateCVCObj
<1>6. CASE ResizeCVC
  BY <1>6 DEF ResizeCVC
<1>7. CASE MarkCVCResizeInProgress
  BY <1>7 DEF MarkCVCResizeInProgress
<1>8. CASE ResizeCV
  BY <1>8 DEF ResizeCV
<1>9. CASE MarkCVCResizeFinished
  <2>1. /\ cvc'.phase = cvc.phase
        /\ cvc'.spec = cvc.spec
        /\ cvc'.status = opCVC.spec
    BY <1>9 DEF MarkCVCResizeFinished
  <2>2. /\ opAt = "finish" /\ opAt' = "idle"
        /\ UNCHANGED <<opCVC, cvcCache, cv, vmVars, conf>>
    BY <1>9 DEF MarkCVCResizeFinished
  <2> QED
    BY <2>1, <2>2
<1>10. CASE WorkerFails
  BY <1>10 DEF WorkerFails
<1>11. CASE HandleAdd
  BY <1>11 DEF HandleAdd
<1>12. CASE CreateVolumeTarget
  BY <1>12 DEF CreateVolumeTarget, Resized, IsResizePending
<1>13. CASE StoreInit
  BY <1>13 DEF StoreInit, UpdateSucceeds
<1>14. ASSUME NEW e \in {"Modify", "PeriodicSync"}, HandleSync(e)
      PROVE  Requests' /\ Copies' /\ Achievements'
  BY <1>14 DEF HandleSync
<1>15. CASE AddResizeConditions
  BY <1>15 DEF AddResizeConditions, UpdateSucceeds, AfterResize
<1>16. CASE ResizeTarget
  BY <1>16 DEF ResizeTarget
<1>17. CASE UpdateConfFile
  <2>1. /\ vmCV'.spec = vmCV.spec
        /\ \/ vmCV'.status = vmCV.status
           \/ vmCV'.status = vmCV.spec /\ conf' = vmCV.spec
    <3> DEFINE r == Resized(vmCV)
    <3>1. r \in CV /\ r.spec = vmCV.spec /\ r.status = vmCV.spec
      BY DEF Resized
    <3>2. \/ vmCV' = [r EXCEPT !.conditions = {}] /\ conf' = vmCV.spec
          \/ vmCV' = vmCV
      BY <1>17 DEF UpdateConfFile
    <3>3. CASE vmCV' = [r EXCEPT !.conditions = {}] /\ conf' = vmCV.spec
      <4> HIDE DEF r
      <4>1. vmCV'.spec = r.spec /\ vmCV'.status = r.status
        BY <3>1, <3>3
      <4> QED
        BY <3>1, <3>3, <4>1
    <3>4. CASE vmCV' = vmCV
      BY <3>4
    <3> HIDE DEF r
    <3> QED
      BY <3>2, <3>3, <3>4
  <2> QED
    BY <1>17, <2>1 DEF UpdateConfFile
<1>18. CASE ResizeCStorVolume
  BY <1>18 DEF ResizeCStorVolume, UpdateSucceeds, AfterResize
<1>19. CASE StoreVolumeStatus
  BY <1>19 DEF StoreVolumeStatus, UpdateSucceeds
<1>20. CASE VolumeMgmtRestart
  BY <1>20 DEF VolumeMgmtRestart
<1>21. CASE TargetRestart
  BY <1>21 DEF TargetRestart
<1>22. CASE PodRestart
  BY <1>22 DEF PodRestart
<1>23. CASE UNCHANGED vars
  BY <1>23 DEF vars
<1> QED
  BY <1>1, <1>2, <1>3, <1>4, <1>5, <1>6, <1>7, <1>8, <1>9, <1>10, <1>11, <1>12, <1>13, <1>14, <1>15, <1>16, <1>17, <1>18, <1>19, <1>20, <1>21, <1>22, <1>23, Zenon
  DEF Next, Worker, VolumeManager

\* The inductive invariant holds in every reachable state.
LEMMA Invariant == ASSUME ~ExpandWhilePending PROVE Spec => []IInv
<1>1. Init => IInv
  BY ResizeAssumption
  DEF Init, IInv, TypeOK, CVC, CV, Cap, OpSteps, VMSteps, Requests, Copies,
      Achievements, Unexpanded
<1>2. IInv /\ [Next]_vars => IInv'
  BY InvStep
<1> QED
  BY <1>1, <1>2, PTL DEF Spec

\* Whatever istgt.conf the target is started from, it exports at least what the
\* CVC announces: Bound and resize-finished CVCs never run ahead of the volume
\* manager, for every capacity and through every fault.
THEOREM AnnouncedConfigured ==
  ASSUME ~ExpandWhilePending PROVE Spec => []AnnouncedIsConfigured
<1>1. IInv => AnnouncedIsConfigured
  BY ResizeAssumption DEF IInv, TypeOK, CVC, CV, Cap, Achievements, AnnouncedIsConfigured
<1> QED
  BY <1>1, Invariant, PTL

\* No stale copy takes a capacity back, and resizeCVC starts no resize while
\* another one is under way: both are facts about single steps from IInv.
LEMMA CapacityStep ==
  ASSUME ~ExpandWhilePending, IInv, [Next]_vars
  PROVE  /\ cv'.spec # cv.spec => cv.spec <= cv.status
         /\ cv'.spec >= cv.spec /\ cv'.status >= cv.status
         /\ cvc'.status >= cvc.status
<1> DEFINE Goal == /\ cv'.spec # cv.spec => cv.spec <= cv.status
                   /\ cv'.spec >= cv.spec /\ cv'.status >= cv.status
                   /\ cvc'.status >= cvc.status
<1> USE ResizeAssumption
    DEF IInv, TypeOK, CVC, CV, Cap, OpSteps, VMSteps, Requests, Copies,
        Achievements, Unexpanded
<1>1. CASE UNCHANGED <<cvc, cv>>
  BY <1>1
<1>2. ASSUME NEW c \in Cap, Expand(c) PROVE Goal
  BY <1>2 DEF Expand
<1>3. CASE GetOrCreateCStorVolumeResource
  BY <1>3 DEF GetOrCreateCStorVolumeResource
<1>4. CASE UpdateCVCObj
  <2>1. cv' = cv /\ (cvc' = cvc \/ cvc'.status = opCVC.spec)
    BY <1>4 DEF UpdateCVCObj
  <2>2. cvc' # cvc => cvc.status <= opCVC.spec
    BY <1>4 DEF UpdateCVCObj
  <2> QED
    BY <2>1, <2>2
<1>5. CASE MarkCVCResizeInProgress
  BY <1>5 DEF MarkCVCResizeInProgress
<1>6. CASE ResizeCV
  BY <1>6 DEF ResizeCV
<1>7. CASE MarkCVCResizeFinished
  <2>1. cv' = cv /\ cvc'.status = opCVC.spec /\ opAt = "finish"
    BY <1>7 DEF MarkCVCResizeFinished
  <2> QED
    BY <2>1
<1>8. CASE StoreInit
  BY <1>8 DEF StoreInit, UpdateSucceeds
<1>9. CASE AddResizeConditions
  BY <1>9 DEF AddResizeConditions, UpdateSucceeds
<1>10. CASE ResizeCStorVolume
  BY <1>10 DEF ResizeCStorVolume, UpdateSucceeds
<1>11. CASE StoreVolumeStatus
  BY <1>11 DEF StoreVolumeStatus, UpdateSucceeds
<1>12. CASE \/ WatchCVC \/ SyncCVC \/ ResizeCVC \/ WorkerFails \/ HandleAdd
            \/ CreateVolumeTarget \/ (\E e \in {"Modify", "PeriodicSync"} : HandleSync(e))
            \/ ResizeTarget \/ UpdateConfFile \/ VolumeMgmtRestart \/ TargetRestart
            \/ PodRestart
  BY <1>1, <1>12
  DEF WatchCVC, SyncCVC, ResizeCVC, WorkerFails, HandleAdd, CreateVolumeTarget,
      HandleSync, ResizeTarget, UpdateConfFile, VolumeMgmtRestart, TargetRestart,
      PodRestart
<1>13. CASE UNCHANGED vars
  BY <1>1, <1>13 DEF vars
<1> QED
  BY <1>2, <1>3, <1>4, <1>5, <1>6, <1>7, <1>8, <1>9, <1>10, <1>11, <1>12, <1>13
  DEF Next, Worker, VolumeManager

\* resizeCVC patches the CV's capacity only when the last resize is done.
THEOREM ResizesSerialised ==
  ASSUME ~ExpandWhilePending PROVE Spec => OneResizeAtATime
<1>1. IInv /\ [Next]_vars => [cv'.spec # cv.spec => cv.spec <= cv.status]_vars
  BY CapacityStep
<1> QED
  BY <1>1, Invariant, PTL DEF Spec, OneResizeAtATime

\* Neither a cached CVC nor a CV read before an await takes a capacity back.
THEOREM CapacitiesGrow ==
  ASSUME ~ExpandWhilePending PROVE Spec => NoCapacityShrinks
<1>1. IInv /\ [Next]_vars => [/\ cv'.spec >= cv.spec /\ cv'.status >= cv.status
                             /\ cvc'.status >= cvc.status]_vars
  BY CapacityStep
<1> QED
  BY <1>1, Invariant, PTL DEF Spec, NoCapacityShrinks

\* Every step of the protocol is a step of VolumeExpansion or changes nothing
\* it speaks of.
LEMMA PromiseStep ==
  ASSUME ~ExpandWhilePending, IInv, IInv', [Next]_vars
  PROVE  [Promise!Next]_(Promise!expansionVars)
<1> DEFINE Goal == [Promise!Next]_(Promise!expansionVars)
<1> USE ResizeAssumption
    DEF IInv, TypeOK, CVC, CV, Cap, Requests, Achievements, Promise!Next,
        Promise!expansionVars
<1>1. CASE UNCHANGED <<cvc, conf>>
  BY <1>1
<1>2. ASSUME cvc'.spec > cvc.spec, UNCHANGED <<cvc.status, conf>> PROVE Goal
  BY <1>2 DEF Promise!Request
<1>3. ASSUME UNCHANGED cvc PROVE Goal
  BY <1>3 DEF Promise!Configure
<1>4. ASSUME UNCHANGED <<cvc.spec, conf>> PROVE Goal
  BY <1>4, CapacityStep DEF Promise!Announce
<1>5. ASSUME NEW c \in Cap, Expand(c) PROVE Goal
  BY <1>2, <1>5 DEF Expand
<1>6. CASE UpdateCVCObj
  <2>1. UNCHANGED <<cvc.spec, conf>>
    BY <1>6 DEF UpdateCVCObj
  <2> QED
    BY <1>4, <2>1
<1>7. CASE MarkCVCResizeInProgress
  BY <1>4, <1>7 DEF MarkCVCResizeInProgress
<1>8. CASE MarkCVCResizeFinished
  <2>1. UNCHANGED <<cvc.spec, conf>>
    BY <1>8 DEF MarkCVCResizeFinished
  <2> QED
    BY <1>4, <2>1
<1>9. CASE \/ WatchCVC \/ SyncCVC \/ GetOrCreateCStorVolumeResource \/ ResizeCVC
           \/ ResizeCV \/ WorkerFails \/ HandleAdd \/ CreateVolumeTarget \/ StoreInit
           \/ (\E e \in {"Modify", "PeriodicSync"} : HandleSync(e))
           \/ AddResizeConditions \/ ResizeTarget \/ UpdateConfFile
           \/ ResizeCStorVolume \/ StoreVolumeStatus \/ VolumeMgmtRestart
           \/ TargetRestart \/ PodRestart
  <2>1. UNCHANGED cvc
    BY <1>9, Zenon
    DEF WatchCVC, SyncCVC, GetOrCreateCStorVolumeResource, ResizeCVC, ResizeCV,
        WorkerFails, HandleAdd, CreateVolumeTarget, StoreInit, HandleSync,
        AddResizeConditions, ResizeTarget, UpdateConfFile, ResizeCStorVolume,
        StoreVolumeStatus, VolumeMgmtRestart, TargetRestart, PodRestart
  <2> QED
    BY <1>3, <2>1
<1>10. CASE UNCHANGED vars
  BY <1>1, <1>10 DEF vars
<1> QED
  BY <1>5, <1>6, <1>7, <1>8, <1>9, <1>10, Zenon DEF Next, Worker, VolumeManager

\* The protocol between the CVC controller and the volume manager implements
\* VolumeExpansion: what a CVC announces was requested and is configured, for
\* every capacity and through every fault.
THEOREM PromiseKept == ASSUME ~ExpandWhilePending PROVE Spec => KeepsPromise
<1>1. Init => Promise!Init
  BY DEF Init, Promise!Init
<1>2. IInv /\ IInv' /\ [Next]_vars => [Promise!Next]_(Promise!expansionVars)
  BY PromiseStep
<1> QED
  BY <1>1, <1>2, Invariant, PTL DEF Spec, KeepsPromise, Promise!Spec

-----------------------------------------------------------------------------
\* While istgt itself keeps running: a target that is up exports what the CV
\* reports, and the resize command comes before the report.
Exports ==
  /\ target # 0 => ProvisionedCap <= target /\ cv.status <= target
  /\ vmAt = "conf" => vmCV.spec <= target
  /\ vmAt = "update" => vmCV.status = vmBase.status \/ vmCV.status <= target

\* One step keeps the exported capacity when the target is not restarted alone.
LEMMA ExportStep ==
  ASSUME ~ExpandWhilePending, "target" \notin FaultKinds, IInv, IInv', Exports,
         [Next]_vars
  PROVE  Exports'
<1> USE ResizeAssumption
    DEF IInv, TypeOK, CVC, CV, Cap, VMSteps, Requests, Copies, Achievements,
        Exports, opVars, vmVars
<1>1. CASE UNCHANGED <<cv, target, vmVars>>
  BY <1>1
<1>2. CASE GetOrCreateCStorVolumeResource \/ ResizeCV
  BY <1>2 DEF GetOrCreateCStorVolumeResource, ResizeCV
<1>3. CASE HandleAdd
  BY <1>3 DEF HandleAdd
<1>4. CASE CreateVolumeTarget
  BY <1>4 DEF CreateVolumeTarget
<1>5. CASE StoreInit
  BY <1>5 DEF StoreInit, UpdateSucceeds
<1>6. ASSUME NEW e \in {"Modify", "PeriodicSync"}, HandleSync(e) PROVE Exports'
  BY <1>6, Zenon DEF HandleSync
<1>7. CASE AddResizeConditions
  BY <1>7 DEF AddResizeConditions, AfterResize, UpdateSucceeds
<1>8. CASE ResizeTarget
  BY <1>8 DEF ResizeTarget
<1>9. CASE UpdateConfFile
  BY <1>9 DEF UpdateConfFile
<1>10. CASE ResizeCStorVolume
  BY <1>10 DEF ResizeCStorVolume, AfterResize, UpdateSucceeds
<1>11. CASE StoreVolumeStatus
  BY <1>11 DEF StoreVolumeStatus, UpdateSucceeds
<1>12. CASE VolumeMgmtRestart \/ PodRestart
  BY <1>12 DEF VolumeMgmtRestart, PodRestart
<1>13. CASE TargetRestart
  BY <1>13 DEF TargetRestart, Fault
<1>14. CASE \/ (\E c \in Cap : Expand(c)) \/ WatchCVC \/ SyncCVC \/ UpdateCVCObj
            \/ ResizeCVC \/ MarkCVCResizeInProgress \/ MarkCVCResizeFinished
            \/ WorkerFails
  BY <1>1, <1>14
  DEF Expand, WatchCVC, SyncCVC, UpdateCVCObj, ResizeCVC, MarkCVCResizeInProgress,
      MarkCVCResizeFinished, WorkerFails
<1>15. CASE UNCHANGED vars
  BY <1>1, <1>15 DEF vars
<1> QED
  BY <1>2, <1>3, <1>4, <1>5, <1>6, <1>7, <1>8, <1>9, <1>10, <1>11, <1>12, <1>13,
     <1>14, <1>15, Zenon
  DEF Next, Worker, VolumeManager

\* As long as the istgt container is not restarted on its own, the running
\* target exports at least the capacity the CVC announces.
THEOREM AnnouncedExported ==
  ASSUME ~ExpandWhilePending, "target" \notin FaultKinds
  PROVE  Spec => []AnnouncedIsExported
<1>1. Init => Exports
  BY ResizeAssumption DEF Init, Exports
<1>2. IInv /\ IInv' /\ Exports /\ [Next]_vars => Exports'
  BY ExportStep
<1>3. IInv /\ Exports => AnnouncedIsExported
  BY ResizeAssumption
  DEF IInv, TypeOK, CVC, CV, Cap, Achievements, Exports, AnnouncedIsExported
<1> QED
  BY <1>1, <1>2, <1>3, Invariant, PTL DEF Spec
=============================================================================
