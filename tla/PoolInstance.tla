---------------------------- MODULE PoolInstance ----------------------------
(***************************************************************************)
(* One cStor pool: the CStorPoolInstance (CSPI) that describes it, the     *)
(* worker of its pool manager (pkg/controllers/cspi-controller) with the   *)
(* operations on zpool (pkg/pool/operations), and the two that change its  *)
(* layout: the admission webhook (pkg/webhook/cspc_operations.go) and the  *)
(* CSPC operator (pkg/controllers/cspc-controller/operations.go).          *)
(*                                                                         *)
(* Every API call and zpool command of the worker is a step of its own,    *)
(* and may fail.  fresh says that nobody else has written the CSPI since   *)
(* the worker read or wrote it: an Update is refused otherwise.  Raid      *)
(* groups are data groups; a device stands for its paths.  zpool itself is *)
(* external.                                                               *)
(***************************************************************************)
EXTENDS Integers, FiniteSets

CONSTANTS
  BD, NoBD,      \* the block devices (BDs) of the node
  InitialGroups, \* the raid groups of the pool in the first CSPC
  Striped,       \* dataRaidGroupType is stripe
  Migrated,      \* whether the devices may hold a pool under its name in an older release
  ScanLag,       \* a resilver that has begun may not yet show a byte processed
  BlankVdev,     \* the vdev of a raid group, which has no path, is found by an empty path
  EditKinds,     \* what users do
  FaultKinds,    \* the kinds of fault that happen
  MaxEvents      \* bound: edits and faults together

ASSUME PoolAssumption ==
  /\ IsFiniteSet(BD)
  /\ NoBD \notin BD
  /\ InitialGroups \subseteq (SUBSET BD) \ {{}}
  /\ InitialGroups # {}
  /\ \A g, h \in InitialGroups : g # h => g \cap h = {}
  /\ ~Striped => \A g \in InitialGroups : \E a, b \in g : a # b
  /\ Striped \in BOOLEAN /\ ScanLag \in BOOLEAN /\ BlankVdev \in BOOLEAN
  /\ Migrated \subseteq BOOLEAN /\ Migrated # {}
  /\ EditKinds \subseteq {"replace", "reject", "expand", "delete", "fill", "compress"}
  /\ FaultKinds \subseteq {"call", "zpool", "container", "manager", "pod"}
  /\ MaxEvents \in Nat

VARIABLES
  spec,      \* the raid groups of the pool in the CSPC
  edits,
  bdc,       \* the BlockDeviceClaim (BDC) of every device
  cspi,      \* the CSPI
  poolName,  \* the zpool on the devices: "none", or under its name,
  imported,  \*   whether the cstor-pool container has imported it,
  members,   \*   its devices,
  swap,      \*   the replacements under way: <<old, new>>,
  scan,      \*   the resilver of each device,
  poolRO,    \*   io.openebs:readonly,
  comp,      \*   the compression of its dataset,
  full,      \*   and whether its use is over roThresholdLimit
  at,        \* the worker: where it is,
  w,         \*   its copy of the CSPI,
  fresh,     \*   whether that is the latest,
  made,      \*   whether it has created the pool in this pass,
  listed,    \*   the claims it has listed,
  todo,      \*   the devices it has yet to look at,
  cur,       \*   the device whose replacement it is finishing,
  triggered, \*   isReplacementTriggered,
  replacing, \*   the devices of replacingBlockDeviceCount,
  changed,   \*   isObjChanged,
  err,       \*   whether something has failed,
  cached,    \*   and datasetsToProperties
  faults

users == <<spec, edits>>
zpool == <<poolName, imported, members, swap, scan, poolRO, comp>>
loop == <<listed, todo, cur, triggered, replacing, changed>>
worker == <<at, w, fresh, made, loop, err, cached>>
vars == <<users, bdc, cspi, zpool, full, worker, faults>>

Devices(groups) == UNION groups

NoClaim == [st |-> "none", mark |-> NoBD]

\* A new CSPI.  rename is the annotation with the existing pool name.
NewCSPI(old) ==
  [life |-> "live", fin |-> FALSE, phase |-> "", ro |-> FALSE, groups |-> InitialGroups,
   linked |-> {}, rename |-> old, lost |-> FALSE, replaced |-> "none", expanded |-> "none",
   comp |-> 0]

NoCopy == NewCSPI(FALSE)

Init ==
  /\ spec = InitialGroups
  /\ edits = 0
  /\ bdc = [d \in BD |-> IF d \in Devices(spec) THEN [NoClaim EXCEPT !.st = "held"] ELSE NoClaim]
  /\ \E old \in Migrated :
       /\ cspi = NewCSPI(old)
       /\ poolName = IF old THEN "old" ELSE "none"
       /\ members = IF old THEN Devices(spec) ELSE {}
  /\ imported = FALSE
  /\ swap = {}
  /\ scan = [d \in BD |-> "none"]
  /\ poolRO = FALSE /\ comp = 0 /\ full = FALSE
  /\ at = "idle" /\ w = NoCopy /\ fresh = FALSE /\ made = FALSE
  /\ listed = [d \in BD |-> NoClaim] /\ todo = {} /\ cur = NoBD
  /\ triggered = FALSE /\ replacing = {} /\ changed = FALSE
  /\ err = FALSE
  /\ cached = {}
  /\ faults = 0

Fault(kind) ==
  /\ kind \in FaultKinds
  /\ edits + faults < MaxEvents
  /\ faults' = faults + 1

NoFault == UNCHANGED faults

Edit(kind) ==
  /\ kind \in EditKinds
  /\ edits + faults < MaxEvents
  /\ edits' = edits + 1

-----------------------------------------------------------------------------
(* The worker: writing the CSPI, and moving on                             *)

\* The worker goes to a place with its copy of the CSPI.  When the pass is over it
\* keeps nothing of it.
Goto(place, copy, failed) ==
  /\ at' = place
  /\ w' = IF place = "idle" THEN NoCopy ELSE copy
  /\ err' = (place # "idle" /\ failed)
  /\ fresh' = (place # "idle" /\ fresh)
  /\ made' = (place # "idle" /\ made)
  /\ UNCHANGED cached

\* What the API server stores: without a finalizer, a deleted CSPI is gone.
Stored(obj) == IF obj.life = "deleting" /\ ~obj.fin THEN [obj EXCEPT !.life = "gone"] ELSE obj

\* Update: the worker goes to ok with the object it has written, or to bad with
\* another one, and knows of the failure.
UpdateCSPI(obj, ok, bad, kept, failed) ==
  \/ /\ fresh
     /\ cspi' = Stored(obj)
     /\ NoFault
     /\ Goto(ok, obj, err)
  \/ /\ \/ ~fresh /\ NoFault
        \/ fresh /\ Fault("call")
     /\ UNCHANGED cspi
     /\ Goto(bad, kept, failed)

AfterPass(copyMade) == IF copyMade THEN "idle" ELSE "sync"

-----------------------------------------------------------------------------
(* The worker: reconcile, until the pool is there                          *)

\* reconcile reads the CSPI, and decides what to do with it.
Reconcile ==
  /\ at = "idle"
  /\ cspi.life = "live" \/ (cspi.life = "deleting" /\ cspi.fin)
  /\ at' = CASE cspi.life = "deleting" -> "delete"
             [] cspi.life = "live" /\ ~cspi.fin -> "finalize"
             [] OTHER -> "import"
  /\ w' = cspi
  /\ fresh' = TRUE
  /\ UNCHANGED <<users, bdc, cspi, zpool, full, made, loop, err, cached, faults>>

\* addPoolProtectionFinalizer
AddPoolProtectionFinalizer ==
  /\ at = "finalize"
  /\ LET obj == [w EXCEPT !.fin = TRUE] IN UpdateCSPI(obj, "import", "idle", w, FALSE)
  /\ UNCHANGED <<users, bdc, zpool, full, loop>>

\* checkIfPoolPresent: any failure of the command counts as no.
CheckIfPoolPresent(found) ==
  \/ found = (poolName = "new" /\ imported) /\ NoFault
  \/ found = FALSE /\ poolName = "new" /\ imported /\ Fault("zpool")

\* checkIfPoolIsImportable looks for the pool under its present name only.
Importable == poolName = "new" /\ ~imported

\* Mutant: the phase is not looked at.
CreateAnyway == "create"

\* A pool that is not there is created if it has never been reported, else it is lost.
NotImported == IF w.phase = "" THEN "create" ELSE "lost"

\* Import: the pool may be there already.
Import ==
  /\ at = "import"
  /\ \E found \in BOOLEAN :
       /\ CheckIfPoolPresent(found)
       /\ CASE found -> Goto("list", [w EXCEPT !.rename = FALSE], FALSE)
            [] ~found /\ w.rename -> Goto("importable", w, FALSE)
            [] OTHER -> Goto("zimport", w, FALSE)
  /\ UNCHANGED <<users, bdc, cspi, zpool, full, loop>>

\* Import: a pool that has its present name is not renamed again.
CheckImportable ==
  /\ at = "importable"
  /\ \/ NoFault /\ Goto("zimport", [w EXCEPT !.rename = w.rename /\ ~Importable], FALSE)
     \/ Fault("zpool") /\ Goto(NotImported, w, FALSE)
  /\ UNCHANGED <<users, bdc, cspi, zpool, full, loop>>

\* Import: zpool import from the cache file, else from the devices, under the present name.
ZpoolImport ==
  /\ at = "zimport"
  /\ \/ /\ ~imported
        /\ poolName = IF w.rename THEN "old" ELSE "new"
        /\ NoFault
        /\ poolName' = "new"
        /\ imported' = TRUE
        /\ Goto("list", [w EXCEPT !.rename = FALSE], FALSE)
     \/ /\ \/ (imported \/ poolName # IF w.rename THEN "old" ELSE "new") /\ NoFault
           \/ Fault("zpool")
        /\ UNCHANGED <<poolName, imported>>
        /\ Goto(NotImported, w, FALSE)
  /\ UNCHANGED <<users, bdc, cspi, members, swap, scan, poolRO, comp, full, loop>>

\* Create: not while the pool can be found on the devices.
Create ==
  /\ at = "create"
  /\ \/ NoFault /\ Goto(IF Importable THEN "undo" ELSE "zcreate", w, FALSE)
     \/ Fault("zpool") /\ Goto("undo", w, FALSE)
  /\ UNCHANGED <<users, bdc, cspi, zpool, full, loop>>

\* createPool: zpool create -f on the first raid group.  It takes the devices of a pool
\* that is not imported, but no name twice.
CreatePool ==
  /\ at = "zcreate"
  /\ \/ /\ poolName # "new"
        /\ NoFault
        /\ \E g \in w.groups : members' = g
        /\ poolName' = "new"
        /\ imported' = TRUE
        /\ comp' = w.comp
        /\ scan' = [d \in BD |-> "none"]
        /\ swap' = {} /\ poolRO' = FALSE
        /\ Goto("zadd", w, FALSE)
     \/ /\ (poolName = "new" /\ NoFault) \/ Fault("zpool")
        /\ UNCHANGED zpool
        /\ Goto("undo", w, FALSE)
  /\ UNCHANGED <<users, bdc, cspi, full, loop>>

\* zpool add of raid groups; those that fail are left out.
AddRaidGroups(missing, failed) ==
  /\ imported
  /\ \/ failed = FALSE /\ NoFault /\ members' = members \cup UNION missing
     \/ /\ failed = TRUE /\ Fault("zpool")
        /\ \E some \in SUBSET missing :
             some # missing /\ members' = members \cup UNION some

\* Create: the other raid groups are added.
AddOtherGroups ==
  /\ at = "zadd"
  /\ \/ \E failed \in BOOLEAN :
          /\ AddRaidGroups({g \in w.groups : g \cap members = {}}, failed)
          /\ at' = IF failed THEN "undo" ELSE "list"
          /\ made' = ~failed
     \/ /\ ~imported /\ NoFault
        /\ at' = IF w.groups = {members} THEN "list" ELSE "undo"
        /\ made' = (w.groups = {members})
        /\ UNCHANGED members
  /\ UNCHANGED <<users, bdc, cspi, poolName, imported, swap, scan, poolRO, comp, full,
                 w, fresh, loop, err, cached>>

\* Delete: zpool destroy, unless the pool seems not to be there.
Delete(ok, bad) ==
  \/ \E found \in BOOLEAN :
       /\ CheckIfPoolPresent(found)
       /\ IF found
          THEN /\ poolName' = "none" /\ imported' = FALSE
               /\ members' = {} /\ swap' = {}
               /\ UNCHANGED <<scan, poolRO, comp>>
          ELSE UNCHANGED zpool
       /\ Goto(ok, w, FALSE)
  \/ /\ poolName = "new" /\ imported
     /\ Fault("zpool")
     /\ UNCHANGED zpool
     /\ Goto(bad, w, FALSE)

\* What a failed creation has made is deleted.
UndoCreate ==
  /\ at = "undo"
  /\ Delete("idle", "idle")
  /\ UNCHANGED <<users, bdc, cspi, full, loop>>

\* UpdateStatusConditionEventually: the condition PoolLost, on the latest CSPI if need be.
MarkLost ==
  /\ at = "lost"
  /\ \/ NoFault /\ cspi' = [(IF fresh THEN w ELSE cspi) EXCEPT !.lost = TRUE]
     \/ Fault("call") /\ UNCHANGED cspi
  /\ Goto("idle", w, FALSE)
  /\ UNCHANGED <<users, bdc, zpool, full, loop>>

-----------------------------------------------------------------------------
(* The worker: Update, which makes the pool follow the CSPI                *)

\* A failed Update skips updateStatus; a created pool is not synced.
AfterUpdate(failed) == IF failed THEN AfterPass(made) ELSE "status"

\* Update: the claims are listed.
ListClaims ==
  /\ at = "list"
  /\ \/ /\ NoFault
        /\ Goto("device", w, FALSE)
        /\ listed' = bdc
        /\ todo' = Devices(w.groups)
     \/ /\ Fault("call")
        /\ Goto(AfterUpdate(TRUE), w, TRUE)
        /\ UNCHANGED <<listed, todo>>
  /\ UNCHANGED <<users, bdc, cspi, zpool, full, cur, triggered, replacing, changed>>

\* replacePoolVdev for a device and the one it replaces: path says that the device is in
\* the pool afterwards.  zpool does not replace a device twice.
ReplacePoolVdev(old, d, path, failed) ==
  \/ /\ imported /\ d \in members
     /\ path = TRUE /\ failed = FALSE
     /\ NoFault /\ UNCHANGED <<members, swap, scan>>
  \/ /\ imported /\ d \notin members /\ old = NoBD
     /\ path = FALSE /\ failed = FALSE
     /\ NoFault /\ UNCHANGED <<members, swap, scan>>
  \/ /\ imported /\ d \notin members /\ old \in members
     /\ \A x \in swap : x[1] # old
     /\ path = TRUE /\ failed = FALSE
     /\ members' = members \cup {d}
     /\ swap' = swap \cup {<<old, d>>}
     /\ scan' = [scan EXCEPT ![d] = "started"]
     /\ NoFault
  \/ /\ path = FALSE /\ failed = TRUE
     /\ \/ ~imported /\ NoFault
        \/ /\ d \notin members /\ old # NoBD
           /\ old \notin members \/ \E x \in swap : x[1] = old
           /\ NoFault
        \/ Fault("zpool")
     /\ UNCHANGED <<members, swap, scan>>

\* isReplacementTriggered and replacingBlockDeviceCount
CountReplacement(old, d) ==
  /\ triggered' = (triggered \/ old # NoBD)
  /\ replacing' = IF old # NoBD THEN replacing \cup {d} ELSE replacing

\* Update: one device.  The claim, or the path of the predecessor it names, may be missing;
\* so may the device's own path, and the resilver is looked for by an empty path then, which
\* leads to no vdev, or to one that seems not to resilver.  A device that is marked as a
\* successor takes its predecessor's place, and the end of the resilver is looked for.
UpdateDevice ==
  /\ at = "device"
  /\ \E d \in todo :
       LET old == listed[d].mark IN
       /\ todo' = todo \ {d}
       /\ \/ /\ IF listed[d].st = "none" THEN NoFault ELSE old # NoBD /\ Fault("call")
             /\ UNCHANGED <<zpool, changed, cur, triggered, replacing>>
             /\ Goto("device", w, TRUE)
          \/ /\ listed[d].st # "none" /\ Fault("call")
             /\ CountReplacement(old, d)
             /\ UNCHANGED <<zpool, changed>>
             /\ \E over \in {FALSE, BlankVdev /\ imported /\ old # NoBD} :
                  /\ cur' = IF over THEN d ELSE NoBD
                  /\ Goto(IF over THEN "unfinalize" ELSE "device", w, TRUE)
          \/ /\ listed[d].st # "none"
             /\ CountReplacement(old, d)
             /\ UNCHANGED <<poolName, imported, poolRO, comp>>
             /\ \E path, failed \in BOOLEAN :
                  /\ ReplacePoolVdev(old, d, path, failed)
                  /\ changed' = (changed \/ (path /\ d \notin w.linked))
                  /\ cur' = IF path /\ old # NoBD THEN d ELSE NoBD
                  /\ Goto(IF path /\ old # NoBD THEN "resilver" ELSE "device",
                          IF path THEN [w EXCEPT !.linked = @ \cup {d}] ELSE w, err \/ failed)
  /\ UNCHANGED <<users, bdc, cspi, full, listed>>

\* Mutant: the state of the scan is not looked at.
ResilverIsInstant(d, result) == result = FALSE /\ imported /\ NoFault

\* isResilveringInProgress: what cannot be known counts as yes; nothing processed, as no.
IsResilveringInProgress(d, result) ==
  \/ /\ result = TRUE
     /\ ~imported \/ d \notin members \/ scan[d] \in {"started", "running"}
     /\ NoFault
  \/ result = TRUE /\ Fault("zpool")
  \/ /\ result = FALSE
     /\ imported /\ d \in members
     /\ scan[d] \in {"none", "done"} \/ (scan[d] = "started" /\ ScanLag)
     /\ NoFault

\* Update: when the resilver is over, the marks of the replacement are cleaned up.
CheckResilver ==
  /\ at = "resilver"
  /\ \E result \in BOOLEAN :
       /\ IsResilveringInProgress(cur, result)
       /\ Goto(IF result THEN "device" ELSE "unfinalize", w, err)
       /\ cur' = IF result THEN NoBD ELSE cur
  /\ UNCHANGED <<users, bdc, cspi, zpool, full, listed, todo, triggered, replacing, changed>>

\* One call of cleanUpReplacementMarks: it may fail, and that ends the cleanup.
CleanUp(possible, claims, next) ==
  \/ /\ possible /\ NoFault
     /\ bdc' = claims
     /\ Goto(next, w, err)
     /\ cur' = IF next = "device" THEN NoBD ELSE cur
  \/ /\ (~possible /\ NoFault) \/ (possible /\ Fault("call"))
     /\ UNCHANGED bdc
     /\ Goto("device", w, TRUE)
     /\ cur' = NoBD

\* cleanUpReplacementMarks: the finalizer of the predecessor's claim
RemoveClaimFinalizer ==
  /\ at = "unfinalize"
  /\ LET old == listed[cur].mark IN
     CASE listed[old].st = "none" -> CleanUp(TRUE, bdc, "unmark")
       [] listed[old].st = "open" -> CleanUp(TRUE, bdc, "unclaim")
       [] OTHER -> CleanUp(bdc[old] = listed[old], [bdc EXCEPT ![old].st = "open"], "unclaim")
  /\ UNCHANGED <<users, cspi, zpool, full, listed, todo, triggered, replacing, changed>>

\* cleanUpReplacementMarks: the predecessor's claim
UnclaimPredecessor ==
  /\ at = "unclaim"
  /\ LET old == listed[cur].mark IN
     CleanUp(bdc[old].st # "none", [bdc EXCEPT ![old] = NoClaim], "unmark")
  /\ UNCHANGED <<users, cspi, zpool, full, listed, todo, triggered, replacing, changed>>

\* cleanUpReplacementMarks: the mark on the successor's claim
RemoveMark ==
  /\ at = "unmark"
  /\ LET ok == bdc[cur] = listed[cur] IN
     /\ CleanUp(ok, [bdc EXCEPT ![cur].mark = NoBD], "device")
     /\ replacing' = IF bdc' # bdc THEN replacing \ {cur} ELSE replacing
  /\ UNCHANGED <<users, cspi, zpool, full, listed, todo, triggered, changed>>

\* Update: the condition DiskReplacement, and the devices' links.
RecordReplacement ==
  /\ at = "device" /\ todo = {}
  /\ LET state == IF replacing # {} THEN "True" ELSE "False"
         obj == IF triggered THEN [w EXCEPT !.replaced = state] ELSE w
     IN IF triggered \/ changed
        THEN UpdateCSPI(obj, "expand", "expand", obj, TRUE)
        ELSE Goto("expand", w, err) /\ NoFault /\ UNCHANGED cspi
  /\ listed' = [d \in BD |-> NoClaim]
  /\ triggered' = FALSE /\ replacing' = {} /\ changed' = FALSE
  /\ UNCHANGED <<users, bdc, zpool, full, todo, cur>>

\* updateNewVdevFromCSPI: a raid group none of whose devices is in the pool is added,
\* and so are the new devices of a stripe.
NewVdevs ==
  IF Striped THEN {g \ members : g \in w.groups} \ {{}}
  ELSE {g \in w.groups : g \cap members = {}}

\* updateNewVdevFromCSPI: the condition PoolExpansion is true in the pass that adds
\* something, and false in the next one that does not.
UpdateNewVdevFromCSPI ==
  /\ at = "expand"
  /\ \/ /\ NewVdevs # {}
        /\ \E failed \in BOOLEAN :
             AddRaidGroups(NewVdevs, failed) /\ Goto("expanded", w, err \/ failed)
     \/ /\ imported /\ NewVdevs = {}
        /\ NoFault /\ UNCHANGED members
        /\ Goto(IF w.expanded = "True" THEN "expanded" ELSE AfterUpdate(err), w, err)
     \/ /\ (~imported /\ NoFault) \/ (imported /\ Fault("zpool"))
        /\ UNCHANGED members
        /\ Goto(AfterUpdate(TRUE), w, TRUE)
  /\ triggered' = (at' = "expanded" /\ NewVdevs # {})
  /\ UNCHANGED <<users, bdc, cspi, poolName, imported, swap, scan, poolRO, comp, full, listed,
                 todo, cur, replacing, changed>>

\* updateNewVdevFromCSPI: the condition is written.
RecordExpansion ==
  /\ at = "expanded"
  /\ LET obj == [w EXCEPT !.expanded = IF triggered THEN "True" ELSE "False"]
     IN UpdateCSPI(obj, AfterUpdate(err), AfterUpdate(TRUE), w, TRUE)
  /\ triggered' = FALSE
  /\ UNCHANGED <<users, bdc, zpool, full, listed, todo, cur, replacing, changed>>

\* Mutant: the mode is never unset.
SetROModeOnly(mode) == mode = (full \/ poolRO) /\ NoFault

\* updateROMode: io.openebs:readonly follows the use of the pool.
UpdateROMode(mode) ==
  \/ mode = full /\ NoFault
  \/ mode = poolRO /\ poolRO # full /\ Fault("zpool")

\* updateStatus: health and use are read, and a status that has changed is written.
UpdateStatus ==
  /\ at = "status"
  /\ \/ \E mode \in BOOLEAN :
          /\ imported
          /\ UpdateROMode(mode)
          /\ poolRO' = mode
          /\ LET obj == [w EXCEPT !.phase = "ONLINE", !.ro = mode]
             IN Goto(IF obj = w THEN AfterPass(made) ELSE "report", obj, FALSE)
     \/ /\ (~imported /\ NoFault) \/ (imported /\ Fault("zpool"))
        /\ UNCHANGED poolRO
        /\ Goto(AfterPass(made), w, FALSE)
  /\ UNCHANGED <<users, bdc, cspi, poolName, imported, members, swap, scan, comp, full, loop>>

\* updateStatus: the status is written.
WriteStatus ==
  /\ at = "report"
  /\ UpdateCSPI(w, AfterPass(made), AfterPass(made), w, FALSE)
  /\ UNCHANGED <<users, bdc, zpool, full, loop>>

\* sync: SetPoolFSPropertiesIfNot asks zfs only for what it does not remember.
SetPoolProperties ==
  /\ at = "sync"
  /\ at' = "idle" /\ w' = NoCopy /\ fresh' = FALSE /\ made' = FALSE /\ err' = FALSE
  /\ \/ w.comp \in cached /\ NoFault /\ UNCHANGED <<comp, cached>>
     \/ /\ w.comp \notin cached
        /\ imported
        /\ NoFault
        /\ comp' = w.comp
        /\ cached' = {w.comp}
     \/ /\ w.comp \notin cached
        /\ (~imported /\ NoFault) \/ (imported /\ Fault("zpool"))
        /\ UNCHANGED <<comp, cached>>
  /\ UNCHANGED <<users, bdc, cspi, poolName, imported, members, swap, scan, poolRO, full, loop>>

-----------------------------------------------------------------------------
(* The worker: destroy                                                     *)

\* Mutant: a pool that is not there is a failure.
DestroyPoolStrictly ==
  /\ at = "delete"
  /\ IF imported THEN Delete("release", "delfailed")
     ELSE Goto("delfailed", w, FALSE) /\ NoFault /\ UNCHANGED zpool
  /\ UNCHANGED <<users, bdc, cspi, full, loop>>

\* destroy: the pool first
DestroyPool ==
  /\ at = "delete"
  /\ Delete("release", "delfailed")
  /\ UNCHANGED <<users, bdc, cspi, full, loop>>

\* removeFinalizer takes the finalizer off the copy, whether or not it can be written.
RemoveFinalizer ==
  /\ at = "release"
  /\ LET obj == [w EXCEPT !.fin = FALSE] IN UpdateCSPI(obj, "idle", "delfailed", obj, FALSE)
  /\ UNCHANGED <<users, bdc, zpool, full, loop>>

\* destroy: the phase DeletionFailed
MarkDeletionFailed ==
  /\ at = "delfailed"
  /\ LET obj == [w EXCEPT !.phase = "DeletionFailed"] IN UpdateCSPI(obj, "idle", "idle", w, FALSE)
  /\ UNCHANGED <<users, bdc, zpool, full, loop>>

Work ==
  \/ Reconcile \/ AddPoolProtectionFinalizer \/ Import \/ CheckImportable \/ ZpoolImport
  \/ Create \/ CreatePool \/ AddOtherGroups \/ UndoCreate \/ MarkLost
  \/ ListClaims \/ UpdateDevice \/ CheckResilver
  \/ RemoveClaimFinalizer \/ UnclaimPredecessor \/ RemoveMark
  \/ RecordReplacement \/ UpdateNewVdevFromCSPI \/ RecordExpansion
  \/ UpdateStatus \/ WriteStatus \/ SetPoolProperties
  \/ DestroyPool \/ RemoveFinalizer \/ MarkDeletionFailed

-----------------------------------------------------------------------------
(* Users, and the admission webhook that judges their edits of the CSPC    *)

\* GetPredecessorBDIfAny
Predecessors == {bdc[d].mark : d \in Devices(spec)}

\* IsBDValid: the device has no claim, or this CSPC's, and is not being replaced.
IsBDValid(d) == d \notin Predecessors

\* IsExistingReplacmentInProgress
IsExistingReplacementInProgress(g) == \E d \in g : bdc[d].mark # NoBD

\* IsBDReplacementValid, for one device of a raid group
IsBDReplacementValid(g, new) ==
  /\ ~Striped
  /\ new \notin Devices(spec)
  /\ ~IsExistingReplacementInProgress(g)
  /\ IsBDValid(new)

\* Mutant: the mark names another device than the one that goes.
ClaimBDForAnother(new, old) ==
  [bdc EXCEPT ![new] = [st |-> "new", mark |-> CHOOSE d \in Devices(spec) : d # old]]

\* ClaimBD of the webhook: a claim, or a mark on the one that is there.
ClaimBD(new, old) ==
  [bdc EXCEPT ![new] = IF @.st = "none" THEN [st |-> "new", mark |-> old]
                       ELSE [@ EXCEPT !.mark = old]]

\* A user replaces a device of a raid group.  The claim is made while the edit is being
\* judged; the edit itself may still be refused by another webhook, or lose a race.
ReplaceDevice ==
  /\ cspi.life = "live"
  /\ \E g \in spec : \E old \in g, new \in BD :
       /\ IsBDReplacementValid(g, new)
       /\ bdc' = ClaimBD(new, old)
       /\ \E outcome \in {"replace", "reject"} :
            /\ Edit(outcome)
            /\ spec' = IF outcome = "reject" THEN spec
                       ELSE (spec \ {g}) \cup {(g \ {old}) \cup {new}}
  /\ UNCHANGED <<cspi, zpool, full, worker, faults>>

\* validatePoolExpansion: a raid group like the others is added, or devices to a stripe.
ExpandPool ==
  /\ cspi.life = "live"
  /\ Edit("expand")
  /\ \E g \in SUBSET (BD \ Devices(spec)) :
       /\ g # {}
       /\ \A d \in g : IsBDValid(d)
       /\ IF Striped THEN \E s \in spec : spec' = (spec \ {s}) \cup {s \cup g}
          ELSE /\ \A s \in spec : Cardinality(s) = Cardinality(g)
               /\ spec' = spec \cup {g}
  /\ UNCHANGED <<bdc, cspi, zpool, full, worker, faults>>

\* Somebody else writes the CSPI.
WriteByOther(obj) ==
  /\ cspi' = Stored(obj)
  /\ fresh' = FALSE
  /\ UNCHANGED <<at, w, made, loop, err, cached>>

\* The CSPI is deleted (external: the CSPC operator, or a user).
DeleteCSPI ==
  /\ cspi.life = "live"
  /\ Edit("delete")
  /\ WriteByOther([cspi EXCEPT !.life = "deleting"])
  /\ UNCHANGED <<spec, bdc, zpool, full, faults>>

\* Another compression is asked for (external: the CSPC operator copies poolConfig).  Bound:
\* once, and not back.
SetCompression ==
  /\ cspi.life = "live" /\ cspi.comp = 0
  /\ Edit("compress")
  /\ WriteByOther([cspi EXCEPT !.comp = 1])
  /\ UNCHANGED <<spec, bdc, zpool, full, faults>>

\* The use of the pool crosses roThresholdLimit (external).
UsePool ==
  /\ imported
  /\ Edit("fill")
  /\ full' = ~full
  /\ UNCHANGED <<spec, bdc, cspi, zpool, worker, faults>>

-----------------------------------------------------------------------------
(* The CSPC operator's handleOperations; an Update that is refused leaves  *)
(* nothing behind, and is made again on the next pass                      *)

\* isBDUsable: the claim is bound, and this CSPC's.
IsBDUsable(d) == bdc[d].st \in {"held", "open"}

\* replaceExistingBlockDevice, where one device of a raid group of the CSPI is not in the
\* raid group of the CSPC.
ReplaceExistingBlockDevice ==
  /\ cspi.life # "gone"
  /\ \E s \in spec, c \in cspi.groups : \E old \in c \ s, new \in s \ c :
       /\ c \ s = {old}
       /\ old \notin Devices(spec)
       /\ IsBDUsable(new)
       /\ WriteByOther([cspi EXCEPT !.groups = (@ \ {c}) \cup {(c \ {old}) \cup {new}},
                                    !.linked = @ \ {old}])
  /\ UNCHANGED <<users, bdc, zpool, full, faults>>

\* The devices that expandPool would put on the CSPI: raid groups none of whose devices is
\* there, and the new devices of a stripe.
Added ==
  IF Striped THEN {{d} : d \in Devices(spec) \ Devices(cspi.groups)}
  ELSE IF Cardinality(spec) > Cardinality(cspi.groups)
       THEN {s \in spec : s \cap Devices(cspi.groups) = {}}
       ELSE {}

\* addGroupToPool and addBlockDeviceToGroup claim the devices that have no claim yet,
ClaimAdded ==
  /\ cspi.life # "gone"
  /\ \E d \in UNION Added :
       /\ bdc[d].st = "none"
       /\ bdc' = [bdc EXCEPT ![d] = [st |-> "new", mark |-> NoBD]]
  /\ UNCHANGED <<users, cspi, zpool, full, worker, faults>>

\* and put them on the CSPI when they are usable.
ExpandCSPI ==
  /\ cspi.life # "gone"
  /\ \E g \in Added :
       /\ \A d \in g : IsBDUsable(d)
       /\ IF Striped
          THEN \E c \in cspi.groups, s \in spec :
                 /\ c \cap s # {} /\ g \subseteq s
                 /\ WriteByOther([cspi EXCEPT !.groups = (@ \ {c}) \cup {c \cup g}])
          ELSE WriteByOther([cspi EXCEPT !.groups = @ \cup {g}])
  /\ UNCHANGED <<users, bdc, zpool, full, faults>>

-----------------------------------------------------------------------------
(* NDM, zpool and the kubelet                                              *)

\* NDM binds a new claim to its device (external).
BindClaim(d) ==
  /\ bdc[d].st = "new"
  /\ bdc' = [bdc EXCEPT ![d].st = "held"]
  /\ UNCHANGED <<users, cspi, zpool, full, worker, faults>>

\* A resilver advances; when it ends, the old device leaves the pool (external).
Resilver(x) ==
  /\ imported
  /\ x \in swap
  /\ \/ /\ scan[x[2]] = "started"
        /\ scan' = [scan EXCEPT ![x[2]] = "running"]
        /\ UNCHANGED <<members, swap>>
     \/ /\ scan[x[2]] = "running"
        /\ scan' = [scan EXCEPT ![x[2]] = "done"]
        /\ members' = members \ {x[1]}
        /\ swap' = swap \ {x}
  /\ UNCHANGED <<users, bdc, cspi, poolName, imported, poolRO, comp, full, worker, faults>>

ForgetPass ==
  /\ at' = "idle" /\ w' = NoCopy /\ fresh' = FALSE /\ made' = FALSE /\ err' = FALSE
  /\ listed' = [d \in BD |-> NoClaim] /\ todo' = {} /\ cur' = NoBD
  /\ triggered' = FALSE /\ replacing' = {} /\ changed' = FALSE
  /\ cached' = {}

\* The cstor-pool container restarts: the pool is no longer imported.
ContainerRestarts ==
  /\ imported
  /\ Fault("container")
  /\ imported' = FALSE
  /\ UNCHANGED <<users, bdc, cspi, poolName, members, swap, scan, poolRO, comp, full, worker>>

\* The manager restarts; one that is told to stop marks the CSPI offline, unless the pool
\* has never been reported (markCSPIStatusToOffline).
ManagerRestarts ==
  /\ \/ Fault("manager") /\ UNCHANGED imported
     \/ Fault("pod") /\ imported' = FALSE
  /\ \E graceful \in BOOLEAN :
       cspi' = IF graceful /\ cspi.phase # "" /\ cspi.life # "gone" 
               THEN [cspi EXCEPT !.phase = "Offline"] ELSE cspi
  /\ ForgetPass
  /\ UNCHANGED <<users, bdc, poolName, members, swap, scan, poolRO, comp, full>>

-----------------------------------------------------------------------------
Next ==
  \/ Work
  \/ ReplaceDevice \/ ExpandPool \/ DeleteCSPI \/ SetCompression \/ UsePool
  \/ ReplaceExistingBlockDevice \/ ClaimAdded \/ ExpandCSPI
  \/ \E d \in BD : BindClaim(d)
  \/ \E x \in swap : Resilver(x)
  \/ ContainerRestarts \/ ManagerRestarts

Spec == Init /\ [][Next]_vars

\* The informer's resync brings the CSPI and the CSPC back to their workers, and
\* NDM and zpool do what they have begun.
Fairness ==
  /\ WF_vars(Work)
  /\ WF_vars(ReplaceExistingBlockDevice) /\ WF_vars(ClaimAdded) /\ WF_vars(ExpandCSPI)
  /\ \A d \in BD : WF_vars(BindClaim(d))
  /\ \A old, new \in BD : WF_vars(Resilver(<<old, new>>))

FairSpec == Spec /\ Fairness

-----------------------------------------------------------------------------
(* Properties                                                              *)

Claims == [st : {"none", "new", "held", "open"}, mark : BD \cup {NoBD}]

CSPIs ==
  [life : {"live", "deleting", "gone"}, fin : BOOLEAN,
   phase : {"", "ONLINE", "Offline", "DeletionFailed"}, ro : BOOLEAN,
   groups : SUBSET SUBSET BD, linked : SUBSET BD, rename : BOOLEAN, lost : BOOLEAN,
   replaced : {"none", "True", "False"}, expanded : {"none", "True", "False"}, comp : {0, 1}]

Places ==
  {"idle", "finalize", "import", "importable", "zimport", "create", "zcreate", "zadd", "undo",
   "lost", "list", "device", "resilver", "unfinalize", "unclaim", "unmark", "expand", "expanded",
   "status", "report", "sync", "delete", "release", "delfailed"}

\* The shape of the state: the claims, the CSPI and the worker's copy of it, the pool and the
\* worker's registers stay what reconcile and Update take them for.
TypeOK ==
  /\ spec \subseteq SUBSET BD
  /\ edits \in Nat /\ faults \in Nat /\ edits + faults <= MaxEvents
  /\ bdc \in [BD -> Claims] /\ listed \in [BD -> Claims]
  /\ cspi \in CSPIs /\ w \in CSPIs
  /\ cspi.life = "deleting" => cspi.fin
  /\ poolName \in {"none", "old", "new"} /\ imported \in BOOLEAN
  /\ members \subseteq BD /\ swap \subseteq BD \X BD
  /\ scan \in [BD -> {"none", "started", "running", "done"}]
  /\ poolRO \in BOOLEAN /\ comp \in {0, 1} /\ full \in BOOLEAN
  /\ at \in Places
  /\ fresh \in BOOLEAN /\ made \in BOOLEAN /\ err \in BOOLEAN
  /\ todo \subseteq BD /\ replacing \subseteq BD /\ cur \in BD \cup {NoBD}
  /\ cur # NoBD <=> at \in {"resilver", "unfinalize", "unclaim", "unmark"}
  /\ triggered \in BOOLEAN /\ changed \in BOOLEAN
  /\ cached \subseteq {0, 1}

\* A pool that the CSPI has ever reported is destroyed only when the CSPI is deleted: reconcile
\* deletes what a failed Create has left, but only for a CSPI with an empty phase, however a
\* zpool command fails and whenever the manager restarts.
ReportedPoolKept ==
  [][poolName = "new" /\ cspi.phase # "" /\ poolName' # "new" => cspi.life = "deleting"]_vars

\* As long as the pool reads from a device that is being replaced, the device keeps its claim:
\* cleanUpReplacementMarks comes only after isResilveringInProgress says no.
ReplacedDeviceClaimed == \A x \in swap : bdc[x[1]].st \in {"new", "held"}

\* A device leaves the pool only when the CSPI no longer names it: the predecessor mark that
\* Update acts on goes with a replacement in the CSPC.
NamedDeviceStays == \A x \in swap : x[1] \notin Devices(cspi.groups)

\* The pool has the devices of the CSPC, the claims carry no marks, and the CSPI tells of the
\* pool's state.
Settled ==
  /\ imported
  /\ members = Devices(spec) /\ swap = {}
  /\ \A d \in Devices(spec) : bdc[d].mark = NoBD
  /\ cspi.groups = spec /\ cspi.linked = Devices(spec)
  /\ cspi.phase = "ONLINE" /\ cspi.expanded # "True"
  /\ cspi.ro = full /\ poolRO = full
  /\ comp = cspi.comp

\* When edits and faults end, the pool comes to what the CSPC asks for, and the CSPI says so.
PoolFollowsSpec == <>[](cspi.life # "live" \/ Settled)

\* A deleted CSPI goes away: destroy releases its finalizer in the end.
DeletedIsReleased == cspi.life = "deleting" ~> cspi.life = "gone"
=============================================================================
