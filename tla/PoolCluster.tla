----------------------------- MODULE PoolCluster ----------------------------
(***************************************************************************)
(* The pools of CStorPoolClusters (CSPCs): the CSPC operator               *)
(* (pkg/controllers/cspc-controller, with the node and device selection of *)
(* pkg/cspc/algorithm) claims block devices and keeps one                  *)
(* CStorPoolInstance (CSPI) with a pool-manager Deployment for every pool  *)
(* of the spec, and the admission webhook (pkg/webhook/cspc.go) judges the *)
(* edits of the spec.                                                      *)
(*                                                                         *)
(* Two workers serve the CSPCs, one pass per CSPC at a time; every API     *)
(* call of a pass is a step of its own, and may fail.  A pass that starts  *)
(* from a stale cached CSPC, or meets an edit, is refused at its next      *)
(* Update.  A CSPC is named by Cluster, a CSPI by a number, a node by the  *)
(* value of its hostname label, which is also what the pools select it by. *)
(* The node disk manager (NDM), the pool managers and the garbage          *)
(* collector are external; PoolInstance models the pool manager itself.    *)
(***************************************************************************)
EXTENDS Integers, Sequences, FiniteSets, SequencesExt, FiniteSetsExt

CONSTANTS
  Cluster,      \* the CSPCs
  Machine,      \* the machines,
  Disks,        \*   the block devices of each, in the order in which pools list them
  Host,         \* hostname labels
  InitialName,  \*   and the first label of each machine
  InitialPools, \* the machines on which each CSPC asks for pools at first, in order
  Patient,      \* pools are added, removed and deleted only when the spec has been realised
  EditKinds,    \* what users do
  FaultKinds,   \* the kinds of fault that happen
  MaxEvents     \* bound: edits and faults together

Device == UNION {ToSet(Disks[m]) : m \in Machine}
Id == 1 .. (Cardinality(Machine) + 1)
None == "none"

ASSUME ClusterAssumption ==
  /\ IsFiniteSet(Cluster) /\ IsFiniteSet(Machine) /\ IsFiniteSet(Host)
  /\ None \notin Cluster \cup Host
  /\ \A m, n \in Machine : m # n => ToSet(Disks[m]) \cap ToSet(Disks[n]) = {}
  /\ \A m \in Machine : Disks[m] # <<>>
  /\ InitialName \in [Machine -> Host]
  /\ \A m, n \in Machine : InitialName[m] = InitialName[n] => m = n
  /\ \A c \in Cluster : InitialPools[c] \in Seq(Machine) /\ InitialPools[c] # <<>>
  /\ Patient \in BOOLEAN
  /\ EditKinds \subseteq {"add", "remove", "swap", "reselect", "tune", "delete", "cspi", "volume"}
  /\ FaultKinds \subseteq {"call", "restart", "rename"}
  /\ MaxEvents \in Nat

VARIABLES
  name,   \* the hostname label of each machine
  cspc,   \* the CSPCs
  cspi,   \* the CSPIs of each CSPC
  claim,  \* the BlockDeviceClaim (BDC) of each device
  cache,  \* the informer's CSPC: whether it is the latest, and whether it is deleted
  w,      \* the pass over each CSPC
  events

vars == <<name, cspc, cspi, claim, cache, w, events>>

MachineOf(d) == CHOOSE m \in Machine : d \in ToSet(Disks[m])
PoolOn(m) == [sel |-> name[m], bds |-> Disks[m], cfg |-> "unset"]
NoClaim == [by |-> None, bound |-> FALSE, fin |-> FALSE]
NoPool == [sel |-> None, bds |-> <<>>, cfg |-> "unset"]
NoDeployment == [sel |-> None, cfg |-> "unset"]
NoPass == [pc |-> "idle", next |-> "write", pools |-> <<>>, fresh |-> FALSE, count |-> 0,
           left |-> 0, todo |-> {}, blocked |-> FALSE, visited |-> {}, pool |-> NoPool,
           k |-> 1, pending |-> FALSE, tell |-> FALSE]

Ids(c) == DOMAIN cspi[c]
PoolDevices(pools) == UNION {ToSet(pools[k].bds) : k \in DOMAIN pools}

Init ==
  /\ name = InitialName
  /\ cspc = [c \in Cluster |->
       [life |-> "live", fin |-> FALSE,
        pools |-> [k \in DOMAIN InitialPools[c] |-> PoolOn(InitialPools[c][k])],
        status |-> [desired |-> 0, provisioned |-> 0, healthy |-> 0]]]
  /\ cspi = [c \in Cluster |-> <<>>]
  /\ claim = [d \in Device |-> NoClaim]
  /\ cache = [c \in Cluster |-> [latest |-> TRUE, deleting |-> FALSE]]
  /\ w = [c \in Cluster |-> NoPass]
  /\ events = 0

Event(kind, kinds) ==
  /\ kind \in kinds
  /\ events < MaxEvents
  /\ events' = events + 1

Fault(kind) == Event(kind, FaultKinds)
NoEvent == UNCHANGED events

\* A call of the operator succeeds, or fails as long as the bound allows.
Call(ok) == IF ok THEN NoEvent ELSE Fault("call")

At(c, pc) == w[c].pc = pc
Pass(c, next) == w' = [w EXCEPT ![c] = next]
EndPass(c) == Pass(c, NoPass)

\* A write of the CSPC: the cached copy lags behind it.  When someone else than the worker
\* has written, the worker's own copy does too.
Lagging(c, obj) == IF obj = cspc[c] THEN cache ELSE [cache EXCEPT ![c].latest = FALSE]
WriteCSPC(c, obj) ==
  /\ cspc' = [cspc EXCEPT ![c] = obj]
  /\ cache' = Lagging(c, obj)
WriteByUser(c, obj) ==
  /\ WriteCSPC(c, obj)
  /\ w' = [w EXCEPT ![c].fresh = FALSE]

-----------------------------------------------------------------------------
(* The start of a pass, and the clean-up of deleted CSPIs                  *)

\* syncCSPC: the CSPC is the cached one.  The error of the first list is dropped, and the
\* list is empty then.
SyncCSPC(c) ==
  /\ At(c, "idle")
  /\ cspc[c].life # "gone"
  /\ \E ok \in BOOLEAN :
       /\ Call(ok)
       /\ Pass(c, [NoPass EXCEPT
                     !.pc = IF cache[c].deleting THEN "deletion" ELSE "cleanup",
                     !.next = IF cache[c].deleting THEN "strip" ELSE "write",
                     !.pools = cspc[c].pools,
                     !.fresh = cache[c].latest,
                     !.count = IF ok THEN Cardinality(Ids(c)) ELSE 0])
  /\ UNCHANGED <<name, cspc, cspi, claim, cache>>

\* Mutant: the clean-up does not wait for the pool manager.
CanCleanAnyDeleted(obj) == obj.deleting

\* canPerformCSPICleanup: the CSPI is deleted and its pool destroyed.  The CSPC finalizer is
\* there as long as the CSPI is.
CanPerformCSPICleanup(obj) == obj.deleting /\ ~obj.ppf

\* Mutant: the CSPIs are left alone.
DeleteNoCSPI(c) ==
  /\ At(c, "deletion")
  /\ Pass(c, [w[c] EXCEPT !.pc = "cleanup"])
  /\ UNCHANGED <<name, cspc, cspi, claim, cache, events>>

\* deleteAssociatedCSPI: DeleteCollection.
DeleteAssociatedCSPI(c) ==
  /\ At(c, "deletion")
  /\ \E ok \in BOOLEAN :
       /\ Call(ok)
       /\ IF ok
          THEN /\ cspi' = [cspi EXCEPT ![c] =
                             [i \in Ids(c) |-> [cspi[c][i] EXCEPT !.deleting = TRUE]]]
               /\ Pass(c, [w[c] EXCEPT !.pc = "cleanup"])
          ELSE EndPass(c) /\ UNCHANGED cspi
  /\ UNCHANGED <<name, cspc, claim, cache>>

\* cleanupCSPIResources: the list it works through.
CleanupCSPIResources(c) ==
  /\ At(c, "cleanup")
  /\ \E ok \in BOOLEAN :
       /\ Call(ok)
       /\ LET done == {i \in Ids(c) : CanPerformCSPICleanup(cspi[c][i])} IN
          IF ok
          THEN Pass(c, [w[c] EXCEPT
                          !.pc = "clean",
                          !.todo = done,
                          !.blocked = \E i \in Ids(c) \ done : cspi[c][i].deleting])
          ELSE EndPass(c)
  /\ UNCHANGED <<name, cspc, cspi, claim, cache>>

ClaimsOf(c, i) == {d \in ToSet(cspi[c][i].bds) : claim[d].by = c}

\* cleanupBDC: for each claim the finalizer goes first, and then the claim.
CleanupBDC(c) ==
  /\ At(c, "clean") /\ w[c].todo # {}
  /\ \E ok \in BOOLEAN :
       /\ Call(ok)
       /\ \E d \in ClaimsOf(c, Min(w[c].todo)) :
            claim' = [claim EXCEPT ![d] = IF ~ok THEN @
                                          ELSE IF @.fin THEN [@ EXCEPT !.fin = FALSE]
                                          ELSE NoClaim]
       /\ IF ok THEN UNCHANGED w ELSE EndPass(c)
  /\ UNCHANGED <<name, cspc, cspi, cache>>

\* The rest of cleanupCSPIResources: the CSPI loses its last finalizer, and goes.
RemoveCSPIFinalizer(c) ==
  /\ At(c, "clean") /\ w[c].todo # {}
  /\ ClaimsOf(c, Min(w[c].todo)) = {}
  /\ \E ok \in BOOLEAN :
       /\ Call(ok)
       /\ LET i == Min(w[c].todo) IN
          IF ok
          THEN /\ cspi' = [cspi EXCEPT ![c] = [j \in Ids(c) \ {i} |-> cspi[c][j]]]
               /\ Pass(c, [w[c] EXCEPT !.todo = @ \ {i}])
          ELSE EndPass(c) /\ UNCHANGED cspi
  /\ UNCHANGED <<name, cspc, claim, cache>>

Cleaned(c) == At(c, "clean") /\ w[c].todo = {}

\* cleanupCSPIResources fails while a pool is being destroyed: the pass is over.
AwaitPoolDestruction(c) ==
  /\ Cleaned(c) /\ w[c].blocked
  /\ EndPass(c)
  /\ UNCHANGED <<name, cspc, cspi, claim, cache, events>>

-----------------------------------------------------------------------------
(* Deletion of the CSPC                                                    *)

\* removeCSPCFinalizer lists the CSPIs once more, and goes on, or returns without an error
\* (errors.Wrap of a nil error).
RemoveCSPCFinalizer(c) ==
  /\ Cleaned(c) /\ ~w[c].blocked /\ w[c].next = "strip"
  /\ \E ok \in BOOLEAN :
       /\ Call(ok)
       /\ IF ok /\ Ids(c) = {} THEN Pass(c, [w[c] EXCEPT !.pc = "strip"]) ELSE EndPass(c)
  /\ UNCHANGED <<name, cspc, cspi, claim, cache>>

\* Mutant: the claims are left to the garbage collector.
NothingFinalized(c) == {}

\* The claims that removeCSPCFinalizer lists and that hold the CSPC's finalizer.
Finalized(c) == {d \in Device : claim[d].by = c /\ claim[d].fin}

\* Its loop over the claims that no CSPI has used.
StripClaim(c) ==
  /\ At(c, "strip")
  /\ \E ok \in BOOLEAN :
       /\ Call(ok)
       /\ \E d \in Finalized(c) : claim' = [claim EXCEPT ![d].fin = @ /\ ~ok]
       /\ IF ok THEN UNCHANGED w ELSE EndPass(c)
  /\ UNCHANGED <<name, cspc, cspi, cache>>

\* Its last Update: the CSPC goes.
ReleaseCSPC(c) ==
  /\ At(c, "strip") /\ Finalized(c) = {}
  /\ \E ok \in BOOLEAN :
       /\ Call(ok)
       /\ IF ok /\ w[c].fresh
          THEN WriteCSPC(c, [cspc[c] EXCEPT !.life = "gone", !.fin = FALSE])
          ELSE UNCHANGED <<cspc, cache>>
  /\ EndPass(c)
  /\ UNCHANGED <<name, cspi, claim>>

-----------------------------------------------------------------------------
(* The rest of a pass: scaling                                             *)

Exists(sel) == \E m \in Machine : name[m] = sel

\* The pass goes on after scaling: of what it knows only the spec still matters.
Scaled(p) == [NoPass EXCEPT !.pc = "deploys", !.pools = p.pools]

\* ScaleUp makes as many attempts as pools seem to be missing; ScaleDown comes only when
\* there seem to be too many.  The number is that of the first list.
Scale(p) ==
  IF p.count < Len(p.pools)
  THEN [NoPass EXCEPT !.pc = "select", !.pools = p.pools, !.left = Len(p.pools) - p.count]
  ELSE IF p.count > Len(p.pools) THEN [NoPass EXCEPT !.pc = "orphans", !.pools = p.pools]
  ELSE Scaled(p)

\* populateDesiredInstances: the first Update of a pass.
PopulateDesiredInstances(c) ==
  /\ Cleaned(c) /\ ~w[c].blocked /\ w[c].next = "write"
  /\ \E ok \in BOOLEAN :
       /\ Call(ok)
       /\ IF ok /\ w[c].fresh
          THEN /\ WriteCSPC(c, [cspc[c] EXCEPT !.status.desired = Len(w[c].pools)])
               /\ Pass(c, IF cspc[c].fin THEN Scale(w[c]) ELSE [w[c] EXCEPT !.pc = "finalizer"])
          ELSE EndPass(c) /\ UNCHANGED <<cspc, cache>>
  /\ UNCHANGED <<name, cspi, claim>>

\* sync adds the finalizer of the CSPC.
AddCSPCFinalizer(c) ==
  /\ At(c, "finalizer")
  /\ \E ok \in BOOLEAN :
       /\ Call(ok)
       /\ IF ok /\ w[c].fresh
          THEN WriteCSPC(c, [cspc[c] EXCEPT !.fin = TRUE]) /\ Pass(c, Scale(w[c]))
          ELSE EndPass(c) /\ UNCHANGED <<cspc, cache>>
  /\ UNCHANGED <<name, cspi, claim>>

\* The next turn of ScaleUp's loop; the status is told when some attempt succeeded.
NextAttempt(p, created) ==
  IF p.left > 1
  THEN [p EXCEPT !.left = @ - 1, !.pool = NoPool, !.k = 1, !.pending = FALSE, !.todo = {},
                 !.tell = @ \/ created, !.pc = "select"]
  ELSE [Scaled(p) EXCEPT !.pc = IF p.tell \/ created THEN "report" ELSE @]

\* GetUsedNodes goes by the label that a CSPI was created with, which is never changed.
UsedNodes(c) == {cspi[c][i].label : i \in Ids(c)}
UsedBlockDevices(c) == UNION {ToSet(cspi[c][i].bds) : i \in Ids(c)}

\* Mutant: a pool is known by its node alone.
QualifiesByNode(c, visited, p) ==
  /\ Exists(p.sel)
  /\ p.sel \notin visited \cup UsedNodes(c)

\* SelectNode: what a pool of the spec must be to be created now.
Qualifies(c, visited, p) ==
  /\ Exists(p.sel)
  /\ p.sel \notin visited \cup UsedNodes(c)
  /\ ToSet(p.bds) \cap UsedBlockDevices(c) = {}

\* SelectNode takes the first pool that qualifies, and remembers the nodes it looked at.
SelectNode(c) ==
  /\ At(c, "select")
  /\ \E ok \in BOOLEAN :
       /\ Call(ok)
       /\ LET p == w[c]
              free == {k \in DOMAIN p.pools : Qualifies(c, p.visited, p.pools[k])}
              looked == IF free = {} THEN DOMAIN p.pools ELSE 1 .. Min(free)
              visited == p.visited \cup {sel \in {p.pools[k].sel : k \in looked} : Exists(sel)}
          IN Pass(c, IF ~ok THEN NextAttempt(p, FALSE)
                     ELSE IF free = {} THEN NextAttempt([p EXCEPT !.visited = visited], FALSE)
                     ELSE [p EXCEPT !.visited = visited, !.pool = p.pools[Min(free)],
                                    !.pc = "claim"])
  /\ UNCHANGED <<name, cspc, cspi, claim, cache>>

\* IsClaimedBDUsable: the claim carries the label of the CSPC.
IsClaimedBDUsable(c, d) == claim[d].by = c

\* ClaimBDsForNode goes on to the next device; in the end no claim may be pending.
GoOn(p) == IF p.k < Len(p.pool.bds) THEN [p EXCEPT !.k = @ + 1]
           ELSE IF p.pending THEN NextAttempt(p, FALSE)
           ELSE [p EXCEPT !.pc = "create"]

\* ClaimBD: the name of a claim is that of its device, whoever claims it; that it exists
\* already is no error.
ClaimBD(c, d) == IF claim[d].by = None THEN [by |-> c, bound |-> FALSE, fin |-> TRUE] ELSE claim[d]

\* ClaimBDsForNode, for one device.
ClaimBDsForNode(c) ==
  /\ At(c, "claim")
  /\ \E ok \in BOOLEAN :
       /\ Call(ok)
       /\ LET p == w[c]
              d == p.pool.bds[p.k]
          IN IF ok /\ ~claim[d].bound
             THEN /\ claim' = [claim EXCEPT ![d] = ClaimBD(c, d)]
                  /\ Pass(c, GoOn([p EXCEPT !.pending = TRUE]))
             ELSE /\ Pass(c, IF ok /\ IsClaimedBDUsable(c, d) THEN GoOn(p)
                             ELSE NextAttempt(p, FALSE))
                  /\ UNCHANGED claim
  /\ UNCHANGED <<name, cspc, cspi, cache>>

\* What a pool runs with: its own configuration, or else the default of the CSPC.
DefaultPoolConfig(p) == IF p.cfg = "unset" THEN "default" ELSE p.cfg

\* GetCSPISpec.
GetCSPISpec(p) ==
  [label |-> p.sel, host |-> p.sel, sel |-> p.sel, bds |-> p.bds, cfg |-> DefaultPoolConfig(p),
   deploy |-> NoDeployment, deleting |-> FALSE, ppf |-> FALSE, zpool |-> FALSE, used |-> FALSE]

\* CreateCSPI.
CreateCSPI(c) ==
  /\ At(c, "create")
  /\ \E ok \in BOOLEAN :
       /\ Call(ok)
       /\ LET i == Min(Id \ Ids(c))
              new == GetCSPISpec(w[c].pool)
          IN IF ok
             THEN /\ cspi' = [cspi EXCEPT ![c] = [j \in Ids(c) \cup {i} |->
                                                    IF j = i THEN new ELSE cspi[c][j]]]
                  /\ Pass(c, [w[c] EXCEPT !.pc = "deploy", !.todo = {i}])
             ELSE Pass(c, NextAttempt(w[c], FALSE)) /\ UNCHANGED cspi
  /\ UNCHANGED <<name, cspc, claim, cache>>

\* GetPoolDeploySpec: the pod follows the node selector and the tunables of the CSPI.
GetPoolDeploySpec(obj) == [sel |-> obj.sel, cfg |-> obj.cfg]

Deployed(c, i, ok) ==
  IF ok THEN [cspi EXCEPT ![c][i].deploy = GetPoolDeploySpec(cspi[c][i])] ELSE cspi

\* CreateCSPIDeployment, for the CSPI just created.
CreateCSPIDeployment(c) ==
  /\ At(c, "deploy")
  /\ \E ok \in BOOLEAN :
       /\ Call(ok)
       /\ cspi' = Deployed(c, Min(w[c].todo), ok)
       /\ Pass(c, NextAttempt(w[c], ok))
  /\ UNCHANGED <<name, cspc, claim, cache>>

\* Mutant: a CSPI is known by its node alone.
ExistsByNode(pools, obj) == FALSE

\* isCSPISpecExist: a pool of the spec has a device of the CSPI.
IsCSPISpecExist(pools, obj) == PoolDevices(pools) \cap ToSet(obj.bds) # {}

\* getOrphanedCStorPools; no orphans are found while a node of the spec is missing.
GetOrphanedCStorPools(c) ==
  LET pools == w[c].pools
      nodes == {pools[k].sel : k \in DOMAIN pools}
  IN IF \A sel \in nodes : Exists(sel)
     THEN {i \in Ids(c) : cspi[c][i].host \notin nodes /\ ~IsCSPISpecExist(pools, cspi[c][i])}
     ELSE {}

\* ScaleDown.
ScaleDown(c) ==
  /\ At(c, "orphans")
  /\ \E ok \in BOOLEAN :
       /\ Call(ok)
       /\ LET orphans == IF ok THEN GetOrphanedCStorPools(c) ELSE {} IN
          Pass(c, IF orphans = {} THEN Scaled(w[c])
                  ELSE [w[c] EXCEPT !.todo = orphans, !.pc = "delete"])
  /\ UNCHANGED <<name, cspc, cspi, claim, cache>>

\* The rest of a loop over CSPIs, and what comes after it.
Rest(p, next) ==
  LET todo == p.todo \ {Min(p.todo)} IN
  [p EXCEPT !.todo = todo, !.pc = IF todo = {} THEN next ELSE @]

\* ScaleDown deletes the orphans; a Delete that fails is left to a later pass.
DeleteOrphan(c) ==
  /\ At(c, "delete")
  /\ \E ok \in BOOLEAN :
       /\ Call(ok)
       /\ cspi' = IF ok THEN [cspi EXCEPT ![c][Min(w[c].todo)].deleting = TRUE] ELSE cspi
  /\ Pass(c, Rest(w[c], "report"))
  /\ UNCHANGED <<name, cspc, claim, cache>>

-----------------------------------------------------------------------------
(* The rest of a pass: Deployments, tunables, status                       *)

\* The calls of a loop over some CSPIs: all of them succeed, one fails, or the list does.
Failing(some, bad) ==
  /\ bad \subseteq some
  /\ Cardinality(bad) <= 1 \/ bad = some
  /\ Call(bad = {})

\* GetCSPIWithoutDeployment and createDeployForCSPList.  Nobody else looks at Deployments:
\* the loop is one step.
CreateDeployForCSPList(c) ==
  /\ At(c, "deploys")
  /\ LET bare == {i \in Ids(c) : cspi[c][i].deploy = NoDeployment} IN
     \E bad \in SUBSET bare :
       /\ Failing(bare, bad)
       /\ cspi' = [cspi EXCEPT ![c] = [i \in Ids(c) |->
                      IF i \in bare \ bad
                      THEN [cspi[c][i] EXCEPT !.deploy = GetPoolDeploySpec(cspi[c][i])]
                      ELSE cspi[c][i]]]
  /\ Pass(c, [w[c] EXCEPT !.pc = "sync"])
  /\ UNCHANGED <<name, cspc, claim, cache>>

\* The pools of the spec that are the CSPI's, by its node selector or its devices.
PoolsOf(pools, obj) ==
  {k \in DOMAIN pools : pools[k].sel = obj.sel \/ IsCSPISpecExist(<<pools[k]>>, obj)}

\* Mutant: the CSPI keeps the node it was created for.
SyncedConfigOnly(pools, obj) ==
  IF PoolsOf(pools, obj) = {} THEN obj
  ELSE [obj EXCEPT !.cfg = DefaultPoolConfig(pools[Min(PoolsOf(pools, obj))])]

\* syncCSPIWithCSPC: what the CSPI takes over from the first such pool.
Synced(pools, obj) ==
  IF PoolsOf(pools, obj) = {} THEN obj
  ELSE LET p == pools[Min(PoolsOf(pools, obj))] IN
       [obj EXCEPT !.cfg = DefaultPoolConfig(p), !.sel = p.sel, !.host = p.sel]

\* patchPoolDeploymentSpec: there is nothing to patch without a Deployment.
PatchPoolDeploymentSpec(obj) ==
  IF obj.deploy = NoDeployment THEN obj ELSE [obj EXCEPT !.deploy = GetPoolDeploySpec(obj)]

\* syncCSPIWithCSPC for one CSPI: when it has a pool in the spec, the pool's node must exist.
SyncCSPIWithCSPC(pools, obj, patched) ==
  LET new == Synced(pools, obj) IN
  IF PoolsOf(pools, obj) # {} /\ ~Exists(new.sel) THEN obj
  ELSE IF patched THEN PatchPoolDeploymentSpec(new) ELSE new

\* syncCSPI.  Nobody else writes these fields of a CSPI: the loop is one step.  An Update
\* or a patch may fail.
SyncCSPI(c) ==
  /\ At(c, "sync")
  /\ \E bad \in SUBSET Ids(c) :
     \E patching \in (IF Cardinality(bad) = 1 THEN BOOLEAN ELSE {FALSE}) :
       /\ Failing(Ids(c), bad)
       /\ cspi' = [cspi EXCEPT ![c] = [i \in Ids(c) |->
                      IF i \in bad /\ ~patching THEN cspi[c][i]
                      ELSE SyncCSPIWithCSPC(w[c].pools, cspi[c][i], i \notin bad)]]
  /\ Pass(c, [NoPass EXCEPT !.pc = "status"])
  /\ UNCHANGED <<name, cspc, claim, cache>>

\* The pod of a CSPI runs where its node selector leads, next to the devices.
Runs(c, i) ==
  LET obj == cspi[c][i] IN
  \E m \in Machine : name[m] = obj.deploy.sel /\ ToSet(obj.bds) \subseteq ToSet(Disks[m])

\* calculateStatus.
CalculateStatus(c) ==
  [desired |-> Len(cspc[c].pools),
   provisioned |-> Cardinality(Ids(c)),
   healthy |-> Cardinality({i \in Ids(c) : Runs(c, i) /\ cspi[c][i].zpool})]

\* UpdateStatusEventually, after scaling and at the end of a pass.  A conflict makes it read
\* the CSPC again.
UpdateStatusEventually(c) ==
  /\ w[c].pc \in {"report", "status"}
  /\ \E ok \in BOOLEAN :
       /\ Call(ok)
       /\ IF ok THEN WriteCSPC(c, [cspc[c] EXCEPT !.status = CalculateStatus(c)])
          ELSE UNCHANGED <<cspc, cache>>
  /\ Pass(c, IF At(c, "report") THEN Scaled(w[c]) ELSE NoPass)
  /\ UNCHANGED <<name, cspi, claim>>

-----------------------------------------------------------------------------
(* Informer, NDM, pool managers, garbage collector                         *)

WatchCSPC(c) ==
  /\ ~cache[c].latest
  /\ cache' = [cache EXCEPT ![c] = [latest |-> TRUE, deleting |-> cspc[c].life = "deleting"]]
  /\ UNCHANGED <<name, cspc, cspi, claim, w, events>>

\* NDM binds a device to the claim that names it.
BindClaim(d) ==
  /\ claim[d].by # None /\ ~claim[d].bound
  /\ claim' = [claim EXCEPT ![d].bound = TRUE]
  /\ UNCHANGED <<name, cspc, cspi, cache, w, events>>

CollectGarbage(d) ==
  /\ claim[d].by # None /\ ~claim[d].fin
  /\ cspc[claim[d].by].life = "gone"
  /\ claim' = [claim EXCEPT ![d] = NoClaim]
  /\ UNCHANGED <<name, cspc, cspi, cache, w, events>>

\* The pool manager protects a CSPI before it creates the pool.  It may have read the CSPI
\* before that was deleted.
ProtectPool(c, i) ==
  /\ Runs(c, i) /\ ~cspi[c][i].deleting /\ ~cspi[c][i].ppf
  /\ cspi' = [cspi EXCEPT ![c][i].ppf = TRUE]
  /\ UNCHANGED <<name, cspc, claim, cache, w, events>>

CreatePool(c, i) ==
  /\ Runs(c, i) /\ cspi[c][i].ppf /\ ~cspi[c][i].zpool
  /\ cspi' = [cspi EXCEPT ![c][i].zpool = TRUE]
  /\ UNCHANGED <<name, cspc, claim, cache, w, events>>

DestroyPool(c, i) ==
  /\ Runs(c, i) /\ cspi[c][i].deleting /\ cspi[c][i].ppf
  /\ cspi' = [cspi EXCEPT ![c][i].zpool = FALSE, ![c][i].ppf = FALSE]
  /\ UNCHANGED <<name, cspc, claim, cache, w, events>>

\* The operator restarts: its passes are lost.
OperatorRestarts ==
  /\ Fault("restart")
  /\ w' = [c \in Cluster |-> NoPass]
  /\ \E c \in Cluster : ~At(c, "idle")
  /\ UNCHANGED <<name, cspc, cspi, claim, cache>>

\* A node comes back under another hostname.
NodeRenamed(m) ==
  /\ Fault("rename")
  /\ \E h \in Host : ~Exists(h) /\ name' = [name EXCEPT ![m] = h]
  /\ UNCHANGED <<cspc, cspi, claim, cache, w>>

-----------------------------------------------------------------------------
(* Users, and the webhook                                                  *)

\* cspcValidation: every node exists and is used once, no device is repeated, every device
\* is on the node and not claimed by another.
CSPCValidation(c, pools) ==
  /\ pools # <<>>
  /\ \A j, k \in DOMAIN pools : j # k =>
       /\ pools[j].sel # pools[k].sel
       /\ ToSet(pools[j].bds) \cap ToSet(pools[k].bds) = {}
  /\ \A k \in DOMAIN pools :
       /\ Exists(pools[k].sel)
       /\ \A d \in ToSet(pools[k].bds) : /\ name[MachineOf(d)] = pools[k].sel
                                         /\ claim[d].bound => claim[d].by = c

\* The pools that an edit takes away: neither their node nor a device of theirs is left.
Removed(c, pools) ==
  {k \in DOMAIN cspc[c].pools :
     LET p == cspc[c].pools[k] IN
     /\ \A j \in DOMAIN pools : pools[j].sel # p.sel
     /\ ToSet(p.bds) \cap PoolDevices(pools) = {}}

\* ValidateScaledown: the CSPI is found by its hostname label and must not hold a replica.
\* Without such a CSPI the handler panics, and the request fails.
ValidateScaledown(c, pools) ==
  \A k \in Removed(c, pools) :
    /\ \E i \in Ids(c) : cspi[c][i].label = cspc[c].pools[k].sel
    /\ \A i \in Ids(c) : cspi[c][i].label = cspc[c].pools[k].sel => ~cspi[c][i].used

\* Every pool of the spec has its CSPI and Deployment, as the status tells.
Realised(c) ==
  LET pools == cspc[c].pools
      n == Len(pools)
  IN /\ cspc[c].status = [desired |-> n, provisioned |-> n, healthy |-> n]
     /\ Cardinality(Ids(c)) = n
     /\ \A k \in DOMAIN pools : \E i \in Ids(c) :
          LET obj == cspi[c][i] IN
          /\ obj.bds = pools[k].bds
          /\ obj.host = pools[k].sel
          /\ obj.deploy = [sel |-> pools[k].sel, cfg |-> DefaultPoolConfig(pools[k])]
          /\ obj.zpool /\ ~obj.deleting

\* The specs that an edit may turn the spec into.  No edit is admitted that leaves a pool on
\* a node that does not exist: every edit follows renamed nodes.
Edits(c, kind) ==
  LET old == cspc[c].pools
      pools == [k \in DOMAIN old |-> [old[k] EXCEPT !.sel = name[MachineOf(old[k].bds[1])]]]
      spare == {m \in Machine : ToSet(Disks[m]) \cap PoolDevices(pools) = {}}
  IN CASE kind = "add" -> {Append(pools, PoolOn(m)) : m \in spare}
       [] kind = "remove" -> {RemoveAt(pools, k) : k \in DOMAIN pools}
       [] kind = "swap" -> {[pools EXCEPT ![k] = PoolOn(m)] : k \in DOMAIN pools, m \in spare}
       [] kind = "reselect" -> {pools}
       [] kind = "tune" -> {[pools EXCEPT ![k].cfg = "own"] : k \in DOMAIN pools}

\* validateCSPCUpdateRequest admits an edit; the users, if patient, wait for the last one.
EditCSPC(c) ==
  /\ cspc[c].life = "live"
  /\ \E kind \in EditKinds \ {"delete", "cspi", "volume"} :
       /\ Event(kind, EditKinds)
       /\ Patient /\ kind \in {"add", "remove", "swap"} => Realised(c)
       /\ \E pools \in Edits(c, kind) \ {cspc[c].pools} :
            /\ CSPCValidation(c, pools)
            /\ ValidateScaledown(c, pools)
            /\ WriteByUser(c, [cspc[c] EXCEPT !.pools = pools])
  /\ UNCHANGED <<name, cspi, claim>>

\* validateCSPCDeleteRequest: no pool holds a replica.
DeleteCSPC(c) ==
  /\ Event("delete", EditKinds)
  /\ cspc[c].life = "live"
  /\ \A i \in Ids(c) : ~cspi[c][i].used
  /\ WriteByUser(c, [cspc[c] EXCEPT !.life = IF cspc[c].fin THEN "deleting" ELSE "gone"])
  /\ UNCHANGED <<name, cspi, claim>>

\* A user deletes a CSPI: the webhook does not look at that.
DeleteCSPI(c, i) ==
  /\ Event("cspi", EditKinds)
  /\ ~cspi[c][i].deleting
  /\ Patient => Realised(c)
  /\ cspi' = [cspi EXCEPT ![c][i].deleting = TRUE]
  /\ UNCHANGED <<name, cspc, claim, cache, w>>

\* The volume operator places a replica on a pool.
PlaceReplica(c, i) ==
  /\ Event("volume", EditKinds)
  /\ cspi[c][i].zpool /\ ~cspi[c][i].used
  /\ cspi' = [cspi EXCEPT ![c][i].used = TRUE]
  /\ UNCHANGED <<name, cspc, claim, cache, w>>

-----------------------------------------------------------------------------
Sync(c) ==
  \/ SyncCSPC(c)
  \/ DeleteAssociatedCSPI(c) \/ CleanupCSPIResources(c) \/ CleanupBDC(c)
  \/ RemoveCSPIFinalizer(c) \/ AwaitPoolDestruction(c)
  \/ RemoveCSPCFinalizer(c) \/ StripClaim(c) \/ ReleaseCSPC(c)
  \/ PopulateDesiredInstances(c) \/ AddCSPCFinalizer(c)
  \/ SelectNode(c) \/ ClaimBDsForNode(c) \/ CreateCSPI(c) \/ CreateCSPIDeployment(c)
  \/ ScaleDown(c) \/ DeleteOrphan(c)
  \/ CreateDeployForCSPList(c) \/ SyncCSPI(c) \/ UpdateStatusEventually(c)

Manage(c, i) == ProtectPool(c, i) \/ CreatePool(c, i) \/ DestroyPool(c, i)

Next ==
  \/ \E c \in Cluster : Sync(c) \/ WatchCSPC(c) \/ EditCSPC(c) \/ DeleteCSPC(c)
  \/ \E c \in Cluster : \E i \in Ids(c) : Manage(c, i) \/ DeleteCSPI(c, i) \/ PlaceReplica(c, i)
  \/ \E d \in Device : BindClaim(d) \/ CollectGarbage(d)
  \/ \E m \in Machine : NodeRenamed(m)
  \/ OperatorRestarts

Spec == Init /\ [][Next]_vars

WatchAny == \E c \in Cluster : WatchCSPC(c)
ManageAny == \E c \in Cluster : \E i \in Ids(c) : Manage(c, i)
HandleClaims == \E d \in Device : BindClaim(d) \/ CollectGarbage(d)

\* The workers, the informer, NDM, the collector and the pool managers go on as long as they
\* have something to do; the informer resyncs every 30 seconds.
FairSpec ==
  /\ Spec
  /\ \A c \in Cluster : WF_vars(Sync(c))
  /\ WF_vars(WatchAny) /\ WF_vars(ManageAny) /\ WF_vars(HandleClaims)

-----------------------------------------------------------------------------
(* Properties                                                              *)

PoolSpecs == [sel : Host, bds : {Disks[m] : m \in Machine}, cfg : {"unset", "own"}]
Steps == {"idle", "deletion", "cleanup", "clean", "strip", "finalizer", "select", "claim",
          "create", "deploy", "orphans", "delete", "report", "deploys", "sync", "status"}

\* Every variable has its type: among others, ScaleUp is never asked for a negative number
\* of pools, and a pass is always at a step of the operator.
TypeOK ==
  /\ name \in [Machine -> Host]
  /\ \A c \in Cluster :
       /\ cspc[c].life \in {"live", "deleting", "gone"}
       /\ cspc[c].fin \in BOOLEAN
       /\ \A k \in DOMAIN cspc[c].pools : cspc[c].pools[k] \in PoolSpecs
       /\ cspc[c].status \in [desired : Nat, provisioned : Nat, healthy : Nat]
       /\ Ids(c) \subseteq Id
       /\ \A i \in Ids(c) : cspi[c][i] \in
            [label : Host, host : Host, sel : Host, bds : {Disks[m] : m \in Machine},
             cfg : {"default", "own"}, deploy : {NoDeployment} \cup
               [sel : Host, cfg : {"default", "own"}],
             deleting : BOOLEAN, ppf : BOOLEAN, zpool : BOOLEAN, used : BOOLEAN]
       /\ w[c].pc \in Steps /\ w[c].next \in {"write", "strip"}
       /\ w[c].left \in Nat /\ w[c].count \in Nat /\ w[c].todo \subseteq Id
       /\ w[c].visited \subseteq Host
  /\ claim \in [Device -> [by : Cluster \cup {None}, bound : BOOLEAN, fin : BOOLEAN]]
  /\ cache \in [Cluster -> [latest : BOOLEAN, deleting : BOOLEAN]]

\* A CSPI that has, or may get, a pool: the pool of a deleted one is destroyed once the
\* protection is gone.
MayHavePool(obj) == ~obj.deleting \/ obj.ppf

\* No block device is part of two CSPIs, of one CSPC or of two, unless one has been
\* destroyed: SelectNode, ClaimBD and IsClaimedBDUsable see to it, also when two workers
\* claim the same devices at a time and when a node has been renamed.
OnePoolPerDevice ==
  \A c, e \in Cluster : \A i \in Ids(c), j \in Ids(e) :
    /\ <<c, i>> # <<e, j>>
    /\ MayHavePool(cspi[c][i]) /\ MayHavePool(cspi[e][j])
    => ToSet(cspi[c][i].bds) \cap ToSet(cspi[e][j].bds) = {}

\* The devices of a pool that exists on disk are claimed for its CSPC, and the claim is held
\* by its finalizer: cleanupBDC and removeCSPCFinalizer let go of a device only when the
\* pool manager has destroyed the pool.
PoolHoldsItsClaims ==
  \A c \in Cluster : \A i \in Ids(c) : cspi[c][i].zpool =>
    \A d \in ToSet(cspi[c][i].bds) : claim[d] = [by |-> c, bound |-> TRUE, fin |-> TRUE]

\* When a CSPC has gone (removeCSPCFinalizer), none of its CSPIs is left, and no claim that a
\* finalizer would hold for ever.
GoneLeavesNothing ==
  \A c \in Cluster : cspc[c].life = "gone" => 
    /\ Ids(c) = {}
    /\ \A d \in Device : claim[d].by = c => ~claim[d].fin

\* The operator (ScaleDown, deleteAssociatedCSPI) never deletes a pool that the stored CSPC
\* still asks for, by its devices.  A pass works with the copy of the CSPC that it started
\* from, and users go on editing it: what keeps a wanted pool is that a stale copy does not
\* get past the first Update (populateDesiredInstances), that a pool is known by its devices
\* when its node has got another name (getOrphanedCStorPools), and that users wait.
WantedPoolKept ==
  [][\A c \in Cluster : w'[c] # w[c] => \A i \in Ids(c) :
       ~cspi[c][i].deleting /\ i \in DOMAIN cspi'[c] /\ cspi'[c][i].deleting =>
         \/ cspc[c].life # "live"
         \/ ToSet(cspi[c][i].bds) \cap PoolDevices(cspc[c].pools) = {}]_vars

\* A pool being deleted whose pod no node runs: nobody can destroy it.
Stranded(c) == \E i \in Ids(c) : cspi[c][i].deleting /\ cspi[c][i].ppf /\ ~Runs(c, i)

\* The nodes of the spec exist, and no device is claimed for another CSPC.
Realisable(c) ==
  /\ CSPCValidation(c, cspc[c].pools)
  /\ \A d \in PoolDevices(cspc[c].pools) : claim[d].by \in {c, None}
  /\ ~Stranded(c)

\* In the end the CSPIs, their Deployments and the status of a CSPC are those that its spec
\* asks for, whatever calls failed and however often the operator restarted (sync).
PoolsFollowSpec ==
  <>[](\A c \in Cluster : cspc[c].life = "live" /\ Realisable(c) => Realised(c))

\* A deleted CSPC goes, unless the pod that has to destroy one of its pools cannot run
\* (handleCSPCDeletion).
DeletedCSPCGoes ==
  <>[](\A c \in Cluster : cspc[c].life = "deleting" => Stranded(c))
=============================================================================
