---------------------------- MODULE VolumeRestore ---------------------------
(***************************************************************************)
(* The restore of a volume from a remote backup, beside the backups of     *)
(* VolumeBackup.  The REST server creates a CStorRestore for the pool of   *)
(* every replica; the restore controller of each pool's manager            *)
(* (pkg/controllers/restore-controller) receives the data; a GET folds the *)
(* status of them all into one.  Backup and restore controller are two     *)
(* workers of one process, and crash and start together.                   *)
(***************************************************************************)
EXTENDS VolumeBackup

CONSTANT Together  \* backups and the restore may happen in one behaviour

ASSUME RestoreAssumption == Together \in BOOLEAN

VARIABLES
  rst,    \* the status of the CStorRestore of every pool
  data,   \* the pools whose replica has received the data
  rqueue, \* the items of the workqueue of a pool's restore controller
  rat,    \* where its worker is,
  rjob,   \*   and the status it will write
  rapi,   \* the POST under way: the replicas that have no restore yet
  rlost   \* history: the restores whose status a manager failed to write

restore == <<rst, data, rqueue, rat, rjob, rapi, rlost>>
allVars == <<vars, restore>>

RestoreInit ==
  /\ Init
  /\ rst = [p \in Pools |-> "none"]
  /\ data = {}
  /\ rqueue = [p \in Pools |-> {}]
  /\ rat = [p \in Pools |-> "idle"]
  /\ rjob = [p \in Pools |-> "none"]
  /\ rapi = "new"
  /\ rlost = {}

Unfinished(p) == rst[p] \in Active

-----------------------------------------------------------------------------
(* The REST server                                                         *)

\* create, of a volume that is Bound.
PostRestore ==
  /\ rapi = "new"
  /\ Together \/ \A s \in Snaps : bk[s].status = "new"
  /\ Event
  /\ rapi' = "create"
  /\ UNCHANGED <<version, snaps, bk, rec, sent, manager, api, lost>>
  /\ UNCHANGED <<rst, data, rqueue, rat, rjob, rlost>>

\* createRestore: one restore after another; a failure leaves the later ones out.
BuildAndCreateRestore ==
  /\ rapi = "create"
  /\ \E p \in Pools :
       /\ rst[p] = "none"
       /\ \/ /\ NoEvent
             /\ rst' = [rst EXCEPT ![p] = "Pending"]
             /\ rqueue' = [rqueue EXCEPT ![p] = IF up[p] THEN @ \cup {"add"} ELSE @]
             /\ rapi' = IF \A q \in Pools : rst'[q] # "none" THEN "end" ELSE "create"
          \/ /\ Fault("call")
             /\ rapi' = "end"
             /\ UNCHANGED <<rst, rqueue>>
  /\ UNCHANGED <<version, snaps, bk, rec, sent, manager, api, lost>>
  /\ UNCHANGED <<data, rat, rjob, rlost>>

\* Mutant: the manager is not asked for.
SeenAsFailed(p, down) == IF Unfinished(p) THEN "Failed" ELSE rst[p]

\* A restore that is not finished, on a pool whose manager is found down, has failed.
SeenStatus(p, down) == IF Unfinished(p) /\ p \in down THEN "Failed" ELSE rst[p]

\* The restores that the loop over the list, in any order, may visit: it ends at the first
\* that is in progress.
Visits(down) ==
  LET listed == {p \in Pools : rst[p] # "none"}
      stops == {p \in listed : SeenStatus(p, down) = "InProgress"}
  IN IF stops = {} THEN {listed}
     ELSE {before \cup {p} : before \in SUBSET (listed \ stops), p \in stops}

\* getCStorRestoreStatus: what it finds to have failed is written, an error being only logged;
\* its answer, the status of the last restore visited whatever came before, changes nothing.
GetRestoreStatus ==
  /\ rapi = "end"
  /\ \E down \in SUBSET {p \in Pools : PoolManagerDown(p)} :
       \E seen \in Visits(down), logged \in SUBSET Pools :
         /\ IF logged = {} THEN NoEvent ELSE Fault("call")
         /\ seen # {}
         /\ rst' = [p \in Pools |-> IF p \in seen \ logged THEN SeenStatus(p, down) ELSE rst[p]]
  /\ UNCHANGED <<version, snaps, bk, rec, sent, manager, api, lost>>
  /\ UNCHANGED <<data, rqueue, rat, rjob, rapi, rlost>>

-----------------------------------------------------------------------------
(* The restore controller of a pool manager                                *)

\* handleRSTUpdateEvent: a change of status is queued, unless the restore has ended.
WriteRestore(p, status) ==
  /\ rst' = [rst EXCEPT ![p] = status]
  /\ rqueue' = [rqueue EXCEPT ![p] = IF status # rst[p] /\ status \in Active THEN @ \cup {"sync"}
                                                                          ELSE @]

RestoreIdle(p) ==
  /\ rat' = [rat EXCEPT ![p] = "idle"]
  /\ rjob' = [rjob EXCEPT ![p] = "none"]

RestoreGoTo(p, step, status) ==
  /\ rat' = [rat EXCEPT ![p] = step]
  /\ rjob' = [rjob EXCEPT ![p] = status]

\* syncHandler and rstEventHandler up to the first write.
RestoreSyncHandler(p) ==
  /\ rat[p] = "idle"
  /\ \E op \in rqueue[p] :
       /\ rqueue' = [rqueue EXCEPT ![p] = @ \ {op}]
       /\ CASE rst[p] \in Finished -> RestoreIdle(p)
            [] Unfinished(p) /\ op = "add" -> RestoreGoTo(p, "write", AddStatus(rst[p]))
            [] op = "sync" /\ rst[p] = "Init" -> RestoreGoTo(p, "progress", "none")
            [] op = "sync" /\ rst[p] = "Pending" -> RestoreGoTo(p, "write", "Init")
            [] OTHER -> RestoreIdle(p)
  /\ UNCHANGED <<vars, rst, data, rapi, rlost>>

LoseRestore(p) ==
  /\ rlost' = rlost \cup {p}
  /\ RestoreIdle(p)
  /\ UNCHANGED <<rst, rqueue>>

\* syncEventHandler declares the restore to be in progress, if it is still as it was read.
StartRestore(p) ==
  /\ rat[p] = "progress"
  /\ \/ /\ rst[p] = "Init"
        /\ NoEvent
        /\ WriteRestore(p, "InProgress")
        /\ RestoreGoTo(p, "receive", "none")
        /\ UNCHANGED rlost
     \/ /\ IF rst[p] = "Init" THEN Fault("write") ELSE NoEvent
        /\ LoseRestore(p)
  /\ UNCHANGED <<version, snaps, bk, rec, sent, manager, api, lost>>
  /\ UNCHANGED <<data, rapi>>

\* CreateVolumeRestore: nc | zfs recv, tried ten times; the shell reports what zfs returns.
CreateVolumeRestore(p) ==
  /\ rat[p] = "receive"
  /\ \/ NoEvent /\ data' = data \cup {p} /\ RestoreGoTo(p, "write", "Done")
     \/ Fault("net") /\ RestoreGoTo(p, "write", "Failed") /\ UNCHANGED data
  /\ UNCHANGED <<version, snaps, bk, rec, sent, manager, api, lost>>
  /\ UNCHANGED <<rst, rqueue, rapi, rlost>>

\* The end of syncHandler.
WriteRestoreResult(p) ==
  /\ rat[p] = "write"
  /\ \/ /\ NoEvent
        /\ WriteRestore(p, rjob[p])
        /\ RestoreIdle(p)
        /\ UNCHANGED rlost
     \/ /\ Fault("write")
        /\ LoseRestore(p)
  /\ UNCHANGED <<version, snaps, bk, rec, sent, manager, api, lost>>
  /\ UNCHANGED <<data, rapi>>

RestoreWork(p) ==
  \/ RestoreSyncHandler(p) \/ StartRestore(p) \/ CreateVolumeRestore(p) \/ WriteRestoreResult(p)

\* The other half of ManagerCrashes.
RestoreWorkerDies(p) ==
  /\ RestoreIdle(p)
  /\ rqueue' = [rqueue EXCEPT ![p] = {}]
  /\ UNCHANGED <<rst, data, rapi, rlost>>

\* cleanupOldRestore: what a manager that starts makes of a restore.  When calls fail, the
\* list or the Update may be among them, and the restore stays as it is.
CleanupOldRestore(p, fails) ==
  /\ \E missed \in IF fails THEN BOOLEAN ELSE {FALSE} :
       /\ rst' = [rst EXCEPT ![p] = IF missed \/ @ \in {"none", "Done"} THEN @ ELSE "Failed"]
       /\ rlost' = IF missed THEN rlost \cup {p} ELSE rlost \ {p}
  /\ rqueue' = [rqueue EXCEPT ![p] = IF rst[p] = "none" THEN {} ELSE {"add"}]
  /\ UNCHANGED <<data, rat, rjob, rapi>>

\* Both controllers of a manager start together.
ManagerStarts(p) ==
  \E fails \in BOOLEAN : CleanupOldBackup(p, fails) /\ CleanupOldRestore(p, fails)

-----------------------------------------------------------------------------
RestoreNext ==
  \/ Request /\ (Together \/ rapi = "new") /\ UNCHANGED restore
  \/ (Serve \/ CallFails \/ \E p \in Pools : Work(p)) /\ UNCHANGED restore
  \/ PostRestore \/ BuildAndCreateRestore \/ GetRestoreStatus
  \/ \E p \in Pools : \/ RestoreWork(p)
                      \/ ManagerCrashes(p) /\ RestoreWorkerDies(p)
                      \/ ManagerStarts(p)

RestoreSpec == RestoreInit /\ [][RestoreNext]_allVars

\* As in VolumeBackup: handlers and workers go on, and a manager is started again.
FairRestoreSpec ==
  /\ RestoreSpec
  /\ WF_allVars(Serve /\ UNCHANGED restore)
  /\ WF_allVars(BuildAndCreateRestore)
  /\ \A p \in Pools : /\ WF_allVars(Work(p) /\ UNCHANGED restore)
                      /\ WF_allVars(RestoreWork(p))
                      /\ WF_allVars(ManagerStarts(p))

-----------------------------------------------------------------------------
(* Properties                                                              *)

\* What is reported Done was done: a backup was sent in full, from a base the remote side
\* has (DoneIsSent), and a replica whose restore is Done has the data (syncEventHandler,
\* cleanupOldRestore).
DoneIsDone ==
  /\ DoneIsSent
  /\ \A p \in Pools : rst[p] = "Done" => p \in data

\* A backup or a restore that was found Done or Failed stays so, whether a manager, its
\* cleanup or a GET had found it (syncHandler, cleanupOldBackup, get, getCStorRestoreStatus);
\* a backup may also be deleted.
OutcomesStay ==
  [][/\ \A s \in Snaps : bk[s].status \in Finished => bk'[s].status \in {bk[s].status, "none"}
     /\ \A p \in Pools : rst[p] \in Finished => rst'[p] = rst[p]]_allVars

\* Every backup and every restore ends, unless its manager failed to write its status and has
\* not been restarted since: the item is not queued again (processNextWorkItem).
RequestsEnd ==
  <>[](/\ \A s \in Snaps : bk[s].status \in Active => s \in lost
       /\ \A p \in Pools : Unfinished(p) => p \in rlost)
=============================================================================
