----------------------------- MODULE VolumeBackup ---------------------------
(***************************************************************************)
(* The backups of one schedule of one volume.  The REST server of the CVC  *)
(* operator (pkg/server/cstorvolumeconfig) takes a snapshot of the volume  *)
(* and creates a CStorBackup for the pool of a healthy replica; the backup *)
(* controller of that pool's manager (pkg/controllers/backup-controller)   *)
(* sends the snapshot away, as a difference from the last one that was     *)
(* sent, and notes it in the CStorCompletedBackup of the schedule.         *)
(*                                                                         *)
(* Both resources exist in two API versions.  A pool older than 2.2.0 is   *)
(* served with the v1alpha1 resources; its manager is not in this          *)
(* repository and is taken to run the same protocol on them.  The client   *)
(* sends one request at a time and gives every backup a name of its own.   *)
(***************************************************************************)
EXTENDS Integers, FiniteSets

CONSTANTS
  Pools,      \* the pools with a healthy replica of the volume
  Snaps,      \* the names of snapshots, and of the backups made of them
  Full,       \* the empty name: no earlier snapshot
  Versions,   \* the assignments of an API version to every pool
  Careful,    \* a backup is deleted only while none is under way
  ReadyLag,   \* a manager at work may be reported as not ready
  FaultKinds, \* the kinds of fault that happen
  MaxEvents   \* bound: requests and faults together

APIs == {"v1alpha1", "v1"}

ASSUME BackupAssumption ==
  /\ IsFiniteSet(Pools) /\ Pools # {}
  /\ IsFiniteSet(Snaps) /\ Full \notin Snaps /\ "no" \notin Snaps \cup {Full}
  /\ Versions \subseteq [Pools -> APIs] /\ Versions # {}
  /\ Careful \in BOOLEAN /\ ReadyLag \in BOOLEAN
  /\ FaultKinds \subseteq {"call", "write", "read", "net", "zfs", "manager", "check",
                      "cleanup"}
  /\ MaxEvents \in Nat

VARIABLES
  version, \* the API version of every pool
  snaps,   \* the snapshots of the volume
  bk,      \* the CStorBackup of every snapshot
  rec,     \* the CStorCompletedBackup of the schedule, in either version
  sent,    \* what the destination holds: the base of every snapshot that reached it
  up,      \* whether the manager of a pool runs
  queue,   \* the items of its workqueue
  at,      \* where its worker is,
  job,     \*   the backup it is at work on and the status it will write
  api,     \* the request that the REST server handles
  lost,    \* history: the backups whose status a manager failed to write
  events

manager == <<up, queue, at, job>>
vars == <<version, snaps, bk, rec, sent, manager, api, lost, events>>

Finished == {"Done", "Failed"}
Active == {"Pending", "Init", "InProgress", "Invalid"}
Exists(s) == bk[s].status \in Active \cup Finished

NoBackup == [status |-> "none", pool |-> CHOOSE p \in Pools : TRUE, prev |-> Full]
NoRecord == [exists |-> FALSE, last |-> Full, second |-> Full]
NoJob == [snap |-> Full, status |-> "none", fresh |-> FALSE]
NoRequest == [op |-> "none", snap |-> Full, pool |-> CHOOSE p \in Pools : TRUE, prev |-> Full,
              fresh |-> FALSE]

Init ==
  /\ version \in Versions
  /\ snaps = {}
  /\ bk = [s \in Snaps |-> [NoBackup EXCEPT !.status = "new"]]
  /\ rec = [v \in APIs |-> NoRecord]
  /\ sent = [s \in Snaps |-> "no"]
  /\ up = [p \in Pools |-> TRUE]
  /\ queue = [p \in Pools |-> {}]
  /\ at = [p \in Pools |-> "idle"]
  /\ job = [p \in Pools |-> NoJob]
  /\ api = NoRequest
  /\ lost = {}
  /\ events = 0

Event == events < MaxEvents /\ events' = events + 1
Fault(kind) == kind \in FaultKinds /\ Event
NoEvent == UNCHANGED events

\* A write of a backup: its manager is told, if it runs.
WriteStatus(s, status) ==
  /\ bk' = [bk EXCEPT ![s].status = status]
  /\ queue' = [queue EXCEPT ![bk[s].pool] = IF up[bk[s].pool] THEN @ \cup {<<s, "sync">>} ELSE @]

\* Whoever has read a backup before it is written holds an old version.
StaleRequest(s) == api' = [api EXCEPT !.fresh = @ /\ api.snap # s]
StaleJob(s) == job' = [p \in Pools |-> [job[p] EXCEPT !.fresh = @ /\ job[p].snap # s]]

\* findLastBackupStat: whether the record of the version has the snapshot among its two.
FindLastBackupStat(s, v) ==
  IF rec[v].exists /\ s \in {rec[v].last, rec[v].second} THEN "Done" ELSE "Failed"

-----------------------------------------------------------------------------
(* POST: create                                                            *)

Answer == api' = NoRequest

\* A failing call of a POST or a DELETE ends it with an error, and so does the first of a GET.
\* For the later calls of a GET see PoolManagerDown and UpdateBackupStatus.
CallFails ==
  /\ api.op \notin {"none", "getWrite"}
  /\ Fault("call")
  /\ Answer
  /\ UNCHANGED <<version, snaps, bk, rec, sent, manager, lost>>

Post(s) ==
  /\ api.op = "none"
  /\ bk[s].status = "new"
  /\ Event
  /\ api' = [NoRequest EXCEPT !.op = "post", !.snap = s]
  /\ bk' = [bk EXCEPT ![s].status = "none"]
  /\ UNCHANGED <<version, snaps, rec, sent, manager, lost>>

\* A local backup is the snapshot alone.
CreateSnapshot(local) ==
  /\ api.op = "post"
  /\ snaps' = snaps \cup {api.snap}
  /\ api' = IF local THEN NoRequest ELSE [api EXCEPT !.op = "replica"]
  /\ UNCHANGED <<version, bk, rec, sent, manager, lost, events>>

FindHealthyCVR(p) ==
  /\ api.op = "replica"
  /\ api' = [api EXCEPT !.op = "last", !.pool = p]
  /\ UNCHANGED <<version, snaps, bk, rec, sent, manager, lost, events>>

\* Mutant: an unfinished backup counts as the last one.
LastIsAny(v) == IF \E s \in Snaps : bk[s].status \in Active
                THEN CHOOSE s \in Snaps : bk[s].status \in Active ELSE rec[v].last

\* The last snapshot that was sent.  The record of the other version comes first: the
\* pools of the cluster may have been upgraded one by one.
LastSnap(v) == LET other == CHOOSE o \in APIs \ {v} : TRUE
               IN IF rec[other].exists THEN rec[other].last ELSE rec[v].last

GetOrCreateLastBackupSnap ==
  /\ api.op = "last"
  /\ LET v == version[api.pool]
     IN /\ api' = [api EXCEPT !.op = "create", !.prev = LastSnap(v)]
        /\ rec' = IF \E o \in APIs : rec[o].exists THEN rec ELSE [rec EXCEPT ![v].exists = TRUE]
  /\ UNCHANGED <<version, snaps, bk, sent, manager, lost, events>>

CreateBackupResource ==
  /\ api.op = "create"
  /\ bk' = [bk EXCEPT ![api.snap] = [status |-> "Pending", pool |-> api.pool, prev |-> api.prev]]
  /\ queue' = [queue EXCEPT ![api.pool] = IF up[api.pool] THEN @ \cup {<<api.snap, "add">>} ELSE @]
  /\ Answer
  /\ UNCHANGED <<version, snaps, rec, sent, up, at, job, lost, events>>

-----------------------------------------------------------------------------
(* GET                                                                     *)

\* checkIfPoolManagerNodeDown, checkIfPoolManagerDown: whether the manager of a pool may be
\* found down.  A check that cannot read the pod or its node finds it down.
PoolManagerDown(p) == ~up[p] \/ ReadyLag \/ "check" \in FaultKinds

\* Only a backup that is not finished, on a pool whose manager is down, is settled here.
GetBackup(s) ==
  /\ api.op = "none"
  /\ bk[s].status \in Active
  /\ PoolManagerDown(bk[s].pool)
  /\ Event
  /\ api' = [NoRequest EXCEPT !.op = "getWrite", !.snap = s, !.fresh = TRUE]
  /\ UNCHANGED <<version, snaps, bk, rec, sent, manager, lost>>

\* findLastBackupStat, where a record that cannot be read means Failed, and
\* updateBackupStatus, whose error is only logged.
UpdateBackupStatus ==
  /\ api.op = "getWrite"
  /\ \/ /\ api.fresh
        /\ \/ NoEvent /\ WriteStatus(api.snap, FindLastBackupStat(api.snap, version[bk[api.snap].pool]))
           \/ Fault("call") /\ WriteStatus(api.snap, "Failed")
        /\ StaleJob(api.snap)
     \/ /\ IF api.fresh THEN Fault("call") ELSE NoEvent
        /\ UNCHANGED <<bk, queue, job>>
  /\ Answer
  /\ UNCHANGED <<version, snaps, rec, sent, up, at, lost>>

-----------------------------------------------------------------------------
(* DELETE: deleteBackup                                                    *)

DeleteBackup(s) ==
  /\ api.op = "none"
  /\ Exists(s)
  /\ Careful => \A t \in Snaps : bk[t].status \notin Active
  /\ Event
  /\ api' = [NoRequest EXCEPT !.op = "delete", !.snap = s]
  /\ UNCHANGED <<version, snaps, bk, rec, sent, manager, lost>>

\* Mutant: the record is kept.
KeepCompletedBackup(v, s) == rec[v]

\* The record that has the snapshot as its last, or has none, is deleted: "next backup of
\* the schedule will be full backup".
WithoutBackup(v, s) == IF rec[v].last \in {s, Full} THEN NoRecord ELSE rec[v]

DeleteCompletedBackup ==
  /\ api.op = "delete"
  /\ LET v == version[bk[api.snap].pool]
     IN rec' = [rec EXCEPT ![v] = WithoutBackup(v, api.snap)]
  /\ api' = [api EXCEPT !.op = "unsnap"]
  /\ UNCHANGED <<version, snaps, bk, sent, manager, lost, events>>

DeleteSnapshot ==
  /\ api.op = "unsnap"
  /\ snaps' = snaps \ {api.snap}
  /\ api' = [api EXCEPT !.op = "unbackup"]
  /\ UNCHANGED <<version, bk, rec, sent, manager, lost, events>>

DeleteBackupResource ==
  /\ api.op = "unbackup"
  /\ bk' = [bk EXCEPT ![api.snap].status = "none"]
  /\ StaleJob(api.snap)
  /\ Answer
  /\ UNCHANGED <<version, snaps, rec, sent, up, queue, at, lost, events>>

-----------------------------------------------------------------------------
(* The backup controller of a pool manager                                 *)

Idle(p) == at' = [at EXCEPT ![p] = "idle"] /\ job' = [job EXCEPT ![p] = NoJob]

GoTo(p, step, s, status) ==
  /\ at' = [at EXCEPT ![p] = step]
  /\ job' = [job EXCEPT ![p] = [snap |-> s, status |-> status, fresh |-> TRUE]]

\* addEventHandler: a backup that is not pending when it is added is invalid.
AddStatus(status) == IF status = "Pending" THEN "Init" ELSE "Invalid"

\* syncHandler up to its first write; a backup that is gone or finished is left alone.
SyncHandler(p) ==
  /\ at[p] = "idle"
  /\ \E item \in queue[p] :
       LET s == item[1] IN
       /\ queue' = [queue EXCEPT ![p] = @ \ {item}]
       /\ IF bk[s].status \in Active /\ item[2] = "add"
          THEN GoTo(p, "write", s, AddStatus(bk[s].status))
          ELSE IF bk[s].status = "Init" THEN GoTo(p, "progress", s, "none") ELSE Idle(p)
  /\ UNCHANGED <<version, snaps, bk, rec, sent, up, api, lost, events>>

\* A failure to write ends the work: the item is not queued again.
LoseJob(p) ==
  /\ lost' = lost \cup {job[p].snap}
  /\ Idle(p)
  /\ UNCHANGED <<bk, queue, api>>

\* syncEventHandler declares the backup to be in progress.
StartBackup(p) ==
  /\ at[p] = "progress"
  /\ LET s == job[p].snap IN
     \/ /\ job[p].fresh
        /\ NoEvent
        /\ WriteStatus(s, "InProgress")
        /\ StaleRequest(s)
        /\ GoTo(p, "send", s, "none")
        /\ UNCHANGED lost
     \/ /\ IF job[p].fresh THEN Fault("write") ELSE NoEvent
        /\ LoseJob(p)
  /\ UNCHANGED <<version, snaps, rec, sent, up>>

\* zfs send -i needs both snapshots.
Sendable(s) == s \in snaps /\ bk[s].prev \in snaps \cup {Full}

\* CreateVolumeBackup: zfs send | nc, tried ten times.  The shell reports what nc
\* returns, and so a zfs send that fails is a success.
CreateVolumeBackup(p) ==
  /\ at[p] = "send"
  /\ \E outcome \in {"ok", "zfs", "net"} :
       LET s == job[p].snap IN
       /\ IF outcome = "ok" THEN NoEvent ELSE Fault(outcome)
       /\ sent' = IF outcome = "ok" /\ Sendable(s) THEN [sent EXCEPT ![s] = bk[s].prev] ELSE sent
       /\ IF outcome = "net" THEN GoTo(p, "write", s, "Failed") ELSE GoTo(p, "record", s, "none")
  /\ UNCHANGED <<version, snaps, bk, rec, up, queue, api, lost>>

\* The record that a manager of a version updates: the v1alpha1 one, if there is one.
RecordOf(v) == IF rec["v1alpha1"].exists THEN "v1alpha1" ELSE v

Recorded(v, s) == IF rec[v].exists THEN [rec[v] EXCEPT !.last = s, !.second = rec[v].last]
                                   ELSE rec[v]

\* updateCStorCompletedBackup; that there is no record is not an error, nor is that one cannot
\* be read: a v1alpha1 record that is not read leaves the v1 one to be updated, a v1 record
\* that is not read leaves none.
UpdateCStorCompletedBackup(p) ==
  /\ at[p] = "record"
  /\ LET s == job[p].snap
         update(v) == rec' = [rec EXCEPT ![v] = Recorded(v, s)]
     IN \/ NoEvent /\ update(RecordOf(version[p])) /\ GoTo(p, "write", s, "Done")
        \/ Fault("read") /\ (update("v1") \/ UNCHANGED rec) /\ GoTo(p, "write", s, "Done")
        \/ Fault("write") /\ UNCHANGED rec /\ GoTo(p, "write", s, "Failed")
  /\ UNCHANGED <<version, snaps, bk, sent, up, queue, api, lost>>

\* The end of syncHandler: the status goes into the backup as it now is.
WriteResult(p) ==
  /\ at[p] = "write"
  /\ LET s == job[p].snap IN
     \/ /\ NoEvent
        /\ IF Exists(s) THEN WriteStatus(s, job[p].status) /\ StaleRequest(s)
                        ELSE UNCHANGED <<bk, queue, api>>
        /\ Idle(p)
        /\ UNCHANGED lost
     \/ /\ Fault("write")
        /\ LoseJob(p)
  /\ UNCHANGED <<version, snaps, rec, sent, up>>

ManagerCrashes(p) ==
  /\ up[p]
  /\ Fault("manager")
  /\ up' = [up EXCEPT ![p] = FALSE]
  /\ queue' = [queue EXCEPT ![p] = {}]
  /\ Idle(p)
  /\ UNCHANGED <<version, snaps, bk, rec, sent, api, lost>>

\* Mutant: a backup that has not started is spared.
CleanedInProgress(s, v) ==
  IF bk[s].status = "InProgress" THEN FindLastBackupStat(s, v) ELSE bk[s].status

\* cleanupOldBackup: what a manager that starts makes of a backup.
CleanedStatus(s, v) ==
  CASE bk[s].status = "InProgress" -> FindLastBackupStat(s, v)
    [] bk[s].status = "Done" -> "Done"
    [] OTHER -> "Failed"

BackupsOf(p) == {s \in Snaps : Exists(s) /\ bk[s].pool = p}

\* The manager cleans up and is told of all its backups.  Errors are only logged: when calls
\* fail, the backups missed, all of them if it is the list, stay as they are, and one in
\* progress whose record is unread counts as Failed.
CleanupOldBackup(p, fails) ==
  /\ ~up[p]
  /\ IF fails THEN Fault("cleanup") ELSE NoEvent
  /\ up' = [up EXCEPT ![p] = TRUE]
  /\ queue' = [queue EXCEPT ![p] = BackupsOf(p) \X {"add"}]
  /\ \E missed, unread \in IF fails THEN SUBSET BackupsOf(p) ELSE {{}} :
       /\ \A s \in unread : bk[s].status = "InProgress"
       /\ bk' = [s \in Snaps |->
                   CASE s \notin BackupsOf(p) \/ s \in missed -> bk[s]
                     [] s \in unread \ missed -> [bk[s] EXCEPT !.status = "Failed"]
                     [] OTHER -> [bk[s] EXCEPT !.status = CleanedStatus(s, version[p])]]
       /\ lost' = (lost \ BackupsOf(p)) \cup missed
  /\ api' = [api EXCEPT !.fresh = @ /\ bk'[api.snap] = bk[api.snap]]
  /\ UNCHANGED <<version, snaps, rec, sent, at, job>>

Starts(p) == \E fails \in BOOLEAN : CleanupOldBackup(p, fails)

-----------------------------------------------------------------------------
Serve ==
  \/ \E local \in BOOLEAN : CreateSnapshot(local)
  \/ \E p \in Pools : FindHealthyCVR(p)
  \/ GetOrCreateLastBackupSnap \/ CreateBackupResource
  \/ UpdateBackupStatus
  \/ DeleteCompletedBackup \/ DeleteSnapshot \/ DeleteBackupResource

Work(p) ==
  \/ SyncHandler(p) \/ StartBackup(p) \/ CreateVolumeBackup(p)
  \/ UpdateCStorCompletedBackup(p) \/ WriteResult(p)

Request == \E s \in Snaps : Post(s) \/ GetBackup(s) \/ DeleteBackup(s)

Next ==
  \/ Request \/ Serve \/ CallFails
  \/ \E p \in Pools : Work(p) \/ ManagerCrashes(p) \/ Starts(p)

Spec == Init /\ [][Next]_vars

\* The worker of a manager runs for ever, and a manager that has crashed is started again.
FairSpec ==
  /\ Spec
  /\ WF_vars(Serve)
  /\ \A p \in Pools : WF_vars(Work(p)) /\ WF_vars(Starts(p))

-----------------------------------------------------------------------------
(* Properties                                                              *)

Backups == [status : Active \cup Finished \cup {"new", "none"}, pool : Pools,
            prev : Snaps \cup {Full}]
Records == [exists : BOOLEAN, last : Snaps \cup {Full}, second : Snaps \cup {Full}]
Jobs == [snap : Snaps \cup {Full}, status : Active \cup Finished \cup {"none"}, fresh : BOOLEAN]
Requests == [op : {"none", "post", "replica", "last", "create", "getWrite", "delete", "unsnap",
                   "unbackup"},
             snap : Snaps \cup {Full}, pool : Pools, prev : Snaps \cup {Full}, fresh : BOOLEAN]

\* The state of the schedule.  A record that does not exist names no snapshot.
TypeOK ==
  /\ version \in [Pools -> APIs]
  /\ snaps \subseteq Snaps
  /\ bk \in [Snaps -> Backups]
  /\ rec \in [APIs -> Records]
  /\ \A v \in APIs : rec[v].exists \/ rec[v] = NoRecord
  /\ sent \in [Snaps -> Snaps \cup {Full, "no"}]
  /\ up \in [Pools -> BOOLEAN]
  /\ queue \in [Pools -> SUBSET (Snaps \X {"add", "sync"})]
  /\ at \in [Pools -> {"idle", "progress", "send", "record", "write"}]
  /\ job \in [Pools -> Jobs]
  /\ api \in Requests
  /\ lost \subseteq Snaps
  /\ events \in 0..MaxEvents

\* A backup that is Done can be restored: it has reached the destination, and so has, in
\* turn, everything that it is a difference from (CreateVolumeBackup,
\* updateCStorCompletedBackup, findLastBackupStat).
DoneIsSent ==
  /\ \A s \in Snaps : bk[s].status = "Done" => sent[s] # "no"
  /\ \A s \in Snaps : sent[s] \in Snaps => sent[sent[s]] # "no"

\* The snapshot that the next backup will be a difference from is still on the volume:
\* deleting a backup deletes the record that names it (deleteCompletedBackup).
LastSnapHeld ==
  \A v \in APIs : rec[v].last # Full => rec[v].last \in snaps
=============================================================================
