-------------------------- MODULE VolumeBackupProofs -------------------------
(***************************************************************************)
(* Theorems about VolumeBackup and VolumeRestore, for any pools, any       *)
(* number of snapshots and any number of requests and faults.  They assume *)
(* that a GET never finds a manager down that is at work, be it that it is *)
(* reported late or that the check itself fails, and that the calls of the *)
(* cleanup succeed when a manager starts; the second half also that        *)
(* backups are deleted only while none is under way, that zfs send does    *)
(* not fail unseen, and that the pools have one version.                   *)
(***************************************************************************)
EXTENDS VolumeRestore, TLAPS

(* What a GET finds of the managers, and they of their backups when they start. *)
ManagersTold == ~ReadyLag /\ "check" \notin FaultKinds /\ "cleanup" \notin FaultKinds

(* How backups are deleted, sent and kept track of. *)
SentAsSaid ==
  /\ Careful
  /\ "zfs" \notin FaultKinds
  /\ \A f \in Versions : \A p, q \in Pools : f[p] = f[q]

Posting == {"post", "replica", "last", "create"}
Deleting == {"delete", "unsnap", "unbackup"}

(* Whoever is at work is at work on a backup. *)
NameInv ==
  /\ api.op # "none" => api.snap \in Snaps
  /\ \A p \in Pools : at[p] # "idle" => job[p].snap \in Snaps

(* No manager has heard of the backup. *)
Unheard(s) ==
  /\ \A p \in Pools : at[p] # "idle" => job[p].snap # s
  /\ \A p \in Pools : \A k \in {"add", "sync"} : <<s, k>> \notin queue[p]

(***************************************************************************)
(* Who may write a backup.  The worker of its pool holds it while it is    *)
(* unfinished; a GET holds it, unchanged, only while the manager is down;  *)
(* and nobody has heard of a backup that is not created yet.               *)
(***************************************************************************)
WorkInv(p) ==
  /\ ~up[p] => at[p] = "idle" /\ queue[p] = {}
  /\ at[p] # "idle" =>
       /\ bk[job[p].snap].pool = p
       /\ bk[job[p].snap].status \in Active \cup {"none"}
  /\ at[p] = "progress" /\ job[p].fresh => bk[job[p].snap].status \in Active
  /\ \A s \in Snaps : \A k \in {"add", "sync"} : <<s, k>> \in queue[p] => bk[s].pool = p

RequestInv ==
  /\ api.op \in Posting => bk[api.snap].status = "none" /\ Unheard(api.snap)
  /\ api.op = "getWrite" /\ api.fresh => bk[api.snap].status \in Active /\ ~up[bk[api.snap].pool]
  /\ \A s \in Snaps : bk[s].status = "new" => Unheard(s)

HoldInv == RequestInv /\ \A p \in Pools : WorkInv(p)

(***************************************************************************)
(* What has been sent.  An unfinished backup and its base are on the       *)
(* volume, since nothing is deleted meanwhile; the record names snapshots  *)
(* that were sent, the last of which is on the volume.                     *)
(***************************************************************************)
Based(s, prev) ==
  /\ s \in snaps /\ prev \in snaps \cup {Full}
  /\ prev \in Snaps => sent[prev] # "no"

RecordInv ==
  /\ LastSnapHeld
  /\ \A v \in APIs : \A s \in Snaps : s \in {rec[v].last, rec[v].second} => sent[s] # "no"
  /\ \A v \in APIs, p \in Pools : v # version[p] => rec[v] = NoRecord
  /\ \A p, q \in Pools : version[p] = version[q]

(* What a worker holds is unfinished, and what it calls Done has been sent. *)
WorkerSends(p) ==
  /\ at[p] # "idle" => bk[job[p].snap].status \in Active
  /\ at[p] = "record" => sent[job[p].snap] # "no"
  /\ at[p] = "write" /\ job[p].status = "Done" => sent[job[p].snap] # "no"

(* What the request under way has found. *)
RequestSends ==
  /\ api.op \in {"replica", "last", "create"} => api.snap \in snaps
  /\ api.op = "create" => Based(api.snap, api.prev)
  /\ api.op \in Deleting => \A s \in Snaps : bk[s].status \notin Active
  /\ api.op = "unsnap" => \A v \in APIs : rec[v].last # api.snap

SendInv ==
  /\ \A p \in Pools : WorkerSends(p)
  /\ \A s \in Snaps : bk[s].status \in Active => Based(s, bk[s].prev)
  /\ RequestSends
  /\ DoneIsSent

(* The restore of a pool: its worker holds it while it is unfinished. *)
RestoreInv(p) ==
  /\ ~up[p] => rat[p] = "idle" /\ rqueue[p] = {}
  /\ rat[p] # "idle" => rst[p] \in Active

ReceivedInv(p) ==
  /\ rat[p] = "write" /\ rjob[p] = "Done" => p \in data
  /\ rst[p] = "Done" => p \in data

RestoreType ==
  /\ rst \in [Pools -> Active \cup Finished \cup {"none"}]
  /\ rqueue \in [Pools -> SUBSET {"add", "sync"}]
  /\ rat \in [Pools -> {"idle", "progress", "receive", "write"}]
  /\ rjob \in [Pools -> Active \cup Finished \cup {"none"}]

-----------------------------------------------------------------------------
(* What the writes leave behind. *)
LEMMA StatusType ==
  ASSUME NEW b \in Backups, NEW status \in Active \cup Finished \cup {"none"}
  PROVE  /\ [b EXCEPT !.status = status] \in Backups
         /\ [b EXCEPT !.status = status].status = status
         /\ [b EXCEPT !.status = status].pool = b.pool
         /\ [b EXCEPT !.status = status].prev = b.prev
BY DEF Backups

LEMMA RequestType ==
  ASSUME NEW r \in Requests, NEW b \in BOOLEAN
  PROVE  [r EXCEPT !.fresh = b] \in Requests
BY DEF Requests

LEMMA NoneType ==
  /\ NoBackup \in Backups /\ NoRecord \in Records /\ NoJob \in Jobs /\ NoRequest \in Requests
  /\ NoRequest.op = "none" /\ NoRecord.last = Full /\ NoRecord.second = Full
<1>1. (CHOOSE p \in Pools : TRUE) \in Pools
  BY BackupAssumption
<1> QED
  BY <1>1 DEF NoBackup, NoRecord, NoJob, NoRequest, Backups, Records, Jobs, Requests

(* WriteStatus, and what becomes of those who have read the backup. *)
LEMMA WriteType ==
  ASSUME TypeOK, NEW s \in Snaps, NEW status \in Active \cup Finished \cup {"none"}, WriteStatus(s, status)
  PROVE  /\ bk' \in [Snaps -> Backups] /\ queue' \in [Pools -> SUBSET (Snaps \X {"add", "sync"})]
<1>1. bk[s] \in Backups /\ bk[s].pool \in Pools
  BY DEF TypeOK, Backups
<1>2. [bk[s] EXCEPT !.status = status] \in Backups
  BY <1>1, StatusType
<1>3. bk' = [bk EXCEPT ![s] = [bk[s] EXCEPT !.status = status]]
  BY DEF WriteStatus, TypeOK
<1>4. bk' \in [Snaps -> Backups]
  BY <1>2, <1>3 DEF TypeOK
<1>5. queue' \in [Pools -> SUBSET (Snaps \X {"add", "sync"})]
  BY <1>1 DEF WriteStatus, TypeOK
<1> QED
  BY <1>4, <1>5

LEMMA StaleType ==
  ASSUME TypeOK, NEW s \in Snaps
  PROVE  /\ StaleRequest(s) => api' \in Requests
         /\ StaleJob(s) => job' \in [Pools -> Jobs]
<1>1. ASSUME StaleRequest(s) PROVE api' \in Requests
  <2>1. api \in Requests
    BY DEF TypeOK
  <2>2. (api.fresh /\ api.snap # s) \in BOOLEAN
    BY Zenon
  <2> QED
    BY <1>1, <2>1, <2>2, RequestType, Zenon DEF StaleRequest
<1>2. ASSUME StaleJob(s) PROVE job' \in [Pools -> Jobs]
  <2>1. ASSUME NEW p \in Pools PROVE [job[p] EXCEPT !.fresh = @ /\ job[p].snap # s] \in Jobs
    <3>1. job[p] \in Jobs
      BY DEF TypeOK
    <3>2. (job[p].fresh /\ job[p].snap # s) \in BOOLEAN
      BY Zenon
    <3>3. \A b \in BOOLEAN : [job[p] EXCEPT !.fresh = b] \in Jobs
      BY <3>1 DEF Jobs
    <3> QED
      BY <3>2, <3>3, Zenon
  <2> QED
    BY <1>2, <2>1 DEF StaleJob
<1> QED
  BY <1>1, <1>2

(* A manager that goes on, or is done. *)
LEMMA GoType ==
  ASSUME TypeOK, NEW p \in Pools
  PROVE  /\ Idle(p) => /\ at' \in [Pools -> {"idle", "progress", "send", "record", "write"}]
                       /\ job' \in [Pools -> Jobs] /\ at'[p] = "idle"
                       /\ \A q \in Pools \ {p} : at'[q] = at[q] /\ job'[q] = job[q]
         /\ \A step \in {"progress", "send", "record", "write"}, s \in Snaps,
               status \in Active \cup Finished \cup {"none"} :
              GoTo(p, step, s, status) =>
                /\ at' \in [Pools -> {"idle", "progress", "send", "record", "write"}]
                /\ job' \in [Pools -> Jobs]
                /\ at'[p] = step /\ job'[p].snap = s /\ job'[p].status = status /\ job'[p].fresh
                /\ \A q \in Pools \ {p} : at'[q] = at[q] /\ job'[q] = job[q]
<1>1. ASSUME Idle(p) PROVE /\ at' \in [Pools -> {"idle", "progress", "send", "record", "write"}]
                           /\ job' \in [Pools -> Jobs] /\ at'[p] = "idle"
                           /\ \A q \in Pools \ {p} : at'[q] = at[q] /\ job'[q] = job[q]
  BY <1>1, NoneType DEF Idle, TypeOK
<1>2. ASSUME NEW step \in {"progress", "send", "record", "write"}, NEW s \in Snaps,
             NEW status \in Active \cup Finished \cup {"none"}, GoTo(p, step, s, status)
      PROVE  /\ at' \in [Pools -> {"idle", "progress", "send", "record", "write"}]
             /\ job' \in [Pools -> Jobs]
             /\ at'[p] = step /\ job'[p].snap = s /\ job'[p].status = status /\ job'[p].fresh
             /\ \A q \in Pools \ {p} : at'[q] = at[q] /\ job'[q] = job[q]
  <2>1. [snap |-> s, status |-> status, fresh |-> TRUE] \in Jobs
    BY DEF Jobs
  <2> QED
    BY <1>2, <2>1 DEF GoTo, TypeOK
<1> QED
  BY <1>1, <1>2

(* A step of the restore leaves the backups alone, but for the count. *)
Beside ==
  /\ UNCHANGED <<version, snaps, bk, rec, sent, manager, api, lost>>
  /\ events' \in 0 .. MaxEvents

LEMMA EventType == ASSUME TypeOK, Event \/ NoEvent PROVE events' \in 0 .. MaxEvents
BY BackupAssumption DEF TypeOK, Event, NoEvent

(* The REST server keeps the types. *)
(* What a GET writes is an outcome, and Done only what the record has. *)
LEMMA GetWrites ==
  ASSUME UpdateBackupStatus
  PROVE  \/ UNCHANGED <<bk, queue, job>>
         \/ /\ api.fresh /\ StaleJob(api.snap)
            /\ \E status \in Finished :
                 /\ WriteStatus(api.snap, status)
                 /\ status = "Done" => FindLastBackupStat(api.snap, version[bk[api.snap].pool]) = "Done"
<1> DEFINE found == FindLastBackupStat(api.snap, version[bk[api.snap].pool])
<1>1. found \in Finished /\ "Failed" \in Finished /\ "Failed" # "Done"
  BY DEF FindLastBackupStat, Finished
<1>2. \/ UNCHANGED <<bk, queue, job>>
      \/ api.fresh /\ StaleJob(api.snap) /\ (WriteStatus(api.snap, found) \/ WriteStatus(api.snap, "Failed"))
  BY Zenon DEF UpdateBackupStatus
<1> HIDE DEF found
<1>3. \/ UNCHANGED <<bk, queue, job>>
      \/ /\ api.fresh /\ StaleJob(api.snap)
         /\ \E status \in Finished : WriteStatus(api.snap, status) /\ (status = "Done" => found = "Done")
  BY <1>1, <1>2, Zenon
<1> QED
  BY <1>3, Zenon DEF found

LEMMA ServeType == ASSUME TypeOK, NameInv, Request \/ Serve \/ CallFails PROVE TypeOK' /\ NameInv'
<1>t. /\ version \in [Pools -> APIs] /\ snaps \subseteq Snaps /\ bk \in [Snaps -> Backups]
      /\ rec \in [APIs -> Records] /\ sent \in [Snaps -> Snaps \cup {Full, "no"}]
      /\ queue \in [Pools -> SUBSET (Snaps \X {"add", "sync"})] /\ api \in Requests
      /\ job \in [Pools -> Jobs] /\ api.snap \in Snaps \cup {Full} /\ api.pool \in Pools
      /\ api.prev \in Snaps \cup {Full}
  BY DEF TypeOK, Requests
<1>n. NoRequest \in Requests /\ NoRequest.op = "none" /\ NoRecord \in Records
  BY NoneType
<1> USE DEF manager
<1>1. ASSUME CallFails PROVE TypeOK' /\ NameInv'
  <2>1. api' = NoRequest /\ events' \in 0 .. MaxEvents /\ UNCHANGED <<version, snaps, bk, rec, sent, manager, lost>>
    BY <1>1, EventType DEF CallFails, Fault, Answer
  <2> QED
    BY <1>n, <2>1 DEF TypeOK, NameInv
<1>2. ASSUME NEW s \in Snaps, Post(s) PROVE TypeOK' /\ NameInv'
  <2>1. api' \in Requests /\ api'.snap = s /\ events' \in 0 .. MaxEvents
    BY <1>2, <1>n, EventType, Zenon DEF Post, Requests
  <2>2. bk' = [bk EXCEPT ![s] = [bk[s] EXCEPT !.status = "none"]]
    BY <1>2, <1>t DEF Post
  <2>3. bk' \in [Snaps -> Backups]
    BY <1>t, <2>2, StatusType, Zenon
  <2>4. UNCHANGED <<version, snaps, rec, sent, manager, lost>>
    BY <1>2 DEF Post
  <2> QED
    BY <2>1, <2>3, <2>4 DEF TypeOK, NameInv
<1>3. ASSUME NEW s \in Snaps, GetBackup(s) \/ DeleteBackup(s) PROVE TypeOK' /\ NameInv'
  <2>1. api' \in Requests /\ api'.snap = s /\ events' \in 0 .. MaxEvents
    BY <1>3, <1>n, EventType, Zenon DEF GetBackup, DeleteBackup, Requests
  <2>2. UNCHANGED <<version, snaps, bk, rec, sent, manager, lost>>
    BY <1>3 DEF GetBackup, DeleteBackup
  <2> QED
    BY <2>1, <2>2 DEF TypeOK, NameInv
<1>4. ASSUME NEW local \in BOOLEAN, CreateSnapshot(local) PROVE TypeOK' /\ NameInv'
  <2>1. snaps' \subseteq Snaps /\ api.snap \in Snaps
    BY <1>4, <1>t DEF CreateSnapshot, NameInv
  <2>2. api' \in Requests /\ (api'.op # "none" => api'.snap = api.snap)
    BY <1>4, <1>t, <1>n DEF CreateSnapshot, Requests
  <2>3. UNCHANGED <<version, bk, rec, sent, manager, lost, events>>
    BY <1>4 DEF CreateSnapshot
  <2> QED
    BY <2>1, <2>2, <2>3 DEF TypeOK, NameInv
<1>5. ASSUME NEW p \in Pools, FindHealthyCVR(p) PROVE TypeOK' /\ NameInv'
  <2>1. api' \in Requests /\ api'.snap = api.snap /\ api.op # "none"
    BY <1>5, <1>t, Zenon DEF FindHealthyCVR, Requests
  <2>2. UNCHANGED <<version, snaps, bk, rec, sent, manager, lost, events>>
    BY <1>5 DEF FindHealthyCVR
  <2> QED
    BY <2>1, <2>2 DEF TypeOK, NameInv
<1>6. ASSUME GetOrCreateLastBackupSnap PROVE TypeOK' /\ NameInv'
  <2> DEFINE v == version[api.pool]
  <2>1. v \in APIs /\ LastSnap(v) \in Snaps \cup {Full}
    <3>1. v \in APIs /\ (CHOOSE o \in APIs \ {v} : TRUE) \in APIs
      <4>1. v \in APIs /\ \E o \in APIs \ {v} : TRUE
        BY <1>t DEF APIs
      <4> QED
        BY <4>1
    <3> QED
      BY <1>t, <3>1 DEF LastSnap, Records
  <2>2. api' \in Requests /\ api'.snap = api.snap /\ api.op # "none"
    BY <1>6, <1>t, <2>1, Zenon DEF GetOrCreateLastBackupSnap, Requests
  <2>3. rec' \in [APIs -> Records] /\ \A o \in APIs : rec'[o].exists \/ rec'[o] = NoRecord
    <3>1. rec' = rec \/ rec' = [rec EXCEPT ![v] = [rec[v] EXCEPT !.exists = TRUE]]
      BY <1>6, <1>t, <2>1 DEF GetOrCreateLastBackupSnap
    <3>2. [rec[v] EXCEPT !.exists = TRUE] \in Records /\ [rec[v] EXCEPT !.exists = TRUE].exists = TRUE
      BY <1>t, <2>1, ZenonT(60) DEF Records
    <3> QED
      BY <1>t, <2>1, <3>1, <3>2, Zenon DEF TypeOK
  <2>4. UNCHANGED <<version, snaps, bk, sent, manager, lost, events>>
    BY <1>6 DEF GetOrCreateLastBackupSnap
  <2> QED
    BY <2>2, <2>3, <2>4 DEF TypeOK, NameInv
<1>7. ASSUME CreateBackupResource PROVE TypeOK' /\ NameInv'
  <2>1. api' = NoRequest /\ UNCHANGED <<version, snaps, rec, sent, up, at, job, lost, events>> /\ api.snap \in Snaps
    BY <1>7 DEF CreateBackupResource, Answer, NameInv
  <2>2. bk' \in [Snaps -> Backups]
    <3>1. [status |-> "Pending", pool |-> api.pool, prev |-> api.prev] \in Backups
      BY <1>t DEF Backups, Active
    <3> QED
      BY <1>7, <1>t, <3>1, Zenon DEF CreateBackupResource
  <2>3. queue' \in [Pools -> SUBSET (Snaps \X {"add", "sync"})]
    BY <1>7, <1>t, <2>1 DEF CreateBackupResource
  <2> QED
    BY <1>n, <2>1, <2>2, <2>3 DEF TypeOK, NameInv
<1>8. ASSUME UpdateBackupStatus PROVE TypeOK' /\ NameInv'
  <2>1. api' = NoRequest /\ UNCHANGED <<version, snaps, rec, sent, up, at, lost>> /\ api.snap \in Snaps
    BY <1>8 DEF UpdateBackupStatus, Answer, NameInv
  <2>2. events' \in 0 .. MaxEvents
    BY <1>8, EventType DEF UpdateBackupStatus, Fault
  <2>3. ASSUME NEW status \in Finished, WriteStatus(api.snap, status), StaleJob(api.snap)
        PROVE  TypeOK' /\ NameInv'
    <3>1. status \in Active \cup Finished
      BY <2>3
    <3>2. /\ bk' \in [Snaps -> Backups] /\ queue' \in [Pools -> SUBSET (Snaps \X {"add", "sync"})]
          /\ job' \in [Pools -> Jobs]
      BY <2>1, <2>3, <3>1, WriteType, StaleType
    <3>3. \A p \in Pools : job'[p].snap = job[p].snap
      BY <1>t, <2>3 DEF StaleJob, Jobs
    <3> QED
      BY <1>n, <2>1, <2>2, <3>2, <3>3 DEF TypeOK, NameInv
  <2>4. CASE UNCHANGED <<bk, queue, job>>
    BY <1>n, <2>1, <2>2, <2>4 DEF TypeOK, NameInv
  <2> QED
    BY <1>8, <2>3, <2>4, GetWrites, Zenon
<1>9. ASSUME DeleteCompletedBackup \/ DeleteSnapshot PROVE TypeOK' /\ NameInv'
  <2>1. api' \in Requests /\ api'.snap = api.snap /\ api.op # "none" /\ api.snap \in Snaps
    BY <1>9, <1>t DEF DeleteCompletedBackup, DeleteSnapshot, Requests, NameInv
  <2>2. rec' \in [APIs -> Records] /\ \A v \in APIs : rec'[v].exists \/ rec'[v] = NoRecord
    <3>1. CASE DeleteCompletedBackup
      <4>1. version[bk[api.snap].pool] \in APIs
        BY <1>t, <2>1 DEF Backups
      <4> QED
        BY <1>t, <1>n, <3>1, <4>1, Zenon DEF DeleteCompletedBackup, WithoutBackup, TypeOK
    <3>2. CASE DeleteSnapshot
      BY <1>t, <3>2 DEF DeleteSnapshot, TypeOK
    <3> QED
      BY <1>9, <3>1, <3>2
  <2>3. snaps' \subseteq Snaps /\ UNCHANGED <<version, bk, sent, manager, lost, events>>
    BY <1>9, <1>t DEF DeleteCompletedBackup, DeleteSnapshot
  <2> QED
    BY <2>1, <2>2, <2>3 DEF TypeOK, NameInv
<1>10. ASSUME DeleteBackupResource PROVE TypeOK' /\ NameInv'
  <2>1. /\ api' = NoRequest /\ api.snap \in Snaps /\ StaleJob(api.snap)
        /\ UNCHANGED <<version, snaps, rec, sent, up, queue, at, lost, events>>
    BY <1>10 DEF DeleteBackupResource, Answer, NameInv
  <2>2. bk' = [bk EXCEPT ![api.snap] = [bk[api.snap] EXCEPT !.status = "none"]]
    BY <1>10, <1>t DEF DeleteBackupResource
  <2>3. bk' \in [Snaps -> Backups] /\ job' \in [Pools -> Jobs]
    BY <1>t, <2>1, <2>2, StatusType, StaleType, Zenon
  <2>4. \A p \in Pools : job'[p].snap = job[p].snap
    BY <1>t, <2>1 DEF StaleJob, Jobs
  <2> QED
    BY <1>n, <2>1, <2>3, <2>4 DEF TypeOK, NameInv
<1> QED
  BY <1>1, <1>2, <1>3, <1>4, <1>5, <1>6, <1>7, <1>8, <1>9, <1>10 DEF Request, Serve

(* The managers keep the types. *)
(* What the start of a manager changes. *)
Cleaned(p) == [s \in Snaps |-> IF s \in BackupsOf(p)
                               THEN [bk[s] EXCEPT !.status = CleanedStatus(s, version[p])]
                               ELSE bk[s]]

LEMMA StartStep ==
  ASSUME TypeOK, NEW p \in Pools, NEW fails \in BOOLEAN, CleanupOldBackup(p, fails)
  PROVE  /\ ~up[p] /\ (Event \/ NoEvent)
         /\ up' = [up EXCEPT ![p] = TRUE]
         /\ queue' = [queue EXCEPT ![p] = BackupsOf(p) \X {"add"}]
         /\ api' = [api EXCEPT !.fresh = @ /\ bk'[api.snap] = bk[api.snap]]
         /\ UNCHANGED <<version, snaps, rec, sent, at, job>>
         /\ bk' \in [Snaps -> Backups] /\ lost' \subseteq Snaps
         /\ ManagersTold => ~fails /\ bk' = Cleaned(p)
<1>1. /\ ~up[p] /\ (Event \/ NoEvent) /\ (fails => "cleanup" \in FaultKinds)
      /\ up' = [up EXCEPT ![p] = TRUE]
      /\ queue' = [queue EXCEPT ![p] = BackupsOf(p) \X {"add"}]
      /\ api' = [api EXCEPT !.fresh = @ /\ bk'[api.snap] = bk[api.snap]]
      /\ UNCHANGED <<version, snaps, rec, sent, at, job>>
  BY Zenon DEF CleanupOldBackup, Fault
<1>2. PICK missed \in (IF fails THEN SUBSET BackupsOf(p) ELSE {{}}),
           unread \in (IF fails THEN SUBSET BackupsOf(p) ELSE {{}}) :
        /\ bk' = [s \in Snaps |->
                   CASE s \notin BackupsOf(p) \/ s \in missed -> bk[s]
                     [] s \in unread \ missed -> [bk[s] EXCEPT !.status = "Failed"]
                     [] OTHER -> [bk[s] EXCEPT !.status = CleanedStatus(s, version[p])]]
        /\ lost' = (lost \ BackupsOf(p)) \cup missed
  BY Zenon DEF CleanupOldBackup
<1>3. missed \subseteq BackupsOf(p) /\ (~fails => missed = {} /\ unread = {})
  BY Zenon
<1>4. lost' \subseteq Snaps
  BY <1>2, <1>3, Zenon DEF BackupsOf, TypeOK
<1>5. ASSUME NEW s \in Snaps
      PROVE  /\ bk[s] \in Backups /\ [bk[s] EXCEPT !.status = "Failed"] \in Backups
             /\ [bk[s] EXCEPT !.status = CleanedStatus(s, version[p])] \in Backups
  <2>1. CleanedStatus(s, version[p]) \in Active \cup Finished /\ "Failed" \in Finished
    BY DEF CleanedStatus, FindLastBackupStat, Finished
  <2> QED
    BY <2>1, StatusType, Zenon DEF TypeOK
<1>6. bk' \in [Snaps -> Backups]
  BY <1>2, <1>5
<1>7. ASSUME ~fails PROVE bk' = Cleaned(p)
  BY <1>2, <1>3, <1>7 DEF Cleaned
<1> QED
  BY <1>1, <1>4, <1>6, <1>7, Zenon DEF ManagersTold

LEMMA ManagerType ==
  ASSUME TypeOK, NameInv, NEW p \in Pools, Work(p) \/ ManagerCrashes(p) \/ Starts(p)
  PROVE  TypeOK' /\ NameInv'
<1>t. /\ version \in [Pools -> APIs] /\ snaps \subseteq Snaps /\ bk \in [Snaps -> Backups]
      /\ rec \in [APIs -> Records] /\ sent \in [Snaps -> Snaps \cup {Full, "no"}] /\ up \in [Pools -> BOOLEAN]
      /\ queue \in [Pools -> SUBSET (Snaps \X {"add", "sync"})] /\ api \in Requests /\ lost \subseteq Snaps
      /\ job \in [Pools -> Jobs]
  BY DEF TypeOK
<1> USE DEF manager
<1> DEFINE WorkerOK ==
      /\ at' \in [Pools -> {"idle", "progress", "send", "record", "write"}] /\ job' \in [Pools -> Jobs]
      /\ \A q \in Pools : at'[q] # "idle" => job'[q].snap \in Snaps
<1>i. ASSUME Idle(p) PROVE WorkerOK
  BY <1>i, GoType DEF NameInv
<1>g. ASSUME NEW step \in {"progress", "send", "record", "write"}, NEW s \in Snaps,
             NEW status \in Active \cup Finished \cup {"none"}, GoTo(p, step, s, status)
      PROVE  WorkerOK
  <2>1. /\ at' \in [Pools -> {"idle", "progress", "send", "record", "write"}] /\ job' \in [Pools -> Jobs]
        /\ job'[p].snap = s /\ \A q \in Pools \ {p} : at'[q] = at[q] /\ job'[q] = job[q]
    BY <1>g, GoType
  <2> QED
    BY <2>1 DEF NameInv
<1>q. ASSUME api'.snap = api.snap, api'.op = api.op, WorkerOK PROVE NameInv'
  BY <1>q DEF NameInv
<1> HIDE DEF WorkerOK
<1>1. CASE SyncHandler(p)
  <2>1. UNCHANGED <<version, snaps, bk, rec, sent, up, api, lost, events>>
    BY <1>1 DEF SyncHandler
  <2>2. PICK item \in queue[p] :
          /\ queue' = [queue EXCEPT ![p] = @ \ {item}]
          /\ IF bk[item[1]].status \in Active /\ item[2] = "add"
             THEN GoTo(p, "write", item[1], AddStatus(bk[item[1]].status))
             ELSE IF bk[item[1]].status = "Init" THEN GoTo(p, "progress", item[1], "none") ELSE Idle(p)
    BY <1>1, Zenon DEF SyncHandler
  <2>3. item[1] \in Snaps /\ \A status : AddStatus(status) \in Active \cup Finished \cup {"none"}
    BY <1>t DEF AddStatus, Active
  <2>4. WorkerOK
    BY <1>i, <1>g, <2>2, <2>3
  <2>5. queue' \in [Pools -> SUBSET (Snaps \X {"add", "sync"})]
    BY <1>t, <2>2
  <2> QED
    BY <1>q, <2>1, <2>4, <2>5 DEF TypeOK, WorkerOK
<1>2. ASSUME LoseJob(p), at[p] # "idle" PROVE WorkerOK /\ lost' \subseteq Snaps /\ UNCHANGED <<bk, queue, api>>
  BY <1>2, <1>i, <1>t DEF LoseJob, NameInv
<1>3. CASE StartBackup(p)
  <2>1. UNCHANGED <<version, snaps, rec, sent, up>> /\ at[p] = "progress" /\ job[p].snap \in Snaps
    BY <1>3 DEF StartBackup, NameInv
  <2>2. events' \in 0 .. MaxEvents
    BY <1>3, EventType, SMTT(30) DEF StartBackup, Fault
  <2>3. CASE /\ WriteStatus(job[p].snap, "InProgress") /\ StaleRequest(job[p].snap)
             /\ GoTo(p, "send", job[p].snap, "none") /\ UNCHANGED lost
    <3>1. /\ bk' \in [Snaps -> Backups] /\ queue' \in [Pools -> SUBSET (Snaps \X {"add", "sync"})]
          /\ api' \in Requests
      BY <2>1, <2>3, WriteType, StaleType DEF Active
    <3>2. WorkerOK /\ api'.snap = api.snap /\ api'.op = api.op
      BY <1>g, <1>t, <2>1, <2>3 DEF StaleRequest, Requests
    <3> QED
      BY <1>q, <2>1, <2>2, <2>3, <3>1, <3>2 DEF TypeOK, WorkerOK
  <2>4. CASE LoseJob(p)
    BY <1>2, <1>q, <2>1, <2>2, <2>4 DEF TypeOK, WorkerOK
  <2> QED
    BY <1>3, <2>3, <2>4 DEF StartBackup
<1>4. CASE CreateVolumeBackup(p)
  <2>1. UNCHANGED <<version, snaps, bk, rec, up, queue, api, lost>> /\ job[p].snap \in Snaps
    BY <1>4, SMTT(30) DEF CreateVolumeBackup, NameInv
  <2>2. events' \in 0 .. MaxEvents
    BY <1>4, EventType, SMTT(30) DEF CreateVolumeBackup, Fault
  <2>3. WorkerOK
    BY <1>4, <1>g, <2>1 DEF CreateVolumeBackup, Finished
  <2>4. sent' \in [Snaps -> Snaps \cup {Full, "no"}]
    BY <1>4, <1>t, <2>1 DEF CreateVolumeBackup, Backups
  <2> QED
    BY <1>q, <2>1, <2>2, <2>3, <2>4 DEF TypeOK, WorkerOK
<1>5. CASE UpdateCStorCompletedBackup(p)
  <2>0. PICK v \in {RecordOf(version[p]), "v1"} : UNCHANGED rec \/ rec' = [rec EXCEPT ![v] = Recorded(v, job[p].snap)]
    BY <1>5, Zenon DEF UpdateCStorCompletedBackup
  <2>1. UNCHANGED <<version, snaps, bk, sent, up, queue, api, lost>> /\ job[p].snap \in Snaps /\ v \in APIs
    <3>1. RecordOf(version[p]) \in APIs /\ "v1" \in APIs
      BY <1>t DEF RecordOf, APIs
    <3> QED
      BY <1>5, <2>0, <3>1, Zenon DEF UpdateCStorCompletedBackup, NameInv
  <2>2. events' \in 0 .. MaxEvents
    BY <1>5, EventType, Zenon DEF UpdateCStorCompletedBackup, Fault
  <2>3. WorkerOK
    BY <1>5, <1>g, <2>1, Zenon DEF UpdateCStorCompletedBackup, Finished
  <2>4. rec' \in [APIs -> Records] /\ \A o \in APIs : rec'[o].exists \/ rec'[o] = NoRecord
    <3>1. /\ Recorded(v, job[p].snap) \in Records
          /\ Recorded(v, job[p].snap).exists \/ Recorded(v, job[p].snap) = NoRecord
      BY <1>t, <2>1, ZenonT(60) DEF Recorded, Records, TypeOK
    <3>2. UNCHANGED rec \/ rec' = [rec EXCEPT ![v] = Recorded(v, job[p].snap)]
      BY <2>0
    <3> QED
      BY <1>t, <2>1, <3>1, <3>2 DEF TypeOK
  <2> QED
    BY <1>q, <2>1, <2>2, <2>3, <2>4 DEF TypeOK, WorkerOK
<1>6. CASE WriteResult(p)
  <2>1. UNCHANGED <<version, snaps, rec, sent, up>> /\ at[p] = "write" /\ job[p].snap \in Snaps
    BY <1>6, SMTT(30) DEF WriteResult, NameInv
  <2>2. events' \in 0 .. MaxEvents
    BY <1>6, EventType, Zenon DEF WriteResult, Fault
  <2>3. CASE WriteStatus(job[p].snap, job[p].status) /\ StaleRequest(job[p].snap) /\ Idle(p) /\ UNCHANGED lost
    <3>1. job[p].status \in Active \cup Finished \cup {"none"}
      BY <1>t DEF Jobs
    <3>2. /\ bk' \in [Snaps -> Backups] /\ queue' \in [Pools -> SUBSET (Snaps \X {"add", "sync"})]
          /\ api' \in Requests
      BY <2>1, <2>3, <3>1, WriteType, StaleType, SMTT(30)
    <3>3. WorkerOK /\ api'.snap = api.snap /\ api'.op = api.op
      BY <1>i, <1>t, <2>3 DEF StaleRequest, Requests
    <3> QED
      BY <1>q, <2>1, <2>2, <2>3, <3>2, <3>3, SMTT(30) DEF TypeOK, WorkerOK
  <2>4. CASE UNCHANGED <<bk, queue, api>> /\ Idle(p) /\ UNCHANGED lost
    BY <1>i, <1>q, <2>1, <2>2, <2>4 DEF TypeOK, WorkerOK
  <2>5. CASE LoseJob(p)
    BY <1>2, <1>q, <2>1, <2>2, <2>5, SMTT(30) DEF TypeOK, WorkerOK
  <2> QED
    BY <1>6, <2>3, <2>4, <2>5, Zenon DEF WriteResult
<1>7. CASE ManagerCrashes(p)
  <2>1. UNCHANGED <<version, snaps, bk, rec, sent, api, lost>> /\ WorkerOK /\ events' \in 0 .. MaxEvents
    BY <1>7, <1>i, EventType DEF ManagerCrashes, Fault
  <2>2. up' \in [Pools -> BOOLEAN] /\ queue' \in [Pools -> SUBSET (Snaps \X {"add", "sync"})]
    BY <1>7, <1>t DEF ManagerCrashes
  <2> QED
    BY <1>q, <2>1, <2>2 DEF TypeOK, WorkerOK
<1>8. CASE Starts(p)
  <2>0. PICK fails \in BOOLEAN : CleanupOldBackup(p, fails)
    BY <1>8 DEF Starts
  <2>1. UNCHANGED <<version, snaps, rec, sent, at, job>> /\ events' \in 0 .. MaxEvents
    BY <2>0, StartStep, EventType, Zenon
  <2>2. up' \in [Pools -> BOOLEAN] /\ queue' \in [Pools -> SUBSET (Snaps \X {"add", "sync"})]
    <3>1. BackupsOf(p) \X {"add"} \subseteq Snaps \X {"add", "sync"}
      BY DEF BackupsOf
    <3>2. up' = [up EXCEPT ![p] = TRUE] /\ queue' = [queue EXCEPT ![p] = BackupsOf(p) \X {"add"}]
      BY <2>0, StartStep
    <3> QED
      BY <1>t, <3>1, <3>2
  <2>3. bk' \in [Snaps -> Backups]
    BY <2>0, StartStep
  <2>4. api' \in Requests /\ api'.snap = api.snap /\ api'.op = api.op
    <3>1. api' = [api EXCEPT !.fresh = @ /\ bk'[api.snap] = bk[api.snap]]
      BY <2>0, StartStep
    <3>2. (api.fresh /\ bk'[api.snap] = bk[api.snap]) \in BOOLEAN
      BY Zenon
    <3>3. api' \in Requests
      BY <1>t, <3>1, <3>2, RequestType, Zenon
    <3> QED
      BY <1>t, <3>1, <3>3 DEF Requests
  <2>5. lost' \subseteq Snaps
    BY <2>0, StartStep
  <2> QED
    BY <2>1, <2>2, <2>3, <2>4, <2>5 DEF TypeOK, NameInv
<1> QED
  BY <1>1, <1>3, <1>4, <1>5, <1>6, <1>7, <1>8 DEF Work

-----------------------------------------------------------------------------
(* A worker whose own state and whose backups are left alone. *)
LEMMA OtherWorker ==
  ASSUME TypeOK, NameInv, NEW q \in Pools, WorkInv(q),
         at'[q] = at[q], job'[q] = job[q], queue'[q] = queue[q], up'[q] = up[q],
         \A t \in Snaps : bk'[t] = bk[t] \/ (bk'[t].pool = bk[t].pool /\ bk[t].pool # q)
  PROVE  WorkInv(q)'
BY Zenon DEF WorkInv, NameInv

(* A worker that keeps its place while its backup is left alone, or is deleted and its own copy stale. *)
LEMMA SameWorker ==
  ASSUME NEW p \in Pools, WorkInv(p),
         at'[p] = at[p], up'[p] = up[p], job'[p].snap = job[p].snap, job'[p].fresh => job[p].fresh,
         at[p] # "idle" =>
           /\ bk'[job[p].snap].pool = bk[job[p].snap].pool
           /\ \/ bk'[job[p].snap].status = bk[job[p].snap].status
              \/ bk'[job[p].snap].status = "none" /\ ~job'[p].fresh,
         ~up[p] => queue'[p] = {},
         \A s \in Snaps : \A k \in {"add", "sync"} : <<s, k>> \in queue'[p] => bk'[s].pool = p
  PROVE  WorkInv(p)'
<1>1. at'[p] # "idle" =>
        /\ bk'[job'[p].snap].pool = p
        /\ bk'[job'[p].snap].status \in Active \cup {"none"}
  BY DEF WorkInv
<1>2. at'[p] = "progress" /\ job'[p].fresh => bk'[job'[p].snap].status \in Active
  BY DEF WorkInv
<1> QED
  BY <1>1, <1>2, Zenon DEF WorkInv

(* What the managers and the backups are held by does not change with the request. *)
LEMMA HeldAsBefore ==
  ASSUME UNCHANGED <<bk, up, at, job, queue>>
  PROVE  /\ \A p \in Pools : WorkInv(p) => WorkInv(p)'
         /\ \A t \in Snaps : Unheard(t) => Unheard(t)'
BY Zenon DEF WorkInv, Unheard

(* The requests keep off the backups the managers hold. *)
LEMMA ServeHold ==
  ASSUME ManagersTold, TypeOK, NameInv, HoldInv, Request \/ Serve \/ CallFails
  PROVE  HoldInv'
<1>t. /\ bk \in [Snaps -> Backups] /\ queue \in [Pools -> SUBSET (Snaps \X {"add", "sync"})]
      /\ api \in Requests /\ job \in [Pools -> Jobs]
  BY DEF TypeOK
<1>n. NoRequest \in Requests /\ NoRequest.op = "none"
  BY NoneType
<1>h. RequestInv /\ \A p \in Pools : WorkInv(p)
  BY DEF HoldInv
<1>u. \A p \in Pools : ~up[p] => queue[p] = {}
  BY <1>h, Zenon DEF WorkInv
<1>q. \A p \in Pools : \A s \in Snaps : \A k \in {"add", "sync"} : <<s, k>> \in queue[p] => bk[s].pool = p
  BY <1>h, Zenon DEF WorkInv
<1> USE DEF manager
<1>1. CASE CallFails
  <2>1. api'.op = "none" /\ UNCHANGED <<bk, manager>>
    BY <1>1, <1>n DEF CallFails, Answer
  <2> QED
    BY <1>h, <2>1, HeldAsBefore, Zenon DEF HoldInv, RequestInv, Posting
<1>2. ASSUME NEW s \in Snaps, Post(s) PROVE HoldInv'
  <2>1. api'.op = "post" /\ api'.snap = s /\ UNCHANGED manager /\ Unheard(s)
    BY <1>2, <1>n, <1>h DEF Post, Requests, RequestInv
  <2>2. /\ bk'[s].status = "none" /\ bk'[s].pool = bk[s].pool
        /\ \A t \in Snaps \ {s} : bk'[t] = bk[t]
    BY <1>2, <1>t DEF Post, Backups
  <2>3. RequestInv'
    BY <1>h, <2>1, <2>2 DEF RequestInv, Unheard
  <2>4. ASSUME NEW p \in Pools PROVE WorkInv(p)'
    <3>1. at[p] # "idle" => job[p].snap \in Snaps \ {s}
      BY <2>1, SMTT(30) DEF Unheard, NameInv
    <3>2. \A t \in Snaps : bk'[t].pool = bk[t].pool
      BY <2>2
    <3>3. ~up[p] => queue'[p] = {}
      BY <1>u, <2>1
    <3>4. \A t \in Snaps : \A k \in {"add", "sync"} : <<t, k>> \in queue'[p] => bk'[t].pool = p
      BY <1>q, <2>1, <3>2, Zenon
    <3> QED
      BY <1>h, <2>1, <2>2, <3>1, <3>3, <3>4, SameWorker, Zenon
  <2> QED
    BY <2>3, <2>4 DEF HoldInv
<1>3. ASSUME NEW s \in Snaps, GetBackup(s) \/ DeleteBackup(s) PROVE HoldInv'
  <2>1. /\ api'.op \in {"getWrite", "delete"} /\ api'.snap = s /\ UNCHANGED <<bk, manager>>
        /\ api'.op = "getWrite" => bk[s].status \in Active /\ ~up[bk[s].pool]
    BY <1>3, <1>n, Zenon DEF GetBackup, DeleteBackup, Requests, PoolManagerDown, ManagersTold
  <2> QED
    BY <1>h, <2>1, HeldAsBefore, Zenon DEF HoldInv, RequestInv, NameInv, Posting
<1>4. CASE \/ \E local \in BOOLEAN : CreateSnapshot(local)
           \/ \E p \in Pools : FindHealthyCVR(p)
           \/ GetOrCreateLastBackupSnap
  <2>1. /\ api.op \in Posting /\ UNCHANGED <<bk, manager>>
        /\ api'.op = "none" \/ (api'.op \in Posting /\ api'.snap = api.snap)
    BY <1>4, <1>n, <1>t, Zenon
    DEF CreateSnapshot, FindHealthyCVR, GetOrCreateLastBackupSnap, Requests, Posting
  <2> QED
    BY <1>h, <2>1, HeldAsBefore, Zenon DEF HoldInv, RequestInv, NameInv, Posting
<1>5. CASE CreateBackupResource
  <2> DEFINE s == api.snap
  <2>1. s \in Snaps /\ Unheard(s) /\ api.pool \in Pools /\ api'.op = "none" /\ UNCHANGED <<up, at, job>>
    BY <1>5, <1>h, <1>n, <1>t, Zenon
    DEF CreateBackupResource, Answer, NameInv, RequestInv, Posting, Requests
  <2>2. /\ bk'[s].status = "Pending" /\ bk'[s].pool = api.pool
        /\ \A t \in Snaps \ {s} : bk'[t] = bk[t]
    BY <1>5, <1>t, <2>1, Zenon DEF CreateBackupResource
  <2>3. /\ \A q \in Pools \ {api.pool} : queue'[q] = queue[q]
        /\ \/ queue'[api.pool] = queue[api.pool]
           \/ up[api.pool] /\ queue'[api.pool] = queue[api.pool] \cup {<<s, "add">>}
    BY <1>5, <1>t, <2>1, Zenon DEF CreateBackupResource
  <2> HIDE DEF s
  <2>4. RequestInv'
    <3>1. ASSUME NEW t \in Snaps, bk'[t].status = "new" PROVE Unheard(t)'
      <4>1. t # s /\ Unheard(t)
        BY <1>h, <2>2, <3>1 DEF RequestInv
      <4> QED
        BY <2>1, <2>3, <4>1 DEF Unheard
    <3> QED
      BY <2>1, <3>1 DEF RequestInv, Posting
  <2>5. ASSUME NEW p \in Pools PROVE WorkInv(p)'
    <3>1. at[p] # "idle" => job[p].snap \in Snaps \ {s}
      BY <2>1 DEF Unheard, NameInv
    <3>2. ~up[p] => queue'[p] = {}
      BY <1>u, <2>3
    <3>3. ASSUME NEW t \in Snaps, NEW k \in {"add", "sync"}, <<t, k>> \in queue'[p] PROVE bk'[t].pool = p
      <4>1. CASE <<t, k>> \in queue[p]
        <5>1. bk[t].pool = p
          BY <1>h, <4>1, Zenon DEF WorkInv
        <5>2. t # s
          BY <2>1, <4>1 DEF Unheard
        <5> QED
          BY <2>2, <5>1, <5>2
      <4>2. CASE <<t, k>> \notin queue[p]
        <5>1. p = api.pool /\ <<t, k>> = <<s, "add">>
          BY <2>3, <3>3, <4>2
        <5> QED
          BY <2>2, <5>1
      <4> QED
        BY <4>1, <4>2
    <3> QED
      BY <1>h, <2>1, <2>2, <3>1, <3>2, <3>3, SameWorker, Zenon
  <2> QED
    BY <2>4, <2>5 DEF HoldInv
<1>6. CASE UpdateBackupStatus
  <2> DEFINE s == api.snap
  <2>1. s \in Snaps /\ api'.op = "none" /\ UNCHANGED <<up, at>> /\ api.op = "getWrite"
    BY <1>6, <1>n DEF UpdateBackupStatus, Answer, NameInv
  <2>2. CASE UNCHANGED <<bk, queue, job>>
    BY <1>h, <2>1, <2>2, HeldAsBefore, Zenon DEF HoldInv, RequestInv, NameInv, Posting
  <2>3. ASSUME NEW status \in Finished, api.fresh, WriteStatus(s, status), StaleJob(s) PROVE HoldInv'
    <3>1. bk[s].status \in Active /\ ~up[bk[s].pool]
      BY <1>h, <2>1, <2>3, Zenon DEF RequestInv
    <3>2. /\ bk'[s].pool = bk[s].pool /\ bk'[s].status \in Finished
          /\ \A t \in Snaps \ {s} : bk'[t] = bk[t]
          /\ queue' = queue
      BY <1>t, <2>1, <2>3, <3>1, Zenon DEF WriteStatus, Backups
    <3>3. \A p \in Pools : job'[p].snap = job[p].snap /\ (job'[p].fresh => job[p].fresh)
      BY <1>t, <2>3 DEF StaleJob, Jobs
    <3>4. RequestInv'
      <4>1. \A t \in Snaps : Unheard(t) => Unheard(t)'
        BY <2>1, <3>2, <3>3, Zenon DEF Unheard
      <4>2. \A t \in Snaps : bk'[t].status = "new" => bk[t].status = "new"
        BY <3>2, Zenon DEF Finished
      <4> QED
        BY <1>h, <2>1, <4>1, <4>2, Zenon DEF RequestInv, Posting
    <3>5. ASSUME NEW p \in Pools PROVE WorkInv(p)'
      <4>1. at[p] # "idle" => job[p].snap \in Snaps \ {s}
        BY <1>h, <3>1, SMTT(30) DEF WorkInv, NameInv
      <4>2. ~up[p] => queue'[p] = {}
        BY <1>u, <3>2
      <4>3. \A t \in Snaps : \A k \in {"add", "sync"} : <<t, k>> \in queue'[p] => bk'[t].pool = p
        BY <1>q, <3>2, Zenon
      <4> QED
        BY <1>h, <2>1, <3>2, <3>3, <4>1, <4>2, <4>3, SameWorker, Zenon
    <3> QED
      BY <3>4, <3>5 DEF HoldInv
  <2> QED
    BY <1>6, <2>2, <2>3, GetWrites, Zenon
<1>7. CASE DeleteCompletedBackup \/ DeleteSnapshot
  <2>1. UNCHANGED <<bk, manager>> /\ api'.op \in {"unsnap", "unbackup"}
    BY <1>7, <1>t DEF DeleteCompletedBackup, DeleteSnapshot, Requests
  <2> QED
    BY <1>h, <2>1, HeldAsBefore, Zenon DEF HoldInv, RequestInv, NameInv, Posting
<1>8. CASE DeleteBackupResource
  <2> DEFINE s == api.snap
  <2>1. s \in Snaps /\ api'.op = "none" /\ UNCHANGED <<up, queue, at>>
    BY <1>8, <1>n DEF DeleteBackupResource, Answer, NameInv
  <2>2. /\ bk'[s].pool = bk[s].pool /\ bk'[s].status = "none"
        /\ \A t \in Snaps \ {s} : bk'[t] = bk[t]
    BY <1>8, <1>t, <2>1 DEF DeleteBackupResource, Backups
  <2>3. \A p \in Pools : job'[p].snap = job[p].snap /\ (job'[p].fresh => job[p].fresh /\ job[p].snap # s)
    BY <1>8, <1>t, Zenon DEF DeleteBackupResource, StaleJob, Jobs
  <2>4. RequestInv'
    <3>1. \A t \in Snaps : Unheard(t) => Unheard(t)'
      BY <2>1, <2>3, Zenon DEF Unheard
    <3>2. \A t \in Snaps : bk'[t].status = "new" => bk[t].status = "new"
      BY <2>2, Zenon
    <3> QED
      BY <1>h, <2>1, <3>1, <3>2, Zenon DEF RequestInv, Posting
  <2>5. ASSUME NEW p \in Pools PROVE WorkInv(p)'
    <3>1. at[p] # "idle" => job[p].snap \in Snaps
      BY DEF NameInv
    <3>2. ~up[p] => queue'[p] = {}
      BY <1>u, <2>1
    <3>3. \A t \in Snaps : \A k \in {"add", "sync"} : <<t, k>> \in queue'[p] => bk'[t].pool = p
      BY <1>q, <2>1, <2>2, Zenon
    <3> QED
      BY <1>h, <2>1, <2>2, <2>3, <3>1, <3>2, <3>3, SameWorker, Zenon
  <2> QED
    BY <2>4, <2>5 DEF HoldInv
<1> QED
  BY <1>1, <1>2, <1>3, <1>4, <1>5, <1>6, <1>7, <1>8 DEF Request, Serve

(* A worker that goes on with a backup, or is done, as long as it does not *)
(* write it.                                                               *)
LEMMA WorkerHold ==
  ASSUME TypeOK, NameInv, HoldInv, NEW p \in Pools, NEW s \in Snaps, bk[s].pool = p, up[p],
         UNCHANGED <<up, bk, api>>, ~Unheard(s), queue'[p] \subseteq queue[p],
         \A q \in Pools \ {p} : at'[q] = at[q] /\ job'[q] = job[q] /\ queue'[q] = queue[q],
         at'[p] # "idle" => job'[p].snap = s /\ bk[s].status \in Active \cup {"none"},
         at'[p] = "progress" => bk[s].status \in Active
  PROVE  HoldInv'
<1>1. WorkInv(p)'
  <2>1. ASSUME NEW t \in Snaps, NEW k \in {"add", "sync"}, <<t, k>> \in queue'[p] PROVE bk[t].pool = p
    <3>1. <<t, k>> \in queue[p] /\ WorkInv(p)
      BY <2>1 DEF HoldInv
    <3> QED
      BY <3>1, Zenon DEF WorkInv
  <2> QED
    BY <2>1, SMTT(30) DEF WorkInv
<1>2. ASSUME NEW q \in Pools \ {p} PROVE WorkInv(q)'
  BY OtherWorker, Zenon DEF HoldInv
<1>3. ASSUME NEW t \in Snaps, Unheard(t) PROVE Unheard(t)'
  <2>1. t # s
    BY <1>3, Zenon
  <2>2. \A q \in Pools : at'[q] # "idle" => job'[q].snap # t
    BY <1>3, <2>1 DEF Unheard
  <2>3. \A q \in Pools : queue'[q] \subseteq queue[q]
    BY Zenon
  <2>4. \A q \in Pools : \A k \in {"add", "sync"} : <<t, k>> \notin queue'[q]
    BY <1>3, <2>3, Zenon DEF Unheard
  <2> QED
    BY <2>2, <2>4, Zenon DEF Unheard
<1>4. RequestInv'
  <2>1. api.op \in Posting => Unheard(api.snap)'
    BY <1>3, SMTT(30) DEF HoldInv, RequestInv, NameInv, Posting
  <2> QED
    BY <1>3, <2>1, Zenon DEF HoldInv, RequestInv
<1> QED
  BY <1>1, <1>2, <1>4 DEF HoldInv

(* A worker that writes its backup: its pool is up, so that no GET is      *)
(* about to write it.                                                      *)
LEMMA WriteHold ==
  ASSUME TypeOK, NameInv, HoldInv, NEW p \in Pools, at[p] # "idle",
         NEW status \in Active \cup Finished \cup {"none"},
         WriteStatus(job[p].snap, status), StaleRequest(job[p].snap), UNCHANGED up,
         \A q \in Pools \ {p} : at'[q] = at[q] /\ job'[q] = job[q],
         at'[p] # "idle" => at'[p] # "progress" /\ job'[p].snap = job[p].snap /\ status \in Active
  PROVE  HoldInv'
<1> DEFINE s == job[p].snap
<1>1. s \in Snaps /\ bk[s].pool = p /\ up[p] /\ ~Unheard(s)
  BY Zenon DEF HoldInv, WorkInv, NameInv, Unheard
<1>2. /\ bk'[s].status = status /\ bk'[s].pool = p
      /\ \A t \in Snaps \ {s} : bk'[t] = bk[t]
  BY <1>1 DEF WriteStatus, TypeOK, Backups
<1>3. queue'[p] = queue[p] \cup {<<s, "sync">>} /\ \A q \in Pools \ {p} : queue'[q] = queue[q]
  BY <1>1 DEF WriteStatus, TypeOK
<1>4. api'.op = api.op /\ api'.snap = api.snap /\ (api'.fresh => api.fresh /\ api.snap # s)
  BY Zenon DEF StaleRequest, TypeOK, Requests
<1> HIDE DEF s
<1>5. WorkInv(p)'
  <2>1. ASSUME NEW t \in Snaps, NEW k \in {"add", "sync"}, <<t, k>> \in queue'[p] PROVE bk'[t].pool = p
    <3>1. CASE <<t, k>> \in queue[p]
      <4>1. WorkInv(p)
        BY Zenon DEF HoldInv
      <4>2. bk[t].pool = p
        BY <3>1, <4>1, Zenon DEF WorkInv
      <4> QED
        BY <1>2, <4>2, Zenon
    <3>2. CASE <<t, k>> = <<s, "sync">>
      BY <1>2, <3>2
    <3> QED
      BY <1>3, <2>1, <3>1, <3>2, Zenon
  <2> QED
    BY <1>1, <1>2, <2>1, Zenon DEF WorkInv, s
<1>6. ASSUME NEW q \in Pools \ {p} PROVE WorkInv(q)'
  <2>1. q \in Pools /\ q # p /\ WorkInv(q)
    BY Zenon DEF HoldInv
  <2>2. at'[q] = at[q] /\ job'[q] = job[q] /\ queue'[q] = queue[q] /\ up'[q] = up[q]
    BY <1>3, <1>6, Zenon
  <2>3. \A t \in Snaps : bk'[t] = bk[t] \/ (bk'[t].pool = bk[t].pool /\ bk[t].pool # q)
    BY <1>1, <1>2, <2>1, Zenon
  <2> QED
    BY <2>1, <2>2, <2>3, OtherWorker, Zenon
<1>7. ASSUME NEW t \in Snaps, t # s, Unheard(t) PROVE Unheard(t)'
  <2>1. \A q \in Pools : \A k \in {"add", "sync"} : <<t, k>> \notin queue'[q]
    <3>1. ASSUME NEW q \in Pools, NEW k \in {"add", "sync"}, <<t, k>> \in queue'[q] PROVE FALSE
      <4>1. <<t, k>> # <<s, "sync">>
        BY <1>7, Zenon
      <4>2. <<t, k>> \in queue[q]
        BY <1>3, <3>1, <4>1, Zenon
      <4> QED
        BY <1>7, <4>2 DEF Unheard
    <3> QED
      BY <3>1, SMTT(30)
  <2>2. \A q \in Pools : at'[q] # "idle" => job'[q].snap # t
    BY <1>7 DEF Unheard, s
  <2> QED
    BY <2>1, <2>2, Zenon DEF Unheard
<1>8. RequestInv'
  <2>1. api.op \in Posting => api.snap \in Snaps /\ api.snap # s
    BY <1>1, Zenon DEF HoldInv, RequestInv, NameInv, Posting
  <2>2. api.op \in Posting => bk'[api.snap].status = "none" /\ Unheard(api.snap)'
    BY <1>2, <1>4, <1>7, <2>1, Zenon DEF HoldInv, RequestInv
  <2>3. \A t \in Snaps : bk'[t].status = "new" => Unheard(t)'
    BY <1>1, <1>2, <1>7, Zenon DEF HoldInv, RequestInv, Active, Finished
  <2>4. api.op = "getWrite" /\ api'.fresh => bk'[api.snap].status \in Active /\ ~up'[bk'[api.snap].pool]
    BY <1>2, <1>4, Zenon DEF HoldInv, RequestInv, NameInv
  <2> QED
    BY <1>4, <2>2, <2>3, <2>4, Zenon DEF RequestInv
<1> QED
  BY <1>5, <1>6, <1>8, Zenon DEF HoldInv

(* The managers keep off each other's backups and off those of a GET. *)
LEMMA ManagerHold ==
  ASSUME ManagersTold, TypeOK, NameInv, HoldInv, NEW p \in Pools,
         Work(p) \/ ManagerCrashes(p) \/ Starts(p)
  PROVE  HoldInv'
<1>t. /\ bk \in [Snaps -> Backups] /\ queue \in [Pools -> SUBSET (Snaps \X {"add", "sync"})]
      /\ api \in Requests /\ job \in [Pools -> Jobs] /\ up \in [Pools -> BOOLEAN]
      /\ at \in [Pools -> {"idle", "progress", "send", "record", "write"}]
  BY DEF TypeOK
<1>h. RequestInv /\ \A q \in Pools : WorkInv(q)
  BY DEF HoldInv
<1>j. at[p] # "idle" => /\ job[p].snap \in Snaps /\ bk[job[p].snap].pool = p /\ up[p] /\ ~Unheard(job[p].snap)
                        /\ bk[job[p].snap].status \in Active \cup {"none"}
  BY <1>h, Zenon DEF WorkInv, NameInv, Unheard
<1> USE DEF manager
<1>1. CASE SyncHandler(p)
  <2>1. UNCHANGED <<up, bk, api>>
    BY <1>1, Zenon DEF SyncHandler
  <2>2. PICK item \in queue[p] :
          /\ queue' = [queue EXCEPT ![p] = @ \ {item}]
          /\ IF bk[item[1]].status \in Active /\ item[2] = "add"
             THEN GoTo(p, "write", item[1], AddStatus(bk[item[1]].status))
             ELSE IF bk[item[1]].status = "Init" THEN GoTo(p, "progress", item[1], "none") ELSE Idle(p)
    BY <1>1, Zenon DEF SyncHandler
  <2> DEFINE s == item[1]
  <2>3. s \in Snaps /\ item[2] \in {"add", "sync"} /\ <<s, item[2]>> \in queue[p]
    BY <1>t
  <2>4. bk[s].pool = p /\ ~Unheard(s) /\ up[p]
    <3>1. WorkInv(p)
      BY <1>h, Zenon
    <3>2. bk[s].pool = p /\ up[p]
      BY <2>3, <3>1, Zenon DEF WorkInv
    <3> QED
      BY <2>3, <3>2, Zenon DEF Unheard
  <2>5. queue'[p] \subseteq queue[p] /\ \A q \in Pools \ {p} : queue'[q] = queue[q]
    BY <1>t, <2>2
  <2>6. /\ \A q \in Pools \ {p} : at'[q] = at[q] /\ job'[q] = job[q]
        /\ at'[p] # "idle" => job'[p].snap = s /\ bk[s].status \in Active
    <3>1. CASE Idle(p)
      BY <3>1, GoType, Zenon
    <3>2. CASE bk[s].status \in Active /\ GoTo(p, "write", s, AddStatus(bk[s].status))
      <4>1. AddStatus(bk[s].status) \in Active \cup Finished \cup {"none"}
        BY DEF AddStatus, Active
      <4> QED
        BY <1>t, <3>2, Zenon DEF GoTo
    <3>3. CASE bk[s].status = "Init" /\ GoTo(p, "progress", s, "none")
      BY <1>t, <3>3, Zenon DEF GoTo, Active
    <3> QED
      BY <2>2, <3>1, <3>2, <3>3, Zenon
  <2> HIDE DEF s
  <2> QED
    BY <2>1, <2>3, <2>4, <2>5, <2>6, WorkerHold, ZenonT(60)
<1>2. ASSUME Idle(p), UNCHANGED <<up, bk, api, queue>>, at[p] # "idle" PROVE HoldInv'
  <2>1. at'[p] = "idle" /\ \A q \in Pools \ {p} : at'[q] = at[q] /\ job'[q] = job[q]
    BY <1>2, GoType, Zenon
  <2> QED
    BY <1>2, <1>j, <2>1, WorkerHold, Zenon
<1>3. CASE StartBackup(p)
  <2>1. UNCHANGED up /\ at[p] = "progress"
    BY <1>3, Zenon DEF StartBackup
  <2>2. CASE /\ WriteStatus(job[p].snap, "InProgress") /\ StaleRequest(job[p].snap)
             /\ GoTo(p, "send", job[p].snap, "none")
    <3>1. /\ at'[p] = "send" /\ job'[p].snap = job[p].snap
          /\ \A q \in Pools \ {p} : at'[q] = at[q] /\ job'[q] = job[q]
      BY <1>t, <2>2, Zenon DEF GoTo
    <3>2. "InProgress" \in Active
      BY DEF Active
    <3> QED
      BY <2>1, <2>2, <3>1, <3>2, WriteHold, Zenon
  <2>3. CASE LoseJob(p)
    BY <1>2, <2>1, <2>3, Zenon DEF LoseJob
  <2> QED
    BY <1>3, <2>2, <2>3, Zenon DEF StartBackup
<1>4. CASE CreateVolumeBackup(p) \/ UpdateCStorCompletedBackup(p)
  <2>1. UNCHANGED <<up, bk, api, queue>> /\ at[p] # "idle"
    BY <1>4, Zenon DEF CreateVolumeBackup, UpdateCStorCompletedBackup
  <2>2. \/ GoTo(p, "write", job[p].snap, "Failed") \/ GoTo(p, "record", job[p].snap, "none")
        \/ GoTo(p, "write", job[p].snap, "Done")
    BY <1>4, Zenon DEF CreateVolumeBackup, UpdateCStorCompletedBackup
  <2>3. /\ at'[p] \in {"write", "record"} /\ job'[p].snap = job[p].snap
        /\ \A q \in Pools \ {p} : at'[q] = at[q] /\ job'[q] = job[q]
    <3>1. CASE GoTo(p, "write", job[p].snap, "Failed")
      BY <1>t, <3>1, Zenon DEF GoTo
    <3>2. CASE GoTo(p, "record", job[p].snap, "none")
      BY <1>t, <3>2, Zenon DEF GoTo
    <3>3. CASE GoTo(p, "write", job[p].snap, "Done")
      BY <1>t, <3>3, Zenon DEF GoTo
    <3> QED
      BY <2>2, <3>1, <3>2, <3>3, Zenon
  <2> QED
    BY <1>j, <2>1, <2>3, WorkerHold, Zenon
<1>5. CASE WriteResult(p)
  <2>1. UNCHANGED up /\ at[p] = "write" /\ job[p].status \in Active \cup Finished \cup {"none"}
    BY <1>5, <1>t DEF WriteResult, Jobs
  <2>2. CASE WriteStatus(job[p].snap, job[p].status) /\ StaleRequest(job[p].snap) /\ Idle(p)
    <3>1. at'[p] = "idle" /\ \A q \in Pools \ {p} : at'[q] = at[q] /\ job'[q] = job[q]
      BY <2>2, GoType, Zenon
    <3> QED
      BY <2>1, <2>2, <3>1, WriteHold, Zenon
  <2>3. CASE Idle(p) /\ UNCHANGED <<bk, queue, api>>
    BY <1>2, <2>1, <2>3, SMTT(30)
  <2> QED
    BY <1>5, <2>2, <2>3, Zenon DEF WriteResult, LoseJob
<1>6. CASE ManagerCrashes(p)
  <2>1. /\ UNCHANGED <<bk, api>> /\ at'[p] = "idle" /\ queue'[p] = {} /\ ~up'[p]
        /\ \A q \in Pools \ {p} : at'[q] = at[q] /\ job'[q] = job[q] /\ queue'[q] = queue[q] /\ up'[q] = up[q]
    BY <1>6, <1>t, GoType, Zenon DEF ManagerCrashes
  <2>2. WorkInv(p)'
    BY <2>1, Zenon DEF WorkInv
  <2>3. ASSUME NEW q \in Pools \ {p} PROVE WorkInv(q)'
    BY <1>h, <2>1, OtherWorker, Zenon
  <2>4. \A t \in Snaps : Unheard(t) => Unheard(t)'
    BY <2>1, Zenon DEF Unheard
  <2>5. RequestInv'
    <3>1. api.op \in Posting => Unheard(api.snap)'
      BY <1>h, <2>1, <2>4, Zenon DEF RequestInv, NameInv, Posting
    <3>2. \A q \in Pools : up'[q] => up[q]
      BY <1>t, <2>1, Zenon
    <3>3. api.op = "getWrite" /\ api.fresh => bk[api.snap].pool \in Pools
      BY <1>t DEF NameInv, Backups
    <3> QED
      BY <1>h, <2>1, <2>4, <3>1, <3>2, <3>3, Zenon DEF RequestInv
  <2> QED
    BY <2>2, <2>3, <2>5 DEF HoldInv
<1>7. CASE Starts(p)
  <2>0. PICK fails \in BOOLEAN : CleanupOldBackup(p, fails)
    BY <1>7 DEF Starts
  <2>1. ~up[p] /\ at[p] = "idle" /\ UNCHANGED <<at, job>>
    <3>1. ~up[p] /\ UNCHANGED <<at, job>>
      BY <2>0, StartStep
    <3> QED
      BY <1>h, <3>1, Zenon DEF WorkInv
  <2>2. /\ up'[p] /\ queue'[p] = BackupsOf(p) \X {"add"}
        /\ \A q \in Pools \ {p} : queue'[q] = queue[q] /\ up'[q] = up[q]
    <3>1. up' = [up EXCEPT ![p] = TRUE] /\ queue' = [queue EXCEPT ![p] = BackupsOf(p) \X {"add"}]
      BY <2>0, StartStep
    <3> QED
      BY <1>t, <3>1
  <2>3. ASSUME NEW t \in Snaps
        PROVE  /\ bk'[t].pool = bk[t].pool
               /\ t \in BackupsOf(p) => bk'[t].status \in Finished
               /\ t \notin BackupsOf(p) => bk'[t] = bk[t]
    <3>1. bk'[t] = IF t \in BackupsOf(p) THEN [bk[t] EXCEPT !.status = CleanedStatus(t, version[p])] ELSE bk[t]
      BY <2>0, StartStep DEF Cleaned
    <3>2. CleanedStatus(t, version[p]) \in Finished
      BY DEF CleanedStatus, FindLastBackupStat, Finished
    <3> QED
      BY <1>t, <3>1, <3>2, StatusType
  <2>4. api'.op = api.op /\ api'.snap = api.snap /\ (api'.fresh => api.fresh /\ bk'[api.snap] = bk[api.snap])
    <3>1. api' = [api EXCEPT !.fresh = @ /\ bk'[api.snap] = bk[api.snap]]
      BY <2>0, StartStep
    <3> QED
      BY <1>t, <3>1, Zenon DEF Requests
  <2>5. WorkInv(p)'
    <3>1. ASSUME NEW t \in Snaps, NEW k \in {"add", "sync"}, <<t, k>> \in queue'[p] PROVE bk'[t].pool = p
      <4>1. t \in BackupsOf(p)
        BY <2>2, <3>1
      <4> QED
        BY <2>3, <4>1 DEF BackupsOf
    <3> QED
      BY <2>1, <2>2, <3>1, Zenon DEF WorkInv
  <2>6. ASSUME NEW q \in Pools \ {p} PROVE WorkInv(q)'
    <3>1. \A t \in Snaps : bk'[t] = bk[t] \/ (bk'[t].pool = bk[t].pool /\ bk[t].pool # q)
      BY <2>3, Zenon DEF BackupsOf
    <3> QED
      BY <1>h, <2>1, <2>2, <3>1, OtherWorker, Zenon
  <2>7. ASSUME NEW t \in Snaps \ BackupsOf(p), Unheard(t) PROVE Unheard(t)'
    <3>1. \A q \in Pools : \A k \in {"add", "sync"} : <<t, k>> \notin queue'[q]
      BY <2>2, <2>7, SMTT(30) DEF Unheard
    <3> QED
      BY <2>1, <2>7, <3>1, Zenon DEF Unheard
  <2>8. RequestInv'
    <3>1. ASSUME api.op \in Posting PROVE bk'[api.snap].status = "none" /\ Unheard(api.snap)'
      <4>1. api.snap \in Snaps /\ bk[api.snap].status = "none" /\ Unheard(api.snap)
        BY <1>h, <3>1, SMTT(30) DEF RequestInv, NameInv, Posting
      <4>2. api.snap \notin BackupsOf(p)
        BY <4>1 DEF BackupsOf, Exists, Active, Finished
      <4> QED
        BY <2>3, <2>4, <2>7, <4>1, <4>2, Zenon
    <3>2. ASSUME NEW t \in Snaps, bk'[t].status = "new" PROVE Unheard(t)'
      <4>1. t \notin BackupsOf(p) /\ bk[t].status = "new"
        BY <2>3, <3>2, Zenon DEF Finished
      <4> QED
        BY <1>h, <2>7, <4>1, Zenon DEF RequestInv
    <3>3. ASSUME api.op = "getWrite", api'.fresh
          PROVE  bk'[api.snap].status \in Active /\ ~up'[bk'[api.snap].pool]
      <4>1. api.snap \in Snaps /\ bk[api.snap].status \in Active /\ ~up[bk[api.snap].pool]
            /\ bk'[api.snap] = bk[api.snap]
        BY <1>h, <2>4, <3>3, Zenon DEF RequestInv, NameInv
      <4>2. api.snap \notin BackupsOf(p)
        BY <2>3, <4>1, Zenon DEF Active, Finished
      <4>3. bk[api.snap].pool \in Pools \ {p}
        BY <1>t, <4>1, <4>2, Zenon DEF BackupsOf, Exists, Backups
      <4> QED
        BY <2>2, <4>1, <4>3, Zenon
    <3> QED
      BY <2>4, <3>1, <3>2, <3>3, Zenon DEF RequestInv
  <2> QED
    BY <2>5, <2>6, <2>8 DEF HoldInv
<1> QED
  BY <1>1, <1>3, <1>4, <1>5, <1>6, <1>7 DEF Work

-----------------------------------------------------------------------------
(* A step beside a restore is a step of the backups, or leaves them alone. *)
LEMMA Projected == ASSUME TypeOK, [RestoreNext]_allVars PROVE Next \/ Beside
<1>e. UNCHANGED events => events' \in 0 .. MaxEvents
  BY DEF TypeOK
<1>1. CASE UNCHANGED allVars
  BY <1>e, <1>1 DEF allVars, vars, Beside, manager
<1>2. CASE PostRestore \/ BuildAndCreateRestore \/ GetRestoreStatus
  <2>1. UNCHANGED <<version, snaps, bk, rec, sent, manager, api, lost>> /\ (Event \/ NoEvent)
    BY <1>2, Zenon DEF PostRestore, BuildAndCreateRestore, GetRestoreStatus, Fault
  <2> QED
    BY <2>1, EventType DEF Beside
<1>3. ASSUME NEW p \in Pools, RestoreWork(p) PROVE Beside
  <2>1. CASE RestoreSyncHandler(p)
    BY <1>e, <2>1 DEF RestoreSyncHandler, vars, Beside, manager
  <2>2. CASE StartRestore(p) \/ CreateVolumeRestore(p) \/ WriteRestoreResult(p)
    <3>1. UNCHANGED <<version, snaps, bk, rec, sent, manager, api, lost>> /\ (Event \/ NoEvent)
      BY <2>2, Zenon DEF StartRestore, CreateVolumeRestore, WriteRestoreResult, Fault
    <3> QED
      BY <3>1, EventType DEF Beside
  <2> QED
    BY <1>3, <2>1, <2>2 DEF RestoreWork
<1>4. ASSUME NEW p \in Pools, ManagerStarts(p) PROVE Starts(p)
  BY <1>4, Zenon DEF ManagerStarts, Starts
<1>5. CASE \/ Request \/ Serve \/ CallFails
           \/ \E p \in Pools : Work(p) \/ ManagerCrashes(p) \/ Starts(p)
  BY <1>5 DEF Next
<1> QED
  BY <1>1, <1>2, <1>3, <1>4, <1>5, Zenon DEF RestoreNext

(* The types, and the names of the backups at work. *)
LEMMA TypeStep == ASSUME TypeOK, NameInv, [RestoreNext]_allVars PROVE TypeOK' /\ NameInv'
<1>1. CASE Next
  BY <1>1, ServeType, ManagerType DEF Next
<1>2. CASE Beside
  BY <1>2 DEF Beside, TypeOK, NameInv, manager
<1> QED
  BY <1>1, <1>2, Projected

(* Who may write a backup. *)
LEMMA HoldStep ==
  ASSUME ManagersTold, TypeOK, NameInv, HoldInv, [RestoreNext]_allVars PROVE HoldInv'
<1>1. CASE Next
  BY <1>1, ServeHold, ManagerHold DEF Next
<1>2. CASE Beside
  <2>1. UNCHANGED <<bk, up, at, job, queue, api>>
    BY <1>2, Zenon DEF Beside, manager
  <2> QED
    BY <2>1, HeldAsBefore, Zenon DEF HoldInv, RequestInv, NameInv, Posting
<1> QED
  BY <1>1, <1>2, Projected

(* Every pool has a restore of its own, which only its worker and, once    *)
(* the manager is down, a GET may write.                                   *)
LEMMA RestoreStep ==
  ASSUME ManagersTold, TypeOK, RestoreType, \A p \in Pools : RestoreInv(p), [RestoreNext]_allVars
  PROVE  RestoreType' /\ \A p \in Pools : RestoreInv(p)'
<1> DEFINE Statuses == Active \cup Finished \cup {"none"}
           Places == {"idle", "progress", "receive", "write"}
           Goal == RestoreType' /\ \A p \in Pools : RestoreInv(p)'
<1>s. /\ Active \subseteq Statuses /\ Finished \subseteq Statuses /\ "none" \in Statuses
      /\ {"Pending", "Init", "InProgress", "Invalid"} \subseteq Active /\ {"Done", "Failed"} \subseteq Finished
      /\ "none" \notin Active
  BY DEF Active, Finished
<1>t. /\ rst \in [Pools -> Statuses] /\ rqueue \in [Pools -> SUBSET {"add", "sync"}] /\ rat \in [Pools -> Places]
      /\ rjob \in [Pools -> Statuses] /\ up \in [Pools -> BOOLEAN]
  BY Zenon DEF TypeOK, RestoreType
<1> HIDE DEF Statuses, Places
<1> USE DEF manager
(* A worker and its restore change, and those of no other pool. *)
<1>w. ASSUME NEW p \in Pools, UNCHANGED up, up[p], NEW r \in Statuses, NEW step \in Places,
             NEW j \in Statuses, NEW Q \in SUBSET {"add", "sync"}, rst' = [rst EXCEPT ![p] = r],
             rat' = [rat EXCEPT ![p] = step], rjob' = [rjob EXCEPT ![p] = j],
             rqueue' = [rqueue EXCEPT ![p] = Q], step # "idle" => r \in Active
      PROVE  Goal
  <2>1. RestoreType'
    BY <1>t, <1>w, Zenon DEF RestoreType, Statuses, Places
  <2>2. RestoreInv(p)'
    BY <1>t, <1>w DEF RestoreInv
  <2>3. ASSUME NEW q \in Pools \ {p} PROVE RestoreInv(q)'
    BY <1>t, <1>w DEF RestoreInv
  <2> QED
    BY <2>1, <2>2, <2>3
<1>1. CASE UNCHANGED <<restore, up>>
  BY <1>1 DEF restore, RestoreType, RestoreInv
<1>2. ASSUME Request \/ Serve \/ CallFails PROVE UNCHANGED up
  BY <1>2, Zenon
  DEF Request, Serve, CallFails, Post, GetBackup, DeleteBackup, CreateSnapshot, FindHealthyCVR,
      GetOrCreateLastBackupSnap, CreateBackupResource, UpdateBackupStatus, DeleteCompletedBackup,
      DeleteSnapshot, DeleteBackupResource
<1>3. ASSUME NEW p \in Pools, Work(p) PROVE UNCHANGED up
  BY <1>3, Zenon
  DEF Work, SyncHandler, StartBackup, CreateVolumeBackup, UpdateCStorCompletedBackup, WriteResult
<1>4. CASE PostRestore
  BY <1>4, Zenon DEF PostRestore, RestoreType, RestoreInv
<1>5. CASE BuildAndCreateRestore
  <2>1. UNCHANGED <<up, rat, rjob>>
    BY <1>5 DEF BuildAndCreateRestore
  <2>2. CASE UNCHANGED <<rst, rqueue>>
    BY <2>1, <2>2 DEF RestoreType, RestoreInv
  <2>3. ASSUME NEW p \in Pools, rst[p] = "none", rst' = [rst EXCEPT ![p] = "Pending"],
               rqueue' = [rqueue EXCEPT ![p] = IF up[p] THEN @ \cup {"add"} ELSE @]
        PROVE  Goal
    <3>1. RestoreType'
      BY <1>s, <1>t, <2>1, <2>3, Zenon DEF RestoreType, Statuses, Places
    <3>2. ASSUME NEW q \in Pools PROVE RestoreInv(q)'
      BY <1>s, <1>t, <2>1, <2>3 DEF RestoreInv
    <3> QED
      BY <3>1, <3>2
  <2> QED
    BY <1>5, <2>2, <2>3, Zenon DEF BuildAndCreateRestore
<1>6. CASE GetRestoreStatus
  <2>1. UNCHANGED <<up, rat, rjob, rqueue>>
    BY <1>6, Zenon DEF GetRestoreStatus
  <2>2. /\ DOMAIN rst' = Pools
        /\ \A q \in Pools : rst'[q] = rst[q] \/ (~up[q] /\ rst'[q] = "Failed")
    BY <1>6, Zenon DEF GetRestoreStatus, SeenStatus, PoolManagerDown, ManagersTold
  <2>3. rst' \in [Pools -> Statuses]
    BY <1>6, <1>s, <1>t, <2>2 DEF GetRestoreStatus
  <2>4. ASSUME NEW q \in Pools PROVE RestoreInv(q)'
    BY <2>1, <2>2, Zenon DEF RestoreInv
  <2> QED
    BY <2>1, <2>3, <2>4 DEF RestoreType, Statuses
<1>7. ASSUME NEW p \in Pools, RestoreSyncHandler(p) PROVE Goal
  <2>1. UNCHANGED <<up, rst>>
    BY <1>7 DEF RestoreSyncHandler, vars
  <2>2. PICK op \in rqueue[p] :
          /\ rqueue' = [rqueue EXCEPT ![p] = @ \ {op}]
          /\ CASE rst[p] \in Finished -> RestoreIdle(p)
               [] Unfinished(p) /\ op = "add" -> RestoreGoTo(p, "write", AddStatus(rst[p]))
               [] op = "sync" /\ rst[p] = "Init" -> RestoreGoTo(p, "progress", "none")
               [] op = "sync" /\ rst[p] = "Pending" -> RestoreGoTo(p, "write", "Init")
               [] OTHER -> RestoreIdle(p)
    BY <1>7, Zenon DEF RestoreSyncHandler
  <2>3. up[p]
    BY <2>2 DEF RestoreInv
  <2>4. \/ RestoreIdle(p)
        \/ rst[p] \in Active /\ \E step \in Places, j \in Statuses : RestoreGoTo(p, step, j)
    <3>1. AddStatus(rst[p]) \in Statuses /\ {"write", "progress"} \subseteq Places
      BY <1>s, Zenon DEF AddStatus, Places
    <3> QED
      BY <1>s, <2>2, <3>1 DEF Unfinished
  <2>5. rst' = [rst EXCEPT ![p] = rst[p]] /\ rst[p] \in Statuses /\ rqueue[p] \ {op} \in SUBSET {"add", "sync"}
        /\ "idle" \in Places
    BY <1>t, <2>1 DEF Places
  <2> QED
    BY <1>s, <1>t, <1>w, <2>1, <2>2, <2>3, <2>4, <2>5, ZenonT(60) DEF RestoreIdle, RestoreGoTo
<1>8. ASSUME NEW p \in Pools, rat[p] # "idle", UNCHANGED up, RestoreIdle(p),
             UNCHANGED <<rst, rqueue>> \/ \E status \in Statuses : WriteRestore(p, status)
      PROVE  Goal
  <2>1. up[p] /\ "idle" \in Places
    BY <1>8, Zenon DEF RestoreInv, Places
  <2>2. CASE UNCHANGED <<rst, rqueue>>
    <3>1. rst' = [rst EXCEPT ![p] = rst[p]] /\ rqueue' = [rqueue EXCEPT ![p] = rqueue[p]]
          /\ rst[p] \in Statuses /\ rqueue[p] \in SUBSET {"add", "sync"}
      BY <1>t, <2>2
    <3> QED
      BY <1>8, <1>s, <1>w, <2>1, <3>1, Zenon DEF RestoreIdle
  <2>3. ASSUME NEW status \in Statuses, WriteRestore(p, status) PROVE Goal
    <3> DEFINE Q == IF status # rst[p] /\ status \in Active THEN rqueue[p] \cup {"sync"} ELSE rqueue[p]
    <3>1. rqueue' = [rqueue EXCEPT ![p] = Q] /\ Q \in SUBSET {"add", "sync"} /\ rst' = [rst EXCEPT ![p] = status]
      BY <1>t, <2>3 DEF WriteRestore
    <3> HIDE DEF Q
    <3> QED
      BY <1>8, <1>s, <1>w, <2>1, <3>1, Zenon DEF RestoreIdle
  <2> QED
    BY <1>8, <2>2, <2>3
<1>9. ASSUME NEW p \in Pools, StartRestore(p) PROVE Goal
  <2>1. UNCHANGED up /\ rat[p] = "progress"
    BY <1>9, Zenon DEF StartRestore
  <2>2. CASE LoseRestore(p)
    BY <1>8, <2>1, <2>2 DEF LoseRestore
  <2>3. CASE WriteRestore(p, "InProgress") /\ RestoreGoTo(p, "receive", "none")
    <3> DEFINE Q == IF "InProgress" # rst[p] THEN rqueue[p] \cup {"sync"} ELSE rqueue[p]
    <3>1. rqueue' = [rqueue EXCEPT ![p] = Q] /\ Q \in SUBSET {"add", "sync"} /\ rst' = [rst EXCEPT ![p] = "InProgress"]
      BY <1>s, <1>t, <2>3 DEF WriteRestore
    <3>2. up[p] /\ "receive" \in Places /\ "InProgress" \in Statuses
      BY <1>s, <2>1, Zenon DEF RestoreInv, Places
    <3> HIDE DEF Q
    <3> QED
      BY <1>s, <1>w, <2>1, <2>3, <3>1, <3>2, Zenon DEF RestoreGoTo
  <2> QED
    BY <1>9, <2>2, <2>3, Zenon DEF StartRestore
<1>10. ASSUME NEW p \in Pools, CreateVolumeRestore(p) PROVE Goal
  <2>1. /\ UNCHANGED <<up, rst, rqueue>> /\ rat[p] = "receive"
        /\ \E j \in {"Done", "Failed"} : RestoreGoTo(p, "write", j)
    BY <1>10 DEF CreateVolumeRestore
  <2>2. up[p] /\ "write" \in Places /\ {"Done", "Failed"} \subseteq Statuses /\ rst[p] \in Active
    BY <1>s, <2>1 DEF RestoreInv, Places
  <2>3. PICK j \in {"Done", "Failed"} : RestoreGoTo(p, "write", j)
    BY <2>1
  <2> DEFINE r == rst[p]
             Q == rqueue[p]
  <2>4. /\ rst' = [rst EXCEPT ![p] = r] /\ rqueue' = [rqueue EXCEPT ![p] = Q]
        /\ r \in Statuses /\ r \in Active /\ Q \in SUBSET {"add", "sync"}
    BY <1>t, <2>1, <2>2
  <2> HIDE DEF r, Q
  <2>5. j \in Statuses /\ rat' = [rat EXCEPT ![p] = "write"] /\ rjob' = [rjob EXCEPT ![p] = j]
    BY <2>2, <2>3 DEF RestoreGoTo
  <2> QED
    BY <1>w, <2>1, <2>2, <2>4, <2>5, Zenon
<1>11. ASSUME NEW p \in Pools, WriteRestoreResult(p) PROVE Goal
  <2>1. UNCHANGED up /\ rat[p] = "write" /\ rjob[p] \in Statuses
    BY <1>11, <1>t DEF WriteRestoreResult
  <2>2. RestoreIdle(p) /\ (UNCHANGED <<rst, rqueue>> \/ WriteRestore(p, rjob[p]))
    BY <1>11, Zenon DEF WriteRestoreResult, LoseRestore
  <2> QED
    BY <1>8, <2>1, <2>2, Zenon
<1>12. ASSUME NEW p \in Pools, ManagerCrashes(p), RestoreWorkerDies(p) PROVE Goal
  <2>1. \A q \in Pools \ {p} : up'[q] = up[q]
    BY <1>12, <1>t DEF ManagerCrashes
  <2>2. /\ UNCHANGED rst /\ rat' = [rat EXCEPT ![p] = "idle"] /\ rqueue' = [rqueue EXCEPT ![p] = {}]
        /\ rjob' = [rjob EXCEPT ![p] = "none"]
    BY <1>12 DEF RestoreWorkerDies, RestoreIdle
  <2>3. RestoreType'
    BY <1>s, <1>t, <2>2, Zenon DEF RestoreType, Statuses, Places
  <2>4. ASSUME NEW q \in Pools PROVE RestoreInv(q)'
    BY <1>t, <2>1, <2>2 DEF RestoreInv
  <2> QED
    BY <2>3, <2>4
<1>13. ASSUME NEW p \in Pools, ManagerStarts(p) PROVE Goal
  <2>0. PICK fails \in BOOLEAN : CleanupOldBackup(p, fails) /\ CleanupOldRestore(p, fails)
    BY <1>13 DEF ManagerStarts
  <2>1. ~up[p] /\ ~fails /\ up'[p] /\ \A q \in Pools \ {p} : up'[q] = up[q]
    <3>1. ~up[p] /\ ~fails /\ up' = [up EXCEPT ![p] = TRUE]
      BY <2>0, StartStep
    <3> QED
      BY <1>t, <3>1
  <2>2. UNCHANGED <<rat, rjob>> /\ rat[p] = "idle"
    BY <2>0, <2>1, Zenon DEF CleanupOldRestore, RestoreInv
  <2>3. /\ rst' = [rst EXCEPT ![p] = IF @ \in {"none", "Done"} THEN @ ELSE "Failed"]
        /\ rqueue' = [rqueue EXCEPT ![p] = IF rst[p] = "none" THEN {} ELSE {"add"}]
    BY <2>0, <2>1 DEF CleanupOldRestore
  <2>4. RestoreType'
    BY <1>s, <1>t, <2>2, <2>3, Zenon DEF RestoreType, Statuses, Places
  <2>5. ASSUME NEW q \in Pools PROVE RestoreInv(q)'
    BY <1>t, <2>1, <2>2, <2>3, SMTT(30) DEF RestoreInv
  <2> QED
    BY <2>4, <2>5
<1> QED
  BY <1>1, <1>2, <1>3, <1>4, <1>5, <1>6, <1>7, <1>9, <1>10, <1>11, <1>12, <1>13, Zenon
  DEF RestoreNext, RestoreWork, allVars, vars

(* What a restore has received: the data are there before its result is written. *)
LEMMA ReceivedStep ==
  ASSUME RestoreType, \A p \in Pools : ReceivedInv(p), [RestoreNext]_allVars
  PROVE  \A p \in Pools : ReceivedInv(p)'
<1> DEFINE Goal == \A p \in Pools : ReceivedInv(p)'
<1>t. DOMAIN rst = Pools /\ DOMAIN rat = Pools /\ DOMAIN rjob = Pools
  BY DEF RestoreType
(* A worker goes on without having received anything. *)
<1>w. ASSUME NEW p \in Pools, UNCHANGED <<rst, data>>, NEW step, NEW j,
             rat' = [rat EXCEPT ![p] = step], rjob' = [rjob EXCEPT ![p] = j], j # "Done"
      PROVE  Goal
  BY <1>t, <1>w, Zenon DEF ReceivedInv
(* A restore gets another status. *)
<1>r. ASSUME UNCHANGED <<data, rat, rjob>>, \A p \in Pools : rst'[p] # "Done" \/ rst'[p] = rst[p]
      PROVE  Goal
  BY <1>r, Zenon DEF ReceivedInv
<1>1. CASE UNCHANGED restore
  BY <1>1, Zenon DEF restore, ReceivedInv
<1>2. CASE PostRestore
  BY <1>2, Zenon DEF PostRestore, ReceivedInv
<1>3. CASE BuildAndCreateRestore
  BY <1>3, <1>r, <1>t, Zenon DEF BuildAndCreateRestore
<1>4. CASE GetRestoreStatus
  BY <1>4, <1>r, <1>t, Zenon DEF GetRestoreStatus, SeenStatus
<1>5. ASSUME NEW p \in Pools, RestoreSyncHandler(p) PROVE Goal
  <2>1. UNCHANGED <<rst, data>> /\ "none" # "Done" /\ "Init" # "Done" /\ AddStatus(rst[p]) # "Done"
    BY <1>5 DEF RestoreSyncHandler, AddStatus
  <2>2. \/ RestoreIdle(p) \/ RestoreGoTo(p, "write", AddStatus(rst[p]))
        \/ RestoreGoTo(p, "progress", "none") \/ RestoreGoTo(p, "write", "Init")
    BY <1>5 DEF RestoreSyncHandler
  <2> QED
    BY <1>w, <2>1, <2>2, Zenon DEF RestoreIdle, RestoreGoTo
<1>6. ASSUME NEW p \in Pools, StartRestore(p) PROVE Goal
  <2>1. (UNCHANGED data /\ rst'[p] # "Done") \/ UNCHANGED <<rst, data>>
    BY <1>6, <1>t, Zenon DEF StartRestore, WriteRestore, LoseRestore
  <2>2. RestoreGoTo(p, "receive", "none") \/ RestoreIdle(p)
    BY <1>6, Zenon DEF StartRestore, LoseRestore
  <2>3. UNCHANGED data /\ \A q \in Pools \ {p} : rst'[q] = rst[q] /\ rat'[q] = rat[q] /\ rjob'[q] = rjob[q]
    BY <1>6, <1>t, <2>2, SMTT(30) DEF StartRestore, WriteRestore, LoseRestore, RestoreGoTo, RestoreIdle
  <2>4. rjob'[p] # "Done"
    BY <1>t, <2>2 DEF RestoreGoTo, RestoreIdle
  <2> QED
    BY <2>1, <2>3, <2>4 DEF ReceivedInv
<1>7. ASSUME NEW p \in Pools, CreateVolumeRestore(p) PROVE Goal
  <2>1. CASE data' = data \cup {p} /\ RestoreGoTo(p, "write", "Done") /\ UNCHANGED rst
    BY <1>t, <2>1, Zenon DEF ReceivedInv, RestoreGoTo
  <2>2. CASE UNCHANGED <<rst, data>> /\ RestoreGoTo(p, "write", "Failed")
    BY <1>w, <2>2, Zenon DEF RestoreGoTo
  <2> QED
    BY <1>7, <2>1, <2>2 DEF CreateVolumeRestore
<1>8. ASSUME NEW p \in Pools, WriteRestoreResult(p) PROVE Goal
  <2>1. RestoreIdle(p) /\ rat[p] = "write" /\ UNCHANGED data
    BY <1>8, Zenon DEF WriteRestoreResult, LoseRestore
  <2>2. UNCHANGED rst \/ rst' = [rst EXCEPT ![p] = rjob[p]]
    BY <1>8, Zenon DEF WriteRestoreResult, LoseRestore, WriteRestore
  <2> QED
    BY <1>t, <2>1, <2>2 DEF RestoreIdle, ReceivedInv
<1>9. ASSUME NEW p \in Pools, RestoreWorkerDies(p) PROVE Goal
  BY <1>9, <1>w, Zenon DEF RestoreWorkerDies, RestoreIdle
<1>10. ASSUME NEW p \in Pools, NEW fails \in BOOLEAN, CleanupOldRestore(p, fails) PROVE Goal
  <2>1. UNCHANGED <<data, rat, rjob>> /\ \E r \in {rst[p], "Failed"} : rst' = [rst EXCEPT ![p] = r]
    BY <1>10, Zenon DEF CleanupOldRestore
  <2> QED
    BY <1>r, <1>t, <2>1
<1> QED
  BY <1>1, <1>2, <1>3, <1>4, <1>5, <1>6, <1>7, <1>8, <1>9, <1>10
  DEF RestoreNext, RestoreWork, ManagerStarts, allVars

-----------------------------------------------------------------------------
(* What has been sent stays sent. *)
LEMMA SentStays ==
  ASSUME TypeOK, NameInv, Next PROVE \A s \in Snaps : sent[s] # "no" => sent'[s] # "no"
<1>1. CASE UNCHANGED sent
  BY <1>1
<1>2. ASSUME NEW p \in Pools, CreateVolumeBackup(p)
      PROVE  \A s \in Snaps : sent[s] # "no" => sent'[s] # "no"
  <2> DEFINE s == job[p].snap
  <2>1. s \in Snaps /\ bk[s].prev \in Snaps \cup {Full}
    BY <1>2, Zenon DEF CreateVolumeBackup, NameInv, TypeOK, Backups
  <2>2. bk[s].prev # "no"
    BY <2>1, BackupAssumption, Zenon
  <2>3. UNCHANGED sent \/ sent' = [sent EXCEPT ![s] = bk[s].prev]
    BY <1>2, Zenon DEF CreateVolumeBackup
  <2> HIDE DEF s
  <2> QED
    BY <2>1, <2>2, <2>3 DEF TypeOK
<1>3. CASE Request \/ Serve \/ CallFails
  BY <1>1, <1>3, Zenon
  DEF Request, Serve, CallFails, Post, GetBackup, DeleteBackup, CreateSnapshot, FindHealthyCVR,
      GetOrCreateLastBackupSnap, CreateBackupResource, UpdateBackupStatus, DeleteCompletedBackup,
      DeleteSnapshot, DeleteBackupResource
<1>4. ASSUME NEW p \in Pools, Work(p) \/ ManagerCrashes(p) \/ Starts(p), ~CreateVolumeBackup(p)
      PROVE  UNCHANGED sent
  BY <1>4
  DEF Work, SyncHandler, StartBackup, UpdateCStorCompletedBackup, WriteResult, ManagerCrashes, Starts, CleanupOldBackup
<1> QED
  BY <1>1, <1>2, <1>3, <1>4 DEF Next

(* The record of the schedule is that of the version of the pools; a last *)
(* snapshot of another is none.                                           *)
LEMMA RecordStep ==
  ASSUME TypeOK, NameInv, RecordInv, SendInv, Next PROVE RecordInv'
<1>s. \A s \in Snaps : sent[s] # "no" => sent'[s] # "no"
  BY SentStays, Zenon
<1>v. UNCHANGED version
  BY Zenon
  DEF Next, Request, Serve, CallFails, Post, GetBackup, DeleteBackup, CreateSnapshot, FindHealthyCVR,
         GetOrCreateLastBackupSnap, CreateBackupResource, UpdateBackupStatus, DeleteCompletedBackup,
         DeleteSnapshot, DeleteBackupResource, Work, SyncHandler, StartBackup, CreateVolumeBackup,
         UpdateCStorCompletedBackup, WriteResult, ManagerCrashes, Starts, CleanupOldBackup
<1>t. rec \in [APIs -> Records] /\ bk \in [Snaps -> Backups] /\ version \in [Pools -> APIs] /\ api \in Requests
  BY DEF TypeOK
(* One record changes, that of the version of a pool. *)
<1>w. ASSUME NEW p \in Pools, NEW r, rec' = [rec EXCEPT ![version[p]] = r], UNCHANGED snaps,
             r.last # Full => r.last \in snaps,
             \A s \in Snaps : s \in {r.last, r.second} => sent'[s] # "no"
      PROVE  RecordInv'
  <2>1. rec'[version[p]] = r /\ \A v \in APIs \ {version[p]} : rec'[v] = rec[v]
    BY <1>t, <1>w, Zenon
  <2>2. LastSnapHeld'
    BY <1>w, <2>1, SMTT(30) DEF RecordInv, LastSnapHeld
  <2>3. \A v \in APIs : \A s \in Snaps : s \in {rec'[v].last, rec'[v].second} => sent'[s] # "no"
    BY <1>s, <1>w, <2>1, Zenon DEF RecordInv
  <2>4. \A v \in APIs, q \in Pools : v # version'[q] => rec'[v] = NoRecord
    BY <1>v, <2>1, Zenon DEF RecordInv
  <2> QED
    BY <1>v, <2>2, <2>3, <2>4, Zenon DEF RecordInv
<1>1. CASE UNCHANGED rec /\ snaps \subseteq snaps'
  BY <1>1, <1>s, <1>v, Zenon DEF RecordInv, LastSnapHeld
<1>2. CASE GetOrCreateLastBackupSnap
  <2> DEFINE v == version[api.pool]
             r == [rec[v] EXCEPT !.exists = TRUE]
  <2>1. api.pool \in Pools /\ v \in APIs /\ UNCHANGED <<snaps, sent>>
    BY <1>2, <1>t DEF GetOrCreateLastBackupSnap, Requests
  <2>2. CASE UNCHANGED rec
    BY <1>1, <2>1, <2>2
  <2>3. CASE rec' = [rec EXCEPT ![v].exists = TRUE]
    <3>1. rec' = [rec EXCEPT ![v] = r] /\ r.last = rec[v].last /\ r.second = rec[v].second
      BY <1>t, <2>1, <2>3 DEF Records
    <3>2. r.last # Full => r.last \in snaps
      BY <2>1, <3>1 DEF RecordInv, LastSnapHeld
    <3>3. \A s \in Snaps : s \in {r.last, r.second} => sent'[s] # "no"
      BY <2>1, <3>1, <1>s DEF RecordInv
    <3> HIDE DEF r
    <3> QED
      BY <1>w, <2>1, <3>1, <3>2, <3>3, Zenon
  <2> QED
    BY <1>2, <2>2, <2>3 DEF GetOrCreateLastBackupSnap
<1>3. CASE DeleteCompletedBackup
  <2> DEFINE p == bk[api.snap].pool
             r == WithoutBackup(version[p], api.snap)
  <2>1. api.snap \in Snaps /\ p \in Pools /\ version[p] \in APIs /\ UNCHANGED <<snaps, sent>>
    BY <1>3, <1>t DEF DeleteCompletedBackup, NameInv, Backups
  <2>2. rec' = [rec EXCEPT ![version[p]] = r]
    BY <1>3 DEF DeleteCompletedBackup
  <2>3. r = NoRecord \/ r = rec[version[p]]
    BY Zenon DEF WithoutBackup
  <2>4. Full \notin Snaps /\ NoRecord.last = Full /\ NoRecord.second = Full
    BY BackupAssumption, NoneType, Zenon
  <2>5. r.last # Full => r.last \in snaps
    BY <2>1, <2>3, <2>4, Zenon DEF RecordInv, LastSnapHeld
  <2>6. \A s \in Snaps : s \in {r.last, r.second} => sent'[s] # "no"
    <3>1. \A s \in Snaps : s \in {rec[version[p]].last, rec[version[p]].second} => sent[s] # "no"
      BY <2>1, Zenon DEF RecordInv
    <3> QED
      BY <1>s, <2>3, <2>4, <3>1, Zenon
  <2> HIDE DEF p, r
  <2> QED
    BY <1>w, <2>1, <2>2, <2>5, <2>6, Zenon
<1>4. CASE DeleteSnapshot
  <2>1. /\ api.op = "unsnap" /\ snaps' = snaps \ {api.snap} /\ UNCHANGED rec
    BY <1>4 DEF DeleteSnapshot
  <2>2. \A v \in APIs : rec[v].last # api.snap
    BY <2>1, Zenon DEF SendInv, RequestSends
  <2> QED
    BY <1>s, <1>v, <2>1, <2>2, Zenon DEF RecordInv, LastSnapHeld
<1>5. ASSUME NEW p \in Pools, UpdateCStorCompletedBackup(p) PROVE RecordInv'
  <2> DEFINE s == job[p].snap
             v == version[p]
             r == Recorded(v, s)
  <2>1. v \in APIs /\ at[p] = "record" /\ s \in Snaps /\ UNCHANGED <<snaps, sent>>
    BY <1>5, <1>t, Zenon DEF UpdateCStorCompletedBackup, NameInv
  <2>2. RecordOf(v) = v
    BY <2>1, SMTT(30) DEF RecordInv, RecordOf, NoRecord, APIs
  <2>3. CASE UNCHANGED rec
    BY <1>1, <2>1, <2>3, Zenon
  <2>5. CASE v # "v1" /\ rec' = [rec EXCEPT !["v1"] = Recorded("v1", s)]
    <3>1. rec["v1"] = NoRecord /\ "v1" \in APIs
      BY <2>5, Zenon DEF RecordInv, APIs
    <3>2. Recorded("v1", s) = rec["v1"]
      BY <3>1 DEF Recorded, NoRecord
    <3> QED
      BY <1>t, <2>3, <2>5, <3>1, <3>2
  <2>4. CASE rec' = [rec EXCEPT ![v] = r]
    <3>1. s \in snaps /\ sent[s] # "no"
      BY <2>1, Zenon DEF SendInv, WorkerSends, Based
    <3>2. r = rec[v] \/ (r.last = s /\ r.second = rec[v].last)
      BY <1>t, <2>1 DEF Recorded, Records
    <3>3. r.last # Full => r.last \in snaps
      BY <2>1, <3>1, <3>2, Zenon DEF RecordInv, LastSnapHeld
    <3>4. \A t \in Snaps : t \in {r.last, r.second} => sent'[t] # "no"
      BY <1>s, <2>1, <3>1, <3>2, Zenon DEF RecordInv
    <3> HIDE DEF r
    <3> QED
      BY <1>w, <2>1, <2>4, <3>3, <3>4, Zenon
  <2> QED
    BY <1>5, <2>2, <2>3, <2>4, <2>5, Zenon DEF UpdateCStorCompletedBackup
<1>6. CASE Request \/ Serve \/ CallFails
  BY <1>1, <1>2, <1>3, <1>4, <1>6, Zenon
  DEF Request, Serve, CallFails, Post, GetBackup, DeleteBackup, CreateSnapshot, FindHealthyCVR,
      CreateBackupResource, UpdateBackupStatus, DeleteBackupResource
<1>7. ASSUME NEW p \in Pools, Work(p) \/ ManagerCrashes(p) \/ Starts(p), ~UpdateCStorCompletedBackup(p)
      PROVE  UNCHANGED <<rec, snaps>>
  BY <1>7, SMTT(30)
  DEF Work, SyncHandler, StartBackup, CreateVolumeBackup, WriteResult, ManagerCrashes, Starts, CleanupOldBackup
<1> QED
  BY <1>1, <1>5, <1>6, <1>7 DEF Next

(* What is sent is sent from a base the destination has. *)
LEMMA ServeSends ==
  ASSUME ManagersTold, SentAsSaid, TypeOK, NameInv, HoldInv, RecordInv, SendInv,
         Request \/ Serve \/ CallFails
  PROVE  SendInv'
<1>t. /\ bk \in [Snaps -> Backups] /\ api \in Requests /\ rec \in [APIs -> Records]
      /\ job \in [Pools -> Jobs] /\ version \in [Pools -> APIs]
  BY DEF TypeOK
<1>i. (\A p \in Pools : WorkerSends(p)) /\ RequestSends /\ DoneIsSent
  BY DEF SendInv
<1>n. /\ NoRequest.op = "none" /\ "none" \notin Deleting /\ "post" \notin Deleting
      /\ "getWrite" \notin Deleting /\ {"replica", "last", "create"} \cap Deleting = {}
      /\ "none" \notin Active /\ "new" \notin Active /\ "Done" \notin Active /\ "Failed" \notin Active
  BY NoneType DEF Deleting, Active
<1> USE DEF manager
(* Nothing changes but the request and the snapshots, which only grow. *)
<1>f. ASSUME UNCHANGED <<bk, sent, at, job>>, snaps \subseteq snaps', RequestSends'
      PROVE  SendInv'
  BY <1>f, Zenon DEF SendInv, WorkerSends, Based, DoneIsSent
(* A backup that no worker holds is written. *)
<1>b. ASSUME NEW s \in Snaps, UNCHANGED <<sent, at, snaps>>, \A t \in Snaps \ {s} : bk'[t] = bk[t],
             \A q \in Pools : at[q] # "idle" => job[q].snap # s,
             \A q \in Pools : at[q] # "idle" => job'[q].snap = job[q].snap /\ job'[q].status = job[q].status,
             bk'[s].status \in Active => Based(s, bk'[s].prev), bk'[s].status = "Done" => sent[s] # "no",
             api' = NoRequest \/ api'.op = "post"
      PROVE  SendInv'
  <2>1. RequestSends'
    BY <1>b, <1>n, Zenon DEF RequestSends
  <2>2. ASSUME NEW q \in Pools PROVE WorkerSends(q)'
    <3>1. at[q] # "idle" => job[q].snap \in Snaps
      BY Zenon DEF NameInv
    <3> QED
      BY <1>b, <1>i, <3>1, ZenonT(60) DEF WorkerSends
  <2>3. ASSUME NEW t \in Snaps, bk'[t].status \in Active PROVE Based(t, bk[t].prev)'
    BY <1>b, <2>3, Zenon DEF SendInv, Based
  <2>4. DoneIsSent'
    BY <1>b, <1>i, Zenon DEF DoneIsSent
  <2> QED
    BY <2>1, <2>2, <2>3, <2>4, Zenon DEF SendInv
<1>1. ASSUME NEW s \in Snaps, Post(s) PROVE SendInv'
  <2>1. /\ bk[s].status = "new" /\ UNCHANGED <<sent, at, snaps, job>>
        /\ bk' = [bk EXCEPT ![s].status = "none"] /\ api' = [NoRequest EXCEPT !.op = "post", !.snap = s]
    BY <1>1 DEF Post
  <2>2. bk'[s].status = "none" /\ \A t \in Snaps \ {s} : bk'[t] = bk[t]
    BY <1>t, <2>1 DEF Backups
  <2>3. api'.op = "post"
    BY <2>1, NoneType DEF Requests
  <2>4. \A q \in Pools : at[q] # "idle" => job[q].snap # s
    BY <1>i, <1>n, <2>1 DEF WorkerSends
  <2> QED
    BY <1>b, <1>n, <2>1, <2>2, <2>3, <2>4
<1>2. ASSUME NEW s \in Snaps, GetBackup(s) PROVE SendInv'
  <2>1. api'.op = "getWrite" /\ UNCHANGED <<bk, sent, at, job, snaps>>
    BY <1>2, NoneType DEF GetBackup, Requests
  <2> QED
    BY <1>f, <1>n, <2>1, Zenon DEF RequestSends
<1>3. ASSUME NEW s \in Snaps, DeleteBackup(s) PROVE SendInv'
  <2>1. api'.op = "delete" /\ UNCHANGED <<bk, sent, at, job, snaps>>
    BY <1>3, NoneType DEF DeleteBackup, Requests
  <2>2. \A t \in Snaps : bk[t].status \notin Active
    BY <1>3 DEF DeleteBackup, SentAsSaid
  <2> QED
    BY <1>f, <1>n, <2>1, <2>2, Zenon DEF RequestSends
<1>4. ASSUME NEW local \in BOOLEAN, CreateSnapshot(local) PROVE SendInv'
  <2>1. snaps' = snaps \cup {api.snap} /\ UNCHANGED <<bk, sent, at, job>>
        /\ api' = IF local THEN NoRequest ELSE [api EXCEPT !.op = "replica"]
    BY <1>4 DEF CreateSnapshot
  <2>2. api'.op = "none" \/ (api'.op = "replica" /\ api'.snap = api.snap)
    BY <1>n, <1>t, <2>1 DEF Requests
  <2> QED
    BY <1>f, <1>n, <2>1, <2>2 DEF RequestSends
<1>5. ASSUME NEW p \in Pools, FindHealthyCVR(p) PROVE SendInv'
  <2>1. UNCHANGED <<bk, sent, at, job, snaps>> /\ api' = [api EXCEPT !.op = "last", !.pool = p] /\ api.op = "replica"
    BY <1>5 DEF FindHealthyCVR
  <2>2. api'.op = "last" /\ api'.snap = api.snap
    BY <1>t, <2>1 DEF Requests
  <2> QED
    BY <1>f, <1>i, <1>n, <2>1, <2>2 DEF RequestSends
<1>6. CASE GetOrCreateLastBackupSnap
  <2> DEFINE v == version[api.pool]
  <2>1. UNCHANGED <<bk, sent, at, job, snaps>> /\ api.op = "last"
        /\ api' = [api EXCEPT !.op = "create", !.prev = LastSnap(v)]
    BY <1>6 DEF GetOrCreateLastBackupSnap
  <2>2. api'.op = "create" /\ api'.snap = api.snap /\ api'.prev = LastSnap(v)
    BY <1>t, <2>1 DEF Requests
  <2>3. PICK o \in APIs : LastSnap(v) = rec[o].last
    <3>1. v \in APIs /\ (CHOOSE o \in APIs \ {v} : TRUE) \in APIs
      BY <1>t DEF Requests, APIs
    <3> QED
      BY <3>1, Zenon DEF LastSnap
  <2>4. Based(api.snap, LastSnap(v))
    BY <1>i, <2>1, <2>3 DEF RequestSends, RecordInv, LastSnapHeld, Based
  <2>5. Based(api.snap, api.prev)'
    BY <2>1, <2>2, <2>4 DEF Based
  <2>6. RequestSends'
    BY <1>i, <1>n, <2>1, <2>2, <2>5 DEF RequestSends
  <2> QED
    BY <1>f, <2>1, <2>6
<1>7. CASE CreateBackupResource
  <2> DEFINE s == api.snap
  <2>1. /\ api.op = "create" /\ UNCHANGED <<sent, at, snaps, job>> /\ api' = NoRequest
        /\ bk' = [bk EXCEPT ![s] = [status |-> "Pending", pool |-> api.pool, prev |-> api.prev]]
    BY <1>7, Zenon DEF CreateBackupResource, Answer
  <2>2. s \in Snaps /\ Unheard(s) /\ Based(s, api.prev)
    BY <1>i, <2>1, Zenon DEF NameInv, HoldInv, RequestInv, Posting, RequestSends
  <2>3. bk'[s].status = "Pending" /\ bk'[s].prev = api.prev /\ \A t \in Snaps \ {s} : bk'[t] = bk[t]
    BY <1>t, <2>1, <2>2, Zenon
  <2>4. \A q \in Pools : at[q] # "idle" => job[q].snap # s
    BY <2>2, Zenon DEF Unheard
  <2> HIDE DEF s
  <2> QED
    BY <1>b, <2>1, <2>2, <2>3, <2>4, Zenon
<1>8. CASE UpdateBackupStatus
  <2>1. CASE UNCHANGED <<bk, job>>
    <3>1. UNCHANGED <<bk, sent, at, job, snaps>> /\ api' = NoRequest
      BY <1>8, <2>1, Zenon DEF UpdateBackupStatus, Answer
    <3> QED
      BY <1>f, <1>n, <3>1, Zenon DEF RequestSends
  <2>2. ASSUME api.fresh, StaleJob(api.snap), NEW status \in Finished, WriteStatus(api.snap, status),
               status = "Done" => FindLastBackupStat(api.snap, version[bk[api.snap].pool]) = "Done"
        PROVE  SendInv'
    <3> DEFINE s == api.snap
               v == version[bk[s].pool]
    <3>1. api.op = "getWrite" /\ UNCHANGED <<sent, at, snaps>> /\ api' = NoRequest
      BY <1>8, Zenon DEF UpdateBackupStatus, Answer
    <3>2. s \in Snaps /\ ~up[bk[s].pool] /\ bk[s].pool \in Pools /\ v \in APIs
      BY <1>t, <2>2, <3>1, Zenon DEF NameInv, HoldInv, RequestInv, Backups
    <3>3. bk'[s].status = status /\ \A t \in Snaps \ {s} : bk'[t] = bk[t]
      BY <1>t, <2>2, <3>2 DEF WriteStatus, Backups
    <3>4. \A q \in Pools : at[q] # "idle" => job[q].snap # s
      <4>1. \A q \in Pools : at[q] # "idle" => up[q] /\ bk[job[q].snap].pool = q
        BY Zenon DEF HoldInv, WorkInv
      <4> QED
        BY <3>2, <4>1
    <3>5. \A q \in Pools : job'[q].snap = job[q].snap /\ job'[q].status = job[q].status
      BY <1>t, <2>2 DEF StaleJob, Jobs
    <3>6. status \notin Active /\ (status = "Done" => sent[s] # "no")
      <4>1. status \notin Active
        BY DEF Active, Finished
      <4> QED
        BY <2>2, <3>2, <4>1, Zenon DEF FindLastBackupStat, RecordInv
    <3> HIDE DEF s
    <3> QED
      BY <1>b, <3>1, <3>2, <3>3, <3>4, <3>5, <3>6, Zenon
  <2> QED
    BY <1>8, <2>1, <2>2, GetWrites, Zenon
<1>9. CASE DeleteCompletedBackup
  <2> DEFINE s == api.snap
             v == version[bk[s].pool]
  <2>1. /\ UNCHANGED <<bk, sent, at, job, snaps>> /\ api.op = "delete"
        /\ rec' = [rec EXCEPT ![v] = WithoutBackup(v, s)] /\ api' = [api EXCEPT !.op = "unsnap"]
    BY <1>9 DEF DeleteCompletedBackup
  <2>2. api'.op = "unsnap" /\ api'.snap = s
    BY <1>t, <2>1 DEF Requests
  <2>3. s \in Snaps /\ bk[s].pool \in Pools /\ v \in APIs /\ s # Full
    BY <1>t, <2>1, BackupAssumption DEF NameInv, Backups
  <2>4. rec'[v] = WithoutBackup(v, s) /\ \A o \in APIs \ {v} : rec'[o] = NoRecord
    BY <1>t, <2>1, <2>3 DEF RecordInv
  <2>5. \A o \in APIs : rec'[o].last # s
    BY <2>3, <2>4, NoneType, Zenon DEF WithoutBackup
  <2>6. \A t \in Snaps : bk[t].status \notin Active
    BY <1>i, <2>1 DEF RequestSends, Deleting
  <2> HIDE DEF s
  <2>7. RequestSends'
    BY <1>n, <2>1, <2>2, <2>5, <2>6 DEF RequestSends
  <2> QED
    BY <1>f, <2>1, <2>7
<1>10. CASE DeleteSnapshot
  <2>1. UNCHANGED <<bk, sent, at, job>> /\ api.op = "unsnap" /\ api' = [api EXCEPT !.op = "unbackup"]
    BY <1>10 DEF DeleteSnapshot
  <2>2. api'.op = "unbackup"
    BY <1>t, <2>1 DEF Requests
  <2>3. \A t \in Snaps : bk[t].status \notin Active
    BY <1>i, <2>1 DEF RequestSends, Deleting
  <2>4. RequestSends'
    BY <2>1, <2>2, <2>3 DEF RequestSends
  <2> QED
    BY <2>1, <2>3, <2>4 DEF SendInv, WorkerSends, DoneIsSent
<1>11. CASE DeleteBackupResource
  <2> DEFINE s == api.snap
  <2>1. /\ UNCHANGED <<sent, at, snaps>> /\ api.op = "unbackup" /\ api' = NoRequest /\ StaleJob(s)
        /\ bk' = [bk EXCEPT ![s].status = "none"]
    BY <1>11 DEF DeleteBackupResource, Answer
  <2>2. s \in Snaps /\ \A t \in Snaps : bk[t].status \notin Active
    BY <1>i, <2>1 DEF RequestSends, Deleting, NameInv
  <2>3. bk'[s].status = "none" /\ \A t \in Snaps \ {s} : bk'[t] = bk[t]
    BY <1>t, <2>1, <2>2 DEF Backups
  <2>4. \A q \in Pools : at[q] # "idle" => job[q].snap # s
    BY <1>i, <2>2, Zenon DEF WorkerSends
  <2>5. \A q \in Pools : job'[q].snap = job[q].snap /\ job'[q].status = job[q].status
    BY <1>t, <2>1 DEF StaleJob, Jobs
  <2> HIDE DEF s
  <2> QED
    BY <1>b, <1>n, <2>1, <2>2, <2>3, <2>4, <2>5
<1>12. CASE CallFails
  <2>1. UNCHANGED <<bk, sent, at, job, snaps>> /\ api' = NoRequest
    BY <1>12 DEF CallFails, Answer
  <2> QED
    BY <1>f, <1>n, <2>1 DEF RequestSends
<1> QED
  BY <1>1, <1>2, <1>3, <1>4, <1>5, <1>6, <1>7, <1>8, <1>9, <1>10, <1>11, <1>12 DEF Request, Serve

LEMMA ManagerSends ==
  ASSUME ManagersTold, SentAsSaid, TypeOK, NameInv, HoldInv, RecordInv, SendInv, NEW p \in Pools,
         Work(p) \/ ManagerCrashes(p) \/ Starts(p)
  PROVE  SendInv'
<1> DEFINE s == job[p].snap
<1>t. /\ bk \in [Snaps -> Backups] /\ api \in Requests /\ rec \in [APIs -> Records]
      /\ job \in [Pools -> Jobs] /\ version \in [Pools -> APIs] /\ sent \in [Snaps -> Snaps \cup {Full, "no"}]
      /\ at \in [Pools -> {"idle", "progress", "send", "record", "write"}]
  BY Zenon DEF TypeOK
<1>i. (\A q \in Pools : WorkerSends(q)) /\ RequestSends /\ DoneIsSent
  BY DEF SendInv
<1>n. /\ "none" \notin Active /\ "new" \notin Active /\ "Done" \notin Active /\ "Failed" \notin Active
      /\ {"Init", "InProgress", "Invalid"} \subseteq Active /\ {"Done", "Failed"} \subseteq Finished
  BY DEF Active, Finished
<1>d. ASSUME at[p] # "idle"
      PROVE  /\ s \in Snaps /\ bk[s].pool = p /\ bk[s].status \in Active /\ Based(s, bk[s].prev)
             /\ api.op \notin Deleting
             /\ \A q \in Pools \ {p} : at[q] # "idle" => job[q].snap # s
  <2>1. s \in Snaps /\ bk[s].pool = p
    BY <1>d, Zenon DEF NameInv, HoldInv, WorkInv
  <2>2. bk[s].status \in Active
    BY <1>d, <1>i, Zenon DEF WorkerSends
  <2>3. Based(s, bk[s].prev) /\ api.op \notin Deleting
    BY <1>i, <2>1, <2>2, Zenon DEF SendInv, RequestSends
  <2>4. \A q \in Pools \ {p} : at[q] # "idle" => job[q].snap # s
    BY <2>1, Zenon DEF HoldInv, WorkInv
  <2> QED
    BY <2>1, <2>2, <2>3, <2>4, Zenon
<1> USE DEF manager
(* The worker goes on, and writes nothing. *)
<1>g. ASSUME UNCHANGED <<snaps, bk, sent, api>>, api.op = "unsnap" => UNCHANGED rec,
             \A q \in Pools \ {p} : at'[q] = at[q] /\ job'[q] = job[q], WorkerSends(p)'
      PROVE  SendInv'
  <2>1. ASSUME NEW q \in Pools PROVE WorkerSends(q)'
    BY <1>g, <1>i, Zenon DEF WorkerSends
  <2>2. RequestSends'
    BY <1>g, <1>i, Zenon DEF RequestSends, Based
  <2> QED
    BY <1>g, <2>1, <2>2, Zenon DEF SendInv, DoneIsSent, Based
(* The worker writes its backup. *)
<1>w. ASSUME at[p] # "idle", NEW status \in Active \cup Finished \cup {"none"},
             WriteStatus(s, status), StaleRequest(s), UNCHANGED <<snaps, sent, rec>>,
             \A q \in Pools \ {p} : at'[q] = at[q] /\ job'[q] = job[q],
             status = "Done" => sent[s] # "no",
             at'[p] = "idle" \/ (at'[p] = "send" /\ job'[p].snap = s /\ status \in Active)
      PROVE  SendInv'
  <2>1. bk'[s].status = status /\ bk'[s].prev = bk[s].prev /\ \A t \in Snaps \ {s} : bk'[t] = bk[t]
    <3>1. bk' = [bk EXCEPT ![s].status = status] /\ s \in Snaps
      BY <1>d, <1>w, Zenon DEF WriteStatus
    <3> HIDE DEF s
    <3> QED
      BY <1>t, <3>1 DEF Backups
  <2>2. api'.op = api.op /\ api'.snap = api.snap /\ api'.prev = api.prev
    BY <1>t, <1>w DEF StaleRequest, Requests
  <2>3. WorkerSends(p)'
    BY <1>w, <2>1, Zenon DEF WorkerSends
  <2>4. ASSUME NEW q \in Pools \ {p} PROVE WorkerSends(q)'
    <3>1. at[q] # "idle" => job[q].snap \in Snaps /\ job[q].snap # s
      BY <1>d, <1>w, Zenon DEF NameInv
    <3>2. /\ at'[q] = at[q] /\ job'[q] = job[q] /\ sent' = sent
          /\ at[q] # "idle" => bk'[job[q].snap] = bk[job[q].snap]
      BY <1>w, <2>1, <3>1, Zenon
    <3> QED
      BY <1>i, <3>2, Zenon DEF WorkerSends
  <2>5. ASSUME NEW t \in Snaps, bk'[t].status \in Active PROVE Based(t, bk[t].prev)'
    <3>1. Based(t, bk[t].prev) /\ bk'[t].prev = bk[t].prev
      BY <1>d, <1>w, <2>1, <2>5, Zenon DEF SendInv
    <3> QED
      BY <1>w, <3>1, Zenon DEF Based
  <2>6. DoneIsSent'
    BY <1>d, <1>i, <1>w, <2>1, Zenon DEF DoneIsSent
  <2>7. RequestSends'
    BY <1>d, <1>i, <1>w, <2>2, Zenon DEF RequestSends, Based
  <2> QED
    BY <2>3, <2>4, <2>5, <2>6, <2>7, Zenon DEF SendInv
(* The worker gives up. *)
<1>l. ASSUME UNCHANGED <<snaps, bk, sent, api, rec>>, Idle(p) PROVE SendInv'
  <2>1. at'[p] = "idle" /\ \A q \in Pools \ {p} : at'[q] = at[q] /\ job'[q] = job[q]
    BY <1>l, GoType, Zenon
  <2> QED
    BY <1>g, <1>l, <2>1, Zenon DEF WorkerSends
<1>1. CASE SyncHandler(p)
  <2>1. UNCHANGED <<snaps, bk, sent, api, rec>>
    BY <1>1, Zenon DEF SyncHandler
  <2>2. PICK item \in queue[p] :
          IF bk[item[1]].status \in Active /\ item[2] = "add"
          THEN GoTo(p, "write", item[1], AddStatus(bk[item[1]].status))
          ELSE IF bk[item[1]].status = "Init" THEN GoTo(p, "progress", item[1], "none") ELSE Idle(p)
    BY <1>1, Zenon DEF SyncHandler
  <2> DEFINE u == item[1]
  <2>3. u \in Snaps
    BY SMTT(30) DEF TypeOK
  <2>4. CASE bk[u].status \in Active /\ GoTo(p, "write", u, AddStatus(bk[u].status))
    <3>1. AddStatus(bk[u].status) \in Active
      BY <1>n, Zenon DEF AddStatus
    <3>2. /\ at'[p] = "write" /\ job'[p].snap = u /\ job'[p].status = AddStatus(bk[u].status)
          /\ \A q \in Pools \ {p} : at'[q] = at[q] /\ job'[q] = job[q]
      BY <1>t, <2>4, Zenon DEF GoTo
    <3>3. WorkerSends(p)'
      BY <1>n, <2>1, <2>4, <3>1, <3>2, Zenon DEF WorkerSends
    <3> QED
      BY <1>g, <2>1, <3>2, <3>3, Zenon
  <2>5. CASE bk[u].status = "Init" /\ GoTo(p, "progress", u, "none")
    <3>1. at'[p] = "progress" /\ job'[p].snap = u /\ \A q \in Pools \ {p} : at'[q] = at[q] /\ job'[q] = job[q]
      BY <2>3, <2>5, GoType, Zenon
    <3>2. WorkerSends(p)'
      BY <1>n, <2>1, <2>5, <3>1, Zenon DEF WorkerSends
    <3> QED
      BY <1>g, <2>1, <3>1, <3>2, Zenon
  <2>6. CASE Idle(p)
    BY <1>l, <2>1, <2>6, Zenon
  <2> QED
    BY <2>2, <2>4, <2>5, <2>6, Zenon
<1>2. CASE StartBackup(p)
  <2>1. UNCHANGED <<snaps, sent, rec>> /\ at[p] = "progress"
    BY <1>2, Zenon DEF StartBackup
  <2>2. CASE LoseJob(p)
    BY <1>l, <2>1, <2>2, Zenon DEF LoseJob
  <2>3. CASE WriteStatus(s, "InProgress") /\ StaleRequest(s) /\ GoTo(p, "send", s, "none")
    <3>1. at'[p] = "send" /\ job'[p].snap = s /\ \A q \in Pools \ {p} : at'[q] = at[q] /\ job'[q] = job[q]
      BY <1>t, <2>3, Zenon DEF GoTo
    <3> QED
      BY <1>n, <1>w, <2>1, <2>3, <3>1, Zenon
  <2> QED
    BY <1>2, <2>2, <2>3, Zenon DEF StartBackup
<1>3. CASE CreateVolumeBackup(p)
  <2>1. UNCHANGED <<snaps, bk, api, rec>> /\ at[p] = "send"
    BY <1>3, Zenon DEF CreateVolumeBackup
  <2>2. CASE UNCHANGED sent /\ GoTo(p, "write", s, "Failed")
    <3>1. /\ at'[p] = "write" /\ job'[p].snap = s /\ job'[p].status = "Failed"
          /\ \A q \in Pools \ {p} : at'[q] = at[q] /\ job'[q] = job[q]
      BY <1>t, <2>2, Zenon DEF GoTo
    <3>2. WorkerSends(p)'
      BY <1>d, <2>1, <2>2, <3>1, Zenon DEF WorkerSends
    <3> QED
      BY <1>g, <2>1, <2>2, <3>1, <3>2, Zenon
  <2>3. CASE sent' = [sent EXCEPT ![s] = bk[s].prev] /\ GoTo(p, "record", s, "none")
    <3>1. at'[p] = "record" /\ job'[p].snap = s /\ \A q \in Pools \ {p} : at'[q] = at[q] /\ job'[q] = job[q]
      BY <1>t, <2>3, Zenon DEF GoTo
    <3>2. s \in Snaps /\ bk[s].prev \in Snaps \cup {Full} /\ bk[s].prev # "no"
      BY <1>d, <1>t, <2>1, BackupAssumption, SMTT(30) DEF Backups
    <3>3. sent'[s] = bk[s].prev /\ \A t \in Snaps \ {s} : sent'[t] = sent[t]
      BY <1>t, <2>3, <3>2, Zenon
    <3>4. \A t \in Snaps : sent[t] # "no" => sent'[t] # "no"
      BY <3>2, <3>3, Zenon
    <3>5. ASSUME NEW q \in Pools PROVE WorkerSends(q)'
      <4>1. at[q] # "idle" => job[q].snap \in Snaps /\ bk[job[q].snap].status \in Active
        BY <1>i, Zenon DEF NameInv, WorkerSends
      <4> QED
        BY <1>d, <1>i, <2>1, <3>1, <3>2, <3>3, <3>4, <4>1, Zenon DEF WorkerSends
    <3>6. ASSUME NEW t, NEW prev, Based(t, prev) PROVE Based(t, prev)'
      BY <2>1, <3>4, <3>6, Zenon DEF Based
    <3>7. RequestSends'
      <4>1. api.op = "create" => Based(api.snap, api.prev)'
        BY <1>i, <2>1, <3>6, Zenon DEF RequestSends
      <4> QED
        BY <1>i, <2>1, <4>1, Zenon DEF RequestSends
    <3>8. DoneIsSent'
      <4>1. bk[s].prev \in Snaps => sent[bk[s].prev] # "no"
        BY <1>d, <2>1, Zenon DEF Based
      <4> QED
        BY <1>i, <2>1, <3>2, <3>3, <3>4, <4>1, Zenon DEF DoneIsSent
    <3>9. ASSUME NEW t \in Snaps, bk'[t].status \in Active PROVE Based(t, bk[t].prev)'
      BY <2>1, <3>6, <3>9 DEF SendInv
    <3> QED
      BY <3>5, <3>7, <3>8, <3>9, Zenon DEF SendInv
  <2>4. Sendable(s)
    BY <1>d, <2>1, Zenon DEF Sendable, Based
  <2> QED
    BY <1>3, <2>2, <2>3, <2>4, Zenon DEF CreateVolumeBackup, SentAsSaid, Fault
<1>4. CASE UpdateCStorCompletedBackup(p)
  <2>1. UNCHANGED <<snaps, bk, api, sent>> /\ at[p] = "record"
        /\ \E status \in {"Done", "Failed"} : GoTo(p, "write", s, status)
    BY <1>4, Zenon DEF UpdateCStorCompletedBackup
  <2>2. /\ at'[p] = "write" /\ job'[p].snap = s
        /\ \A q \in Pools \ {p} : at'[q] = at[q] /\ job'[q] = job[q]
    <3>1. PICK status \in {"Done", "Failed"} : GoTo(p, "write", s, status)
      BY <2>1, Zenon
    <3> QED
      BY <1>t, <3>1, Zenon DEF GoTo
  <2>3. api.op # "unsnap"
    BY <1>d, <2>1, Zenon DEF Deleting
  <2>4. WorkerSends(p)'
    BY <1>d, <1>i, <2>1, <2>2, Zenon DEF WorkerSends
  <2> QED
    BY <1>g, <2>1, <2>2, <2>3, <2>4, Zenon
<1>5. CASE WriteResult(p)
  <2>1. UNCHANGED <<snaps, sent, rec>> /\ at[p] = "write" /\ Exists(s)
    BY <1>5, <1>d, Zenon DEF WriteResult, Exists
  <2>2. CASE LoseJob(p)
    BY <1>l, <2>1, <2>2, Zenon DEF LoseJob
  <2>3. CASE WriteStatus(s, job[p].status) /\ StaleRequest(s) /\ Idle(p)
    <3> DEFINE status == job[p].status
    <3>1. status \in Active \cup Finished \cup {"none"} /\ (status = "Done" => sent[s] # "no")
      BY <1>i, <1>t, <2>1, Zenon DEF WorkerSends, Jobs
    <3>2. at'[p] = "idle" /\ \A q \in Pools \ {p} : at'[q] = at[q] /\ job'[q] = job[q]
      BY <2>3, GoType, Zenon
    <3> HIDE DEF status, s
    <3> QED
      BY <1>w, <2>1, <2>3, <3>1, <3>2, Zenon DEF status, s
  <2> QED
    BY <1>5, <2>1, <2>2, <2>3, Zenon DEF WriteResult
<1>6. CASE ManagerCrashes(p)
  BY <1>6, <1>l DEF ManagerCrashes
<1>7. CASE Starts(p)
  <2>0. PICK fails \in BOOLEAN : CleanupOldBackup(p, fails)
    BY <1>7 DEF Starts
  <2>1. UNCHANGED <<snaps, sent, rec, at, job>> /\ ~up[p]
    BY <2>0, StartStep
  <2>2. /\ bk' = [t \in Snaps |-> IF t \in BackupsOf(p)
                                  THEN [bk[t] EXCEPT !.status = CleanedStatus(t, version[p])]
                                  ELSE bk[t]]
        /\ \E b \in BOOLEAN : api' = [api EXCEPT !.fresh = b]
    <3>1. bk' = Cleaned(p) /\ api' = [api EXCEPT !.fresh = @ /\ bk'[api.snap] = bk[api.snap]]
      BY <2>0, StartStep
    <3>3. (api.fresh /\ bk'[api.snap] = bk[api.snap]) \in BOOLEAN
      BY Zenon
    <3> QED
      BY <3>1, <3>3, Zenon DEF Cleaned
  <2>3. api'.op = api.op /\ api'.snap = api.snap /\ api'.prev = api.prev
    BY <1>t, <2>2 DEF Requests
  <2>4. ASSUME NEW t \in BackupsOf(p)
        PROVE  /\ t \in Snaps /\ bk[t].pool = p /\ bk'[t].status \notin Active
               /\ bk'[t].status = "Done" => sent[t] # "no"
    <3>1. t \in Snaps /\ bk[t].pool = p /\ bk'[t].status = CleanedStatus(t, version[p])
      BY <1>t, <2>2 DEF BackupsOf, Backups
    <3>2. FindLastBackupStat(t, version[p]) = "Failed" \/ (FindLastBackupStat(t, version[p]) = "Done" /\ sent[t] # "no")
      BY <1>t, <3>1, Zenon DEF FindLastBackupStat, RecordInv
    <3>3. bk[t].status = "Done" => sent[t] # "no"
      BY <1>i, <3>1, Zenon DEF DoneIsSent
    <3> QED
      BY <1>n, <3>1, <3>2, <3>3 DEF CleanedStatus
  <2>5. \A t \in Snaps \ BackupsOf(p) : bk'[t] = bk[t]
    BY <2>2
  <2>6. ASSUME NEW q \in Pools PROVE WorkerSends(q)'
    <3>1. at[q] # "idle" => job[q].snap \in Snaps /\ job[q].snap \notin BackupsOf(p)
      <4>1. at[q] # "idle" => up[q] /\ bk[job[q].snap].pool = q /\ job[q].snap \in Snaps
        BY Zenon DEF NameInv, HoldInv, WorkInv
      <4> QED
        BY <2>1, <2>4, <4>1, Zenon
    <3> QED
      BY <1>i, <2>1, <2>5, <3>1, Zenon DEF WorkerSends
  <2>7. ASSUME NEW t \in Snaps, bk'[t].status \in Active PROVE Based(t, bk[t].prev)'
    <3>1. bk'[t] = bk[t]
      BY <2>4, <2>5, <2>7, Zenon
    <3> QED
      BY <2>1, <2>7, <3>1, Zenon DEF SendInv, Based
  <2>8. RequestSends'
    <3>1. api.op \in Deleting => \A t \in Snaps : bk'[t].status \notin Active
      BY <1>i, <2>4, <2>5, Zenon DEF RequestSends
    <3> QED
      BY <1>i, <2>1, <2>3, <3>1, Zenon DEF RequestSends, Based
  <2>9. DoneIsSent'
    BY <1>i, <2>1, <2>4, <2>5, Zenon DEF DoneIsSent
  <2> QED
    BY <2>6, <2>7, <2>8, <2>9, Zenon DEF SendInv
<1> QED
  BY <1>1, <1>2, <1>3, <1>4, <1>5, <1>6, <1>7 DEF Work

LEMMA SendStep ==
  ASSUME ManagersTold, SentAsSaid, TypeOK, NameInv, HoldInv, RecordInv, SendInv, [RestoreNext]_allVars
  PROVE  RecordInv' /\ SendInv'
<1>1. CASE Next
  BY <1>1, RecordStep, ServeSends, ManagerSends DEF Next
<1>2. CASE Beside
  <2>1. UNCHANGED <<version, snaps, bk, rec, sent, at, job, api>>
    BY <1>2 DEF Beside, manager
  <2>2. RecordInv'
    BY <2>1, Zenon DEF RecordInv, LastSnapHeld
  <2>3. SendInv'
    BY <2>1, Zenon DEF SendInv, WorkerSends, RequestSends, DoneIsSent, Based
  <2> QED
    BY <2>2, <2>3
<1> QED
  BY <1>1, <1>2, Projected

-----------------------------------------------------------------------------
(* The initial states. *)
LEMMA Initially ==
  ASSUME RestoreInit
  PROVE  /\ TypeOK /\ NameInv /\ HoldInv
         /\ RestoreType /\ \A p \in Pools : RestoreInv(p) /\ ReceivedInv(p)
         /\ SentAsSaid => RecordInv /\ SendInv
<1> USE DEF RestoreInit, Init
<1>1. /\ NoBackup \in Backups /\ NoRecord \in Records /\ NoJob \in Jobs /\ NoRequest \in Requests
      /\ NoRequest.op = "none" /\ NoRecord.last = Full /\ NoRecord.second = Full
  BY NoneType
<1>2. [NoBackup EXCEPT !.status = "new"] \in Backups /\ [NoBackup EXCEPT !.status = "new"].status = "new"
  BY <1>1 DEF Backups
<1>3. TypeOK
  BY <1>1, <1>2, BackupAssumption DEF TypeOK
<1>4. NameInv
  BY <1>1 DEF NameInv
<1>5. HoldInv
  BY <1>1 DEF HoldInv, RequestInv, WorkInv, Unheard, Posting
<1>6. RestoreType /\ \A p \in Pools : RestoreInv(p) /\ ReceivedInv(p)
  BY DEF RestoreType, RestoreInv, ReceivedInv
<1>7. ASSUME SentAsSaid PROVE RecordInv /\ SendInv
  <2>1. RecordInv
    BY <1>1, <1>7, BackupAssumption DEF RecordInv, LastSnapHeld, SentAsSaid
  <2>2. SendInv
    BY <1>1, <1>2, BackupAssumption, Zenon
    DEF SendInv, WorkerSends, RequestSends, DoneIsSent, Active, Deleting
  <2> QED
    BY <2>1, <2>2
<1> QED
  BY <1>3, <1>4, <1>5, <1>6, <1>7

(***************************************************************************)
(* The state of the schedule has its type at all times, and whoever is at  *)
(* work is at work on a backup of the schedule (create, get, deleteBackup, *)
(* syncHandler), whatever fails.                                           *)
(***************************************************************************)
THEOREM TypeCorrect == RestoreSpec => [](TypeOK /\ NameInv)
<1>1. RestoreInit => TypeOK /\ NameInv
  BY Initially
<1>2. TypeOK /\ NameInv /\ [RestoreNext]_allVars => (TypeOK /\ NameInv)'
  BY TypeStep
<1> QED
  BY <1>1, <1>2, PTL DEF RestoreSpec

(***************************************************************************)
(* A backup and a restore have one writer at a time: the worker of the     *)
(* pool while the manager runs, a GET while it does not (syncHandler,      *)
(* updateBackupStatus, getCStorRestoreStatus), provided no GET finds a     *)
(* manager down that is at work, as it does when its check fails, and no   *)
(* call of a manager's cleanup fails.                                      *)
(***************************************************************************)
THEOREM OneWriter ==
  ASSUME ManagersTold
  PROVE  RestoreSpec => [](HoldInv /\ RestoreType /\ \A p \in Pools : RestoreInv(p))
<1> DEFINE IInv == HoldInv /\ RestoreType /\ \A p \in Pools : RestoreInv(p)
<1>1. RestoreInit => IInv
  BY Initially
<1>2. TypeOK /\ NameInv /\ IInv /\ [RestoreNext]_allVars => IInv'
  BY HoldStep, RestoreStep
<1>3. RestoreSpec => [](TypeOK /\ NameInv)
  BY TypeCorrect
<1> HIDE DEF IInv
<1>4. RestoreSpec => []IInv
  BY <1>1, <1>2, <1>3, PTL DEF RestoreSpec
<1> QED
  BY <1>4 DEF IInv

(* The backups that a step finishes, and those that were finished before. *)
LEMMA BackupStays ==
  ASSUME ManagersTold, TypeOK, NameInv, HoldInv, Next, NEW s \in Snaps, bk[s].status \in Finished
  PROVE  bk'[s].status \in {bk[s].status, "none"}
<1> DEFINE Goal == bk'[s].status \in {bk[s].status, "none"}
<1>t. bk \in [Snaps -> Backups] /\ api \in Requests
  BY Zenon DEF TypeOK
<1>n. /\ bk[s].status \notin Active /\ bk[s].status # "new" /\ bk[s].status # "none"
  BY SMTT(30) DEF Active, Finished
<1>1. CASE UNCHANGED bk
  BY <1>1
<1>2. ASSUME NEW t \in Snaps, Post(t) PROVE Goal
  BY <1>2, <1>n, <1>t DEF Post, Backups
<1>3. CASE CreateBackupResource
  <2>1. api.snap \in Snaps /\ bk[api.snap].status = "none"
    BY <1>3, Zenon DEF CreateBackupResource, NameInv, HoldInv, RequestInv, Posting
  <2> QED
    BY <1>3, <1>n, <1>t, <2>1, Zenon DEF CreateBackupResource
<1>4. CASE UpdateBackupStatus
  <2>1. ASSUME api.fresh, NEW status, WriteStatus(api.snap, status) PROVE Goal
    <3>1. api.snap \in Snaps /\ bk[api.snap].status \in Active
      BY <1>4, <2>1, Zenon DEF UpdateBackupStatus, NameInv, HoldInv, RequestInv
    <3> QED
      BY <1>n, <1>t, <2>1, <3>1 DEF WriteStatus
  <2> QED
    BY <1>1, <1>4, <2>1, GetWrites, Zenon
<1>5. CASE DeleteBackupResource
  BY <1>5, <1>t DEF DeleteBackupResource, Backups, NameInv
<1>6. ASSUME NEW p \in Pools, StartBackup(p) \/ WriteResult(p) PROVE Goal
  <2> DEFINE u == job[p].snap
  <2>1. u \in Snaps /\ bk[u].status \in Active \cup {"none"}
    BY <1>6, Zenon DEF StartBackup, WriteResult, NameInv, HoldInv, WorkInv
  <2>2. UNCHANGED bk \/ \E status : WriteStatus(u, status)
    BY <1>6, Zenon DEF StartBackup, WriteResult, LoseJob
  <2>3. u # s
    BY <1>n, <2>1, Zenon
  <2> HIDE DEF u
  <2> QED
    BY <1>t, <2>1, <2>2, <2>3 DEF WriteStatus
<1>7. ASSUME NEW p \in Pools, Starts(p) PROVE Goal
  <2>0. PICK fails \in BOOLEAN : CleanupOldBackup(p, fails)
    BY <1>7 DEF Starts
  <2>1. bk'[s] = bk[s] \/ bk'[s] = [bk[s] EXCEPT !.status = CleanedStatus(s, version[p])]
    <3>1. bk' = Cleaned(p)
      BY <2>0, StartStep
    <3> QED
      BY <3>1 DEF Cleaned
  <2>2. CleanedStatus(s, version[p]) = bk[s].status
    BY DEF CleanedStatus, Finished
  <2> QED
    BY <1>t, <2>1, <2>2 DEF Backups
<1>8. CASE Request \/ Serve \/ CallFails
  BY <1>1, <1>2, <1>3, <1>4, <1>5, <1>8, Zenon
  DEF Request, Serve, CallFails, GetBackup, DeleteBackup, CreateSnapshot, FindHealthyCVR,
      GetOrCreateLastBackupSnap, DeleteCompletedBackup, DeleteSnapshot
<1>9. ASSUME NEW p \in Pools, SyncHandler(p) \/ CreateVolumeBackup(p) \/ UpdateCStorCompletedBackup(p)
                               \/ ManagerCrashes(p)
      PROVE  UNCHANGED bk
  BY <1>9, Zenon DEF SyncHandler, CreateVolumeBackup, UpdateCStorCompletedBackup, ManagerCrashes
<1> QED
  BY <1>1, <1>6, <1>7, <1>8, <1>9, Zenon DEF Next, Work

(* The same of the restores. *)
LEMMA RestoreStays ==
  ASSUME ManagersTold, RestoreType, \A q \in Pools : RestoreInv(q), [RestoreNext]_allVars,
         NEW p \in Pools, rst[p] \in Finished
  PROVE  rst'[p] = rst[p]
<1>t. DOMAIN rst = Pools
  BY DEF RestoreType
<1>n. rst[p] \notin Active /\ rst[p] # "none"
  BY DEF Active, Finished
<1>1. CASE UNCHANGED rst
  BY <1>1
<1>2. CASE BuildAndCreateRestore
  BY <1>2, <1>n, <1>t, Zenon DEF BuildAndCreateRestore
<1>3. CASE GetRestoreStatus
  BY <1>3, <1>n DEF GetRestoreStatus, SeenStatus, Unfinished
<1>4. ASSUME NEW q \in Pools, StartRestore(q) \/ WriteRestoreResult(q) PROVE rst'[p] = rst[p]
  <2>1. rst[q] \in Active
    BY <1>4, Zenon DEF StartRestore, WriteRestoreResult, RestoreInv
  <2>2. UNCHANGED rst \/ \E status : WriteRestore(q, status)
    BY <1>4, Zenon DEF StartRestore, WriteRestoreResult, LoseRestore
  <2> QED
    BY <1>n, <1>t, <2>1, <2>2, Zenon DEF WriteRestore
<1>5. ASSUME NEW q \in Pools, NEW fails \in BOOLEAN, CleanupOldRestore(q, fails) PROVE rst'[p] = rst[p]
  BY <1>5, <1>t DEF CleanupOldRestore, Finished
<1>6. CASE UNCHANGED restore \/ PostRestore
  BY <1>1, <1>6, Zenon DEF restore, PostRestore
<1>7. ASSUME NEW q \in Pools, RestoreSyncHandler(q) \/ CreateVolumeRestore(q) \/ RestoreWorkerDies(q)
      PROVE  UNCHANGED rst
  BY <1>7 DEF RestoreSyncHandler, CreateVolumeRestore, RestoreWorkerDies
<1> QED
  BY <1>1, <1>2, <1>3, <1>4, <1>5, <1>6, <1>7, Zenon DEF RestoreNext, RestoreWork, ManagerStarts, allVars

(***************************************************************************)
(* A backup or a restore that was found Done or Failed stays so, until a   *)
(* backup is deleted: no worker, cleanup or GET that read it before writes *)
(* over the outcome (syncHandler, cleanupOldBackup, get,                   *)
(* getCStorRestoreStatus), provided no GET finds a manager down that is at *)
(* work and no call of a manager's cleanup fails.                          *)
(***************************************************************************)
THEOREM Outcomes == ASSUME ManagersTold PROVE RestoreSpec => OutcomesStay
<1> DEFINE IInv == HoldInv /\ RestoreType /\ \A p \in Pools : RestoreInv(p)
           Kept == /\ \A s \in Snaps : bk[s].status \in Finished => bk'[s].status \in {bk[s].status, "none"}
                   /\ \A p \in Pools : rst[p] \in Finished => rst'[p] = rst[p]
<1>1. TypeOK /\ NameInv /\ IInv /\ [RestoreNext]_allVars => Kept
  <2> SUFFICES ASSUME TypeOK, NameInv, IInv, [RestoreNext]_allVars PROVE Kept
    BY Zenon
  <2>1. ASSUME NEW s \in Snaps, bk[s].status \in Finished PROVE bk'[s].status \in {bk[s].status, "none"}
    <3>1. CASE Next
      BY <2>1, <3>1, BackupStays
    <3>2. CASE Beside
      BY <3>2 DEF Beside
    <3> QED
      BY <3>1, <3>2, Projected, Zenon
  <2>2. ASSUME NEW p \in Pools, rst[p] \in Finished PROVE rst'[p] = rst[p]
    BY <2>2, RestoreStays, Zenon
  <2> QED
    BY <2>1, <2>2, Zenon
<1>2. RestoreSpec => [](TypeOK /\ NameInv)
  BY TypeCorrect
<1>3. RestoreSpec => []IInv
  BY OneWriter
<1> HIDE DEF IInv, Kept
<1>4. RestoreSpec => [][Kept]_allVars
  BY <1>1, <1>2, <1>3, PTL DEF RestoreSpec
<1> QED
  BY <1>4 DEF OutcomesStay, Kept

(***************************************************************************)
(* The record of the schedule and what was sent stay in step: the record   *)
(* names snapshots that reached the destination, and an unfinished backup  *)
(* and its base are on the volume (CreateVolumeBackup,                     *)
(* updateCStorCompletedBackup, deleteCompletedBackup), provided there is   *)
(* one writer as above, backups are deleted only while none is under way,  *)
(* zfs send does not fail unseen and the pools have one version.           *)
(***************************************************************************)
THEOREM RecordKept ==
  ASSUME ManagersTold, SentAsSaid PROVE RestoreSpec => [](RecordInv /\ SendInv)
<1>1. RestoreInit => RecordInv /\ SendInv
  BY Initially
<1>2. TypeOK /\ NameInv /\ HoldInv /\ RecordInv /\ SendInv /\ [RestoreNext]_allVars => (RecordInv /\ SendInv)'
  BY SendStep
<1>3. RestoreSpec => [](TypeOK /\ NameInv)
  BY TypeCorrect
<1>4. RestoreSpec => [](HoldInv /\ RestoreType /\ \A p \in Pools : RestoreInv(p))
  BY OneWriter
<1> QED
  BY <1>1, <1>2, <1>3, <1>4, PTL DEF RestoreSpec

(***************************************************************************)
(* The snapshot that the next backup will be a difference from is still on *)
(* the volume (deleteCompletedBackup before deleteSnapshot), under the     *)
(* conditions of RecordKept: a GET whose check fails lets a client delete  *)
(* the snapshot of a backup that is still being sent.                      *)
(***************************************************************************)
THEOREM Held == ASSUME ManagersTold, SentAsSaid PROVE RestoreSpec => []LastSnapHeld
<1>1. RecordInv => LastSnapHeld
  BY DEF RecordInv
<1> QED
  BY <1>1, RecordKept, PTL

(***************************************************************************)
(* What is reported Done was done: a backup has reached the destination,   *)
(* and so has everything it is a difference from; a replica whose restore  *)
(* is Done has the data (CreateVolumeBackup, findLastBackupStat,           *)
(* syncEventHandler, cleanupOldRestore), under the conditions of           *)
(* RecordKept.                                                             *)
(***************************************************************************)
THEOREM Sent == ASSUME ManagersTold, SentAsSaid PROVE RestoreSpec => []DoneIsDone
<1> DEFINE Received == \A p \in Pools : ReceivedInv(p)
<1>1. RestoreInit => Received
  BY Initially
<1>2. RestoreType /\ Received /\ [RestoreNext]_allVars => Received'
  BY ReceivedStep
<1>3. SendInv /\ Received => DoneIsDone
  BY Zenon DEF SendInv, ReceivedInv, DoneIsDone
<1>4. RestoreSpec => [](HoldInv /\ RestoreType /\ \A p \in Pools : RestoreInv(p))
  BY OneWriter
<1>5. RestoreSpec => [](RecordInv /\ SendInv)
  BY RecordKept
<1> HIDE DEF Received
<1> QED
  BY <1>1, <1>2, <1>3, <1>4, <1>5, PTL DEF RestoreSpec
=============================================================================
