-------------------------- MODULE BackupReplication --------------------------
(***************************************************************************)
(* The continuous backup of godam: originals are mirrored to one SFTP      *)
(* destination by a single worker goroutine that drains the storage_jobs   *)
(* table, while HTTP handlers upload, replace and delete assets and queue  *)
(* work for it.                                                            *)
(*                                                                         *)
(*   service/backup_service.go   the queue, the worker, the reconciliation *)
(*   service/asset_service.go    storeUploadFile, ReplaceContent, Delete   *)
(*   store/backup.go             asset_replicas and storage_jobs           *)
(*                                                                         *)
(* One action is one SQL statement (or one transaction) or one operation   *)
(* on a store: SQLite runs on a single connection, so statements are       *)
(* serialized, and the handlers' sequences of statements interleave.       *)
(* Bytes are abstracted to version numbers: version v of asset a is the    *)
(* v-th content saved for it, and 0 means that there is no copy.           *)
(***************************************************************************)
EXTENDS Naturals, FiniteSets

CONSTANTS
    Assets,      \* asset ids (UUIDs: never used again after a delete)
    Requests,    \* HTTP requests that can be in flight at the same time
    JobIds,      \* ids of storage_jobs rows
    None,        \* "no asset" and "no job"
    MaxVersion,  \* bound: contents saved per asset
    MaxToggles,  \* bound: times SetSettings changes "enabled"
    MaxFaults,   \* bound: failed calls (SFTP, database)
    MaxStops     \* bound: client disconnects and process crashes

Actions == {"put", "delete"}

Job == [id : JobIds, asset : Assets, action : Actions, due : BOOLEAN]

ASSUME ConstantsAssumption ==
    /\ None \notin Assets
    /\ None \notin Job
    /\ MaxVersion \in Nat /\ MaxToggles \in Nat
    /\ MaxFaults \in Nat /\ MaxStops \in Nat

VARIABLES
    row,      \* assets: "absent", "live" or "deleted"
    file,     \* primary storage: the last version saved
    onDisk,   \* assets whose file is in primary storage
    replica,  \* asset_replicas.status, "none" when there is no row
    jobs,     \* storage_jobs
    remote,   \* the destination: the version stored there
    enabled,  \* backup_settings.enabled
    rpc,      \* what each request is about to do
    rasset,   \* the asset each request works on
    rtodo,    \* assets BackupNow has read and not queued yet
    wpc,      \* what the worker is about to do
    batch,    \* jobs processJobs has read and not started
    job,      \* the job processJob works on: a copy, not the row
    opened,   \* the version the worker is copying
    wtodo,    \* assets reconcile has read and not queued yet
    toggles, faults, stops,  \* how much of the bounds is used
    dropped   \* history: assets for which, since the last job was queued,
              \* work owed to the destination was thrown away or never
              \* queued (backups off, a failed enqueue, a replacement cut
              \* short, a put in the middle of a delete), or the removal of
              \* their copy was not recorded

store    == <<row, file, onDisk, replica, jobs, remote>>
requests == <<rpc, rasset, rtodo>>
worker   == <<wpc, batch, job, opened, wtodo>>
bounds   == <<toggles, faults, stops>>
vars     == <<store, enabled, requests, worker, bounds, dropped>>

ReplacePCs == {"rp_read", "rp_settings", "rp_enqueue"}

RequestPC == {"idle", "up_row", "up_attrs", "up_enqueue",
              "rp_save", "dl_settings", "dl_enqueue", "dl_row", "dl_file",
              "bn_list", "bn_enqueue"} \cup ReplacePCs

WorkerPC == {"reconcile", "rec_scan", "rec_enqueue", "idle", "next",
             "settings", "del_remote", "del_replica", "read_row",
             "open", "copy", "mark", "finish", "fail_job", "fail_replica"}

TypeOK ==
    /\ row \in [Assets -> {"absent", "live", "deleted"}]
    /\ file \in [Assets -> 0 .. MaxVersion]
    /\ onDisk \subseteq Assets
    /\ replica \in [Assets -> {"none", "pending", "synced", "failed"}]
    /\ jobs \subseteq Job
    /\ \A j, k \in jobs : j.asset = k.asset => j = k
    /\ remote \in [Assets -> 0 .. MaxVersion]
    /\ enabled \in BOOLEAN
    /\ rpc \in [Requests -> RequestPC]
    /\ rasset \in [Requests -> Assets \cup {None}]
    /\ rtodo \in [Requests -> SUBSET Assets]
    /\ wpc \in WorkerPC
    /\ batch \subseteq Job
    /\ job \in Job \cup {None}
    /\ opened \in 0 .. MaxVersion
    /\ wtodo \subseteq Assets
    /\ toggles \in 0 .. MaxToggles
    /\ faults \in 0 .. MaxFaults
    /\ stops \in 0 .. MaxStops
    /\ dropped \subseteq Assets

Init ==
    /\ row = [a \in Assets |-> "absent"]
    /\ file = [a \in Assets |-> 0]
    /\ onDisk = {}
    /\ replica = [a \in Assets |-> "none"]
    /\ jobs = {}
    /\ remote = [a \in Assets |-> 0]
    /\ enabled \in BOOLEAN
    /\ rpc = [r \in Requests |-> "idle"]
    /\ rasset = [r \in Requests |-> None]
    /\ rtodo = [r \in Requests |-> {}]
    /\ wpc = "reconcile"
    /\ batch = {}
    /\ job = None
    /\ opened = 0
    /\ wtodo = {}
    /\ toggles = 0 /\ faults = 0 /\ stops = 0
    /\ dropped = {}

-----------------------------------------------------------------------------
(* The queue.  enqueue is one transaction; a put also writes the replica   *)
(* row, whose foreign key makes the transaction roll back when the asset   *)
(* row is gone.                                                            *)

JobsOf(a) == {j \in jobs : j.asset = a}

\* The jobs the worker holds copies of, and uuid.NewString(): an id that
\* none of them carries.
Held == batch \cup ({job} \ {None})
FreshIds == {i \in JobIds : \A j \in Held : j.id # i}

NewJob(a, act) ==
    [id |-> CHOOSE i \in FreshIds : TRUE, asset |-> a, action |-> act, due |-> TRUE]

\* A Delete handler has queued the deletion of a and not removed the row yet.
DeleteUnderway(a) == \E r \in Requests : rpc[r] = "dl_row" /\ rasset[r] = a

\* Slip: the put transaction without the foreign key of asset_replicas.
CommitPutNoKey(a) ==
    /\ FreshIds # {}
    /\ jobs' = (jobs \ JobsOf(a)) \cup {NewJob(a, "put")}
    /\ replica' = [replica EXCEPT ![a] = "pending"]
    /\ dropped' = IF DeleteUnderway(a) THEN dropped \cup {a} ELSE dropped \ {a}

\* The put transaction when it commits.  Queued in the middle of a delete,
\* it discards the deletion.
CommitPut(a) ==
    /\ row[a] = "live"
    /\ FreshIds # {}
    /\ jobs' = (jobs \ JobsOf(a)) \cup {NewJob(a, "put")}
    /\ replica' = [replica EXCEPT ![a] = "pending"]
    /\ dropped' = IF DeleteUnderway(a) THEN dropped \cup {a} ELSE dropped \ {a}

RollbackPut(a) ==
    /\ row[a] # "live"
    /\ UNCHANGED <<jobs, replica, dropped>>

\* Slip: a put gives way to a job that may be running already.
EnqueuePutUnlessQueued(a) ==
    \/ JobsOf(a) = {} /\ (CommitPut(a) \/ RollbackPut(a))
    \/ JobsOf(a) # {} /\ UNCHANGED <<jobs, replica, dropped>>

\* enqueue of a put that replaces what is queued for the asset.
EnqueuePut(a) == CommitPut(a) \/ RollbackPut(a)

\* enqueue of a put that gives way to what is queued (reconcile).
EnqueuePutIfNone(a) ==
    \/ JobsOf(a) = {} /\ EnqueuePut(a)
    \/ JobsOf(a) # {} /\ UNCHANGED <<jobs, replica, dropped>>

\* Slip: a deletion queued beside the job it should replace.
EnqueueDeleteBeside(a) ==
    /\ FreshIds # {}
    /\ jobs' = jobs \cup {NewJob(a, "delete")}
    /\ dropped' = dropped \ {a}
    /\ UNCHANGED replica

EnqueueDelete(a) ==
    /\ FreshIds # {}
    /\ jobs' = (jobs \ JobsOf(a)) \cup {NewJob(a, "delete")}
    /\ dropped' = dropped \ {a}
    /\ UNCHANGED replica

-----------------------------------------------------------------------------
(* The HTTP handlers.                                                      *)

Goto(r, pc) == rpc' = [rpc EXCEPT ![r] = pc] /\ UNCHANGED <<rasset, rtodo>>

Begin(r, pc, a) ==
    /\ rpc[r] = "idle"
    /\ rpc' = [rpc EXCEPT ![r] = pc]
    /\ rasset' = [rasset EXCEPT ![r] = a]
    /\ UNCHANGED rtodo

End(r) ==
    /\ rpc' = [rpc EXCEPT ![r] = "idle"]
    /\ rasset' = [rasset EXCEPT ![r] = None]
    /\ rtodo' = [rtodo EXCEPT ![r] = {}]

\* driver.Save on the primary: a temporary file, then a rename.
SaveFile(a) ==
    /\ file[a] < MaxVersion
    /\ file' = [file EXCEPT ![a] = @ + 1]
    /\ onDisk' = onDisk \cup {a}

RemoveFile(a) == onDisk' = onDisk \ {a} /\ UNCHANGED file

\* DELETE FROM assets, with ON DELETE CASCADE to asset_replicas.
RemoveRow(a) ==
    /\ row' = [row EXCEPT ![a] = "deleted"]
    /\ replica' = [replica EXCEPT ![a] = "none"]

Fault == faults < MaxFaults /\ faults' = faults + 1 /\ UNCHANGED <<toggles, stops>>

\* storeUploadFile: the file is saved, then the row is created, then its
\* attributes; a failure undoes what went before.
UploadSave(r, a) ==
    /\ row[a] = "absent" /\ file[a] = 0
    /\ Begin(r, "up_row", a)
    /\ SaveFile(a)
    /\ UNCHANGED <<row, replica, jobs, remote, enabled, worker, bounds, dropped>>

UploadCreateRow(r) ==
    /\ rpc[r] = "up_row"
    /\ row' = [row EXCEPT ![rasset[r]] = "live"]
    /\ Goto(r, "up_attrs")
    /\ UNCHANGED <<file, onDisk, replica, jobs, remote, enabled, worker, bounds, dropped>>

\* ReplaceAssetAttributes fails: the row and the file are removed again.  A
\* put queued meanwhile loses the row it needs to be undone.
UploadRollback(r) ==
    /\ rpc[r] = "up_attrs"
    /\ Fault
    /\ RemoveRow(rasset[r])
    /\ RemoveFile(rasset[r])
    /\ dropped' = dropped \cup {rasset[r]}
    /\ End(r)
    /\ UNCHANGED <<jobs, remote, enabled, worker>>

\* ReplaceContent: the asset is read, the file is saved under the same key,
\* the row is updated and read again.
ReplaceGet(r, a) ==
    /\ row[a] = "live"
    /\ Begin(r, "rp_save", a)
    /\ UNCHANGED <<store, enabled, worker, bounds, dropped>>

ReplaceSave(r) ==
    /\ rpc[r] = "rp_save"
    /\ SaveFile(rasset[r])
    /\ Goto(r, "rp_read")
    /\ UNCHANGED <<row, replica, jobs, remote, enabled, worker, bounds, dropped>>

\* The body is refused, or cannot be stored: nothing has changed yet.
ReplaceReject(r) ==
    /\ rpc[r] = "rp_save"
    /\ End(r)
    /\ UNCHANGED <<store, enabled, worker, bounds, dropped>>

ReplaceRead(r) ==
    /\ rpc[r] = "rp_read"
    /\ \/ row[rasset[r]] = "live" /\ Goto(r, "rp_settings")
       \/ row[rasset[r]] # "live" /\ End(r)
    /\ UNCHANGED <<store, enabled, worker, bounds, dropped>>

\* EnqueueAsset reads the settings (after an upload has written its
\* attributes, colors and visual asset): nothing is queued while backups are
\* off.
EnqueueAssetSettings(r) ==
    \/ /\ enabled
       /\ \/ rpc[r] = "up_attrs" /\ Goto(r, "up_enqueue")
          \/ rpc[r] = "rp_settings" /\ Goto(r, "rp_enqueue")
       /\ UNCHANGED <<store, enabled, worker, bounds, dropped>>
    \/ /\ ~enabled
       /\ rpc[r] \in {"up_attrs", "rp_settings"}
       /\ dropped' = dropped \cup {rasset[r]}
       /\ End(r)
       /\ UNCHANGED <<store, enabled, worker, bounds>>

EnqueueAsset(r) ==
    /\ rpc[r] \in {"up_enqueue", "rp_enqueue"}
    /\ EnqueuePut(rasset[r])
    /\ End(r)
    /\ UNCHANGED <<row, file, onDisk, remote, enabled, worker, bounds>>

\* Delete: the remote deletion is queued first, then the row goes, then the
\* file (whose removal may fail: the error is ignored).
DeleteGet(r, a) ==
    /\ row[a] = "live"
    /\ Begin(r, "dl_settings", a)
    /\ UNCHANGED <<store, enabled, worker, bounds, dropped>>

\* Delete ignores the error of EnqueueDelete: when the settings cannot be read
\* the row goes without a deletion, as it does when backups are off.
DeleteSettings(r) ==
    /\ rpc[r] = "dl_settings"
    /\ \/ enabled /\ Goto(r, "dl_enqueue") /\ UNCHANGED <<bounds, dropped>>
       \/ /\ (~enabled /\ UNCHANGED bounds) \/ Fault
          /\ Goto(r, "dl_row")
          /\ dropped' = dropped \cup {rasset[r]}
    /\ UNCHANGED <<store, enabled, worker>>

\* The same when the transaction fails: it rolls back, and the row goes.
DeleteEnqueue(r) ==
    /\ rpc[r] = "dl_enqueue"
    /\ \/ EnqueueDelete(rasset[r]) /\ UNCHANGED bounds
       \/ /\ Fault
          /\ dropped' = dropped \cup {rasset[r]}
          /\ UNCHANGED <<jobs, replica>>
    /\ Goto(r, "dl_row")
    /\ UNCHANGED <<row, file, onDisk, remote, enabled, worker>>

DeleteRow(r) ==
    /\ rpc[r] = "dl_row"
    /\ \/ /\ row[rasset[r]] = "live"
          /\ RemoveRow(rasset[r])
          /\ Goto(r, "dl_file")
       \/ /\ row[rasset[r]] # "live"
          /\ End(r)
          /\ UNCHANGED <<row, replica>>
    /\ UNCHANGED <<file, onDisk, jobs, remote, enabled, worker, bounds, dropped>>

DeleteFile(r) ==
    /\ rpc[r] = "dl_file"
    /\ \/ RemoveFile(rasset[r]) /\ UNCHANGED bounds
       \/ Fault /\ UNCHANGED <<file, onDisk>>
    /\ End(r)
    /\ UNCHANGED <<row, replica, jobs, remote, enabled, worker, dropped>>

\* BackupNow: the ids are read once, then queued one transaction each; the
\* first error ends it.
BackupNowSettings(r) ==
    /\ enabled
    /\ Begin(r, "bn_list", None)
    /\ UNCHANGED <<store, enabled, worker, bounds, dropped>>

BackupNowList(r) ==
    /\ rpc[r] = "bn_list"
    /\ rtodo' = [rtodo EXCEPT ![r] = {a \in Assets : row[a] = "live"}]
    /\ rpc' = [rpc EXCEPT ![r] = "bn_enqueue"]
    /\ UNCHANGED <<store, enabled, rasset, worker, bounds, dropped>>

BackupNowEnqueue(r) ==
    /\ rpc[r] = "bn_enqueue"
    /\ \/ rtodo[r] = {} /\ End(r) /\ UNCHANGED <<jobs, replica, dropped>>
       \/ \E a \in rtodo[r] :
            \/ /\ CommitPut(a)
               /\ rtodo' = [rtodo EXCEPT ![r] = @ \ {a}]
               /\ UNCHANGED <<rpc, rasset>>
            \/ RollbackPut(a) /\ End(r)
    /\ UNCHANGED <<row, file, onDisk, remote, enabled, worker, bounds>>

SetEnabled ==
    /\ toggles < MaxToggles
    /\ toggles' = toggles + 1
    /\ enabled' = ~enabled
    /\ UNCHANGED <<store, requests, worker, faults, stops, dropped>>

-----------------------------------------------------------------------------
(* The worker goroutine.  Its select serves the wake channel, the ticker   *)
(* of the jobs and the ticker of the reconciliation: an idle worker can    *)
(* take either turn at any time, so the wake channel adds no behaviour.    *)

Work(pc) == wpc' = pc /\ UNCHANGED <<batch, job, opened, wtodo>>

ReconcileSettings ==
    /\ wpc \in {"reconcile", "idle"}
    /\ \/ Work(IF enabled THEN "rec_scan" ELSE "idle") /\ UNCHANGED bounds
       \/ Fault /\ Work("idle")
    /\ UNCHANGED <<store, enabled, requests, dropped>>

\* Slip: an inner join, which leaves out assets without a replica row.
ReconcileScanJoined ==
    /\ wpc = "rec_scan"
    /\ wpc' = "rec_enqueue"
    /\ wtodo' = {a \in Assets : row[a] = "live" /\ replica[a] \in {"pending", "failed"}}
    /\ UNCHANGED <<store, enabled, requests, batch, job, opened, bounds, dropped>>

ReconcileScan ==
    /\ wpc = "rec_scan"
    /\ \/ /\ wpc' = "rec_enqueue"
          /\ wtodo' = {a \in Assets : row[a] = "live" /\ replica[a] # "synced"}
          /\ UNCHANGED <<batch, job, opened, bounds>>
       \/ Fault /\ Work("idle")
    /\ UNCHANGED <<store, enabled, requests, dropped>>

\* An asset that cannot be queued is logged, and the next one is tried.
ReconcileEnqueue ==
    /\ wpc = "rec_enqueue"
    /\ \/ /\ wtodo = {}
          /\ Work("idle")
          /\ UNCHANGED <<jobs, replica, bounds, dropped>>
       \/ \E a \in wtodo :
            /\ \/ EnqueuePutIfNone(a) /\ UNCHANGED bounds
               \/ Fault /\ UNCHANGED <<jobs, replica, dropped>>
            /\ wtodo' = wtodo \ {a}
            /\ UNCHANGED <<wpc, batch, job, opened>>
    /\ UNCHANGED <<row, file, onDisk, remote, enabled, requests>>

\* processJobs copies the jobs that are due (the code's limit of 10 and its
\* order by run_after are left out: any order is allowed).  A failed read
\* leaves the worker idle.
ProcessJobs ==
    /\ wpc = "idle"
    /\ wpc' = "next"
    /\ batch' = {j \in jobs : j.due}
    /\ UNCHANGED <<store, enabled, requests, job, opened, wtodo, bounds, dropped>>

\* Slip: a started job stays in the batch.
NextJobKept ==
    /\ wpc = "next"
    /\ \/ batch = {} /\ Work("idle")
       \/ \E j \in batch :
            /\ job' = j
            /\ wpc' = "settings"
            /\ UNCHANGED <<batch, opened, wtodo>>
    /\ UNCHANGED <<store, enabled, requests, bounds, dropped>>

NextJob ==
    /\ wpc = "next"
    /\ \/ batch = {} /\ Work("idle")
       \/ \E j \in batch :
            /\ job' = j
            /\ batch' = batch \ {j}
            /\ wpc' = "settings"
            /\ UNCHANGED <<opened, wtodo>>
    /\ UNCHANGED <<store, enabled, requests, bounds, dropped>>

JobRow == {j \in jobs : j.asset = job.asset /\ j.id = job.id}

\* Slip: DELETE FROM storage_jobs WHERE asset_id = ?
RemoveAssetJobs == jobs' = jobs \ JobsOf(job.asset) /\ UNCHANGED bounds

\* DELETE FROM storage_jobs WHERE id = ?  Its error is ignored.
RemoveJobRow ==
    \/ jobs' = jobs \ JobRow /\ UNCHANGED bounds
    \/ Fault /\ UNCHANGED jobs

JobDone(pc) ==
    /\ wpc' = pc
    /\ job' = None
    /\ opened' = 0
    /\ UNCHANGED <<batch, wtodo>>

\* processJob throws the job away when backups are off; otherwise it needs
\* a connection.
JobSettings ==
    /\ wpc = "settings"
    /\ ~enabled
    /\ RemoveJobRow
    /\ dropped' = IF jobs' = jobs THEN dropped ELSE dropped \cup {job.asset}
    /\ JobDone("next")
    /\ UNCHANGED <<row, file, onDisk, replica, remote, enabled, requests>>

JobDial ==
    /\ wpc = "settings"
    /\ \/ /\ enabled
          /\ Work(IF job.action = "put" THEN "read_row" ELSE "del_remote")
          /\ UNCHANGED bounds
       \/ Fault /\ Work("fail_job")
    /\ UNCHANGED <<store, enabled, requests, dropped>>

\* A call that fails may have taken effect before its answer was lost.  One
\* that outlasts the ten minutes of the job leaves no time to record anything:
\* the statements that follow fail, and the row stays due as it is.
Fails == Fault /\ (Work("fail_job") \/ JobDone("next"))

DeleteRemote ==
    /\ wpc = "del_remote"
    /\ \/ /\ remote' = [remote EXCEPT ![job.asset] = 0]
          /\ Work("del_replica") /\ UNCHANGED bounds
       \/ /\ remote' \in {remote, [remote EXCEPT ![job.asset] = 0]}
          /\ Fails
    /\ UNCHANGED <<row, file, onDisk, replica, jobs, enabled, requests, dropped>>

DeleteReplica ==
    /\ wpc = "del_replica"
    /\ \/ /\ replica' = [replica EXCEPT ![job.asset] = "none"]
          /\ UNCHANGED <<bounds, dropped>>
       \/ /\ Fault /\ UNCHANGED replica
          /\ dropped' = dropped \cup {job.asset}
    /\ Work("finish")
    /\ UNCHANGED <<row, file, onDisk, jobs, remote, enabled, requests>>

ReadRow ==
    /\ wpc = "read_row"
    /\ \/ row[job.asset] = "live" /\ Work("open") /\ UNCHANGED <<jobs, bounds>>
       \/ row[job.asset] # "live" /\ RemoveJobRow /\ JobDone("next")
       \/ Fault /\ Work("fail_job") /\ UNCHANGED jobs
    /\ UNCHANGED <<row, file, onDisk, replica, remote, enabled, requests, dropped>>

\* Slip: the worker reads through a cache that replacements do not clear.
OpenCachedFile ==
    /\ wpc = "open"
    /\ \/ /\ job.asset \in onDisk
          /\ opened' \in 1 .. file[job.asset]
          /\ wpc' = "copy"
          /\ UNCHANGED <<batch, job, wtodo>>
       \/ job.asset \notin onDisk /\ Work("fail_job")
    /\ UNCHANGED <<store, enabled, requests, bounds, dropped>>

\* The open file stays what it is when a later save renames over it.
OpenFile ==
    /\ wpc = "open"
    /\ \/ /\ job.asset \in onDisk
          /\ opened' = file[job.asset]
          /\ wpc' = "copy"
          /\ UNCHANGED <<batch, job, wtodo>>
       \/ job.asset \notin onDisk /\ Work("fail_job")
    /\ UNCHANGED <<store, enabled, requests, bounds, dropped>>

\* SFTP.Save renames a complete temporary file over the remote key.  When
\* it fails the key holds what it held, the new content (the answer was
\* lost, or came late) or nothing (removed for a plain rename that failed).
SaveRemote ==
    /\ wpc = "copy"
    /\ \/ /\ remote' = [remote EXCEPT ![job.asset] = opened]
          /\ Work("mark") /\ UNCHANGED bounds
       \/ /\ \E v \in {remote[job.asset], opened, 0} :
               remote' = [remote EXCEPT ![job.asset] = v]
          /\ Fails
    /\ UNCHANGED <<row, file, onDisk, replica, jobs, enabled, requests, dropped>>

\* UPDATE asset_replicas: no row is touched when there is none.
SetReplica(a, status) ==
    replica' = [replica EXCEPT ![a] = IF @ = "none" THEN @ ELSE status]

MarkSynced ==
    /\ wpc = "mark"
    /\ \/ SetReplica(job.asset, "synced") /\ UNCHANGED bounds
       \/ Fault /\ UNCHANGED replica
    /\ Work("finish")
    /\ UNCHANGED <<row, file, onDisk, jobs, remote, enabled, requests, dropped>>

FinishJob ==
    /\ wpc = "finish"
    /\ RemoveJobRow
    /\ JobDone("next")
    /\ UNCHANGED <<row, file, onDisk, replica, remote, enabled, requests, dropped>>

\* Slip: a job that fails is not tried again.
FailJobGivesUp ==
    /\ wpc = "fail_job"
    /\ jobs' = jobs \ JobRow
    /\ IF job.action = "put" THEN Work("fail_replica") ELSE JobDone("next")
    /\ UNCHANGED <<row, file, onDisk, replica, remote, enabled, requests, bounds, dropped>>

\* failJob: the row (if it is still there) waits for its backoff, and a put
\* marks the replica.
FailJob ==
    /\ wpc = "fail_job"
    /\ \/ /\ jobs' = (jobs \ JobRow) \cup {[j EXCEPT !.due = FALSE] : j \in JobRow}
          /\ UNCHANGED bounds
       \/ Fault /\ UNCHANGED jobs
    /\ IF job.action = "put" THEN Work("fail_replica") ELSE JobDone("next")
    /\ UNCHANGED <<row, file, onDisk, replica, remote, enabled, requests, dropped>>

FailReplica ==
    /\ wpc = "fail_replica"
    /\ \/ SetReplica(job.asset, "failed") /\ UNCHANGED bounds
       \/ Fault /\ UNCHANGED replica
    /\ JobDone("next")
    /\ UNCHANGED <<row, file, onDisk, jobs, remote, enabled, requests, dropped>>

\* The clock passes a job's run_after.
BackoffEnds(a) ==
    /\ \E j \in JobsOf(a) :
         /\ ~j.due
         /\ jobs' = (jobs \ {j}) \cup {[j EXCEPT !.due = TRUE]}
    /\ UNCHANGED <<row, file, onDisk, replica, remote, enabled, requests, worker, bounds, dropped>>

-----------------------------------------------------------------------------
(* Interruptions.                                                          *)

Stop == stops < MaxStops /\ stops' = stops + 1 /\ UNCHANGED <<toggles, faults>>

\* The request ends before its next statement.  A replacement has saved its
\* file and queues nothing for it.
GiveUp(r) ==
    /\ End(r)
    /\ dropped' = IF rpc[r] \in ReplacePCs THEN dropped \cup {rasset[r]} ELSE dropped
    /\ UNCHANGED <<row, replica, jobs, remote, enabled, worker>>

\* A statement fails and the request ends with the error, or without it when
\* it was EnqueueAsset.  An upload without a row takes its file back.
StatementFails(r) ==
    /\ Fault
    /\ rpc[r] \notin {"idle", "rp_save", "dl_settings", "dl_enqueue", "dl_file"}
    /\ GiveUp(r)
    /\ IF rpc[r] = "up_row" THEN RemoveFile(rasset[r]) ELSE UNCHANGED <<file, onDisk>>

\* The client goes away: the request's context is cancelled, so its next SQL
\* statement fails, and the ones after it (file operations do not look at the
\* context).  An upload undoes what it can: the file always goes, the row
\* cannot be removed.
Disconnect(r) ==
    /\ Stop
    /\ rpc[r] \notin {"idle", "rp_save", "dl_file"}
    /\ GiveUp(r)
    /\ \/ rpc[r] \in {"up_row", "up_attrs"} /\ RemoveFile(rasset[r])
       \/ rpc[r] # "up_row" /\ UNCHANGED <<file, onDisk>>

\* The process dies and starts again: the tables and the files stay.
Crash ==
    /\ Stop
    /\ rpc' = [r \in Requests |-> "idle"]
    /\ rasset' = [r \in Requests |-> None]
    /\ rtodo' = [r \in Requests |-> {}]
    /\ wpc' = "reconcile"
    /\ batch' = {} /\ job' = None /\ opened' = 0 /\ wtodo' = {}
    /\ dropped' = dropped \cup {rasset[r] : r \in {q \in Requests : rpc[q] \in ReplacePCs}}
    /\ UNCHANGED <<store, enabled>>

-----------------------------------------------------------------------------
(* Specification.                                                          *)

Handler(r) ==
    \/ UploadCreateRow(r) \/ UploadRollback(r)
    \/ ReplaceSave(r) \/ ReplaceReject(r) \/ ReplaceRead(r)
    \/ EnqueueAssetSettings(r) \/ EnqueueAsset(r)
    \/ DeleteSettings(r) \/ DeleteEnqueue(r) \/ DeleteRow(r) \/ DeleteFile(r)
    \/ BackupNowList(r) \/ BackupNowEnqueue(r)

Reconcile == ReconcileSettings \/ ReconcileScan \/ ReconcileEnqueue

ProcessJob ==
    \/ NextJob \/ JobSettings \/ JobDial
    \/ DeleteRemote \/ DeleteReplica
    \/ ReadRow \/ OpenFile \/ SaveRemote \/ MarkSynced
    \/ FinishJob \/ FailJob \/ FailReplica

Next ==
    \/ \E r \in Requests :
         \/ \E a \in Assets : UploadSave(r, a) \/ ReplaceGet(r, a) \/ DeleteGet(r, a)
         \/ BackupNowSettings(r)
         \/ Handler(r)
         \/ StatementFails(r) \/ Disconnect(r)
    \/ SetEnabled
    \/ Reconcile
    \/ ProcessJobs
    \/ ProcessJob
    \/ \E a \in Assets : BackoffEnds(a)
    \/ Crash

Spec == Init /\ [][Next]_vars

(* Handlers and the worker never wait for one another, so each goes on.    *)
(* An idle worker takes every tick in the end: the tickers' channels keep  *)
(* one tick and select picks at random among the channels that are ready.  *)
(* A backoff ends because the clock moves.  Nothing is assumed of clients, *)
(* of SetSettings, of failures or of crashes.                              *)
Fairness ==
    /\ \A r \in Requests : WF_vars(Handler(r))
    /\ WF_vars(ProcessJob) /\ WF_vars(Reconcile)
    /\ SF_vars(ProcessJobs) /\ SF_vars(ReconcileSettings)
    /\ \A a \in Assets : WF_vars(BackoffEnds(a))

FairSpec == Spec /\ Fairness

-----------------------------------------------------------------------------
(* Safety.                                                                 *)

HandlerAt(a, pcs) == \E r \in Requests : rasset[r] = a /\ rpc[r] \in pcs

(* Status counts a replica as synced.  Whatever the interleaving of        *)
(* replacements, deletions, BackupNow, failed transfers and crashes, a     *)
(* live asset whose replica says "synced" over an older (or no) remote     *)
(* copy still has work queued, or a replacement that is about to queue it, *)
(* or its work was lost: backups were off, the replacement was cut short   *)
(* (or could not queue) after it saved the file, or the row of a removed   *)
(* copy could not be deleted.                                              *)
SyncedIsCurrent ==
    \A a \in Assets :
        row[a] = "live" /\ replica[a] = "synced" /\ remote[a] # file[a] =>
            \/ JobsOf(a) # {}
            \/ HandlerAt(a, ReplacePCs)
            \/ a \in dropped

(* A remote copy that outlives its asset is one whose deletion is still    *)
(* queued, unless the deletion was lost: backups were off, it could not be *)
(* queued (Delete ignores the error and removes the row all the same), or  *)
(* a put was queued between the two steps of Delete.                       *)
OrphanHasDelete ==
    \A a \in Assets :
        row[a] = "deleted" /\ remote[a] # 0 =>
            \/ \E j \in JobsOf(a) : j.action = "delete"
            \/ a \in dropped

(* "Deletes remove the remote copy" (BACKUP_WORKFLOWS.md): once nothing is *)
(* queued or under way for a deleted asset, its copy is gone.              *)
DeletesRemoveTheCopy ==
    \A a \in Assets :
        /\ row[a] = "deleted"
        /\ JobsOf(a) = {} /\ (job = None \/ job.asset # a)
        /\ ~HandlerAt(a, RequestPC)
        => remote[a] = 0

(* A put that runs late never brings back an older version: the copy at    *)
(* the destination only moves forward, or disappears.                      *)
RemoteNeverRegresses ==
    [][\A a \in Assets : remote'[a] = 0 \/ remote'[a] >= remote[a]]_remote

-----------------------------------------------------------------------------
(* Liveness, once backups stay on.                                         *)

Mirrored(a) == a \in onDisk => remote[a] = file[a]

(* A new version of a live asset reaches the destination, whatever fails   *)
(* on the way, unless its work was discarded.                              *)
ReplacementsAreCopied ==
    <>[]enabled =>
        \A a \in Assets :
            (row[a] = "live") ~> (row[a] = "deleted" \/ Mirrored(a) \/ a \in dropped)

(* Reconciliation gives every live asset a synced replica in the end, also *)
(* when the put that should have done it was never queued, was discarded   *)
(* or was overtaken by a deletion that did not go through.                 *)
ReconcileRepairs ==
    <>[]enabled =>
        \A a \in Assets :
            (row[a] = "live") ~>
                (row[a] = "deleted" \/ replica[a] = "synced" \/ a \notin onDisk)

(* The copy of a deleted asset leaves the destination, whatever fails on   *)
(* the way, unless its deletion was discarded or could not be queued.      *)
DeletionsAreMirrored ==
    <>[]enabled =>
        \A a \in Assets :
            (row[a] = "deleted") ~> [](remote[a] = 0 \/ a \in dropped)
=============================================================================
