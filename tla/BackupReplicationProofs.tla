----------------------- MODULE BackupReplicationProofs -----------------------
(***************************************************************************)
(* Proofs about BackupReplication for any number of assets and requests    *)
(* and any bounds.  The safety properties are not inductive: IInv adds     *)
(* what the worker knows about the job it holds a copy of (HeldOK, CopyOK) *)
(* and what a Delete between its two steps may rely on (DeleteOK).         *)
(***************************************************************************)
EXTENDS BackupReplication, TLAPS

\* A handler past its first read works on an asset whose row has existed;
\* an upload that has no row yet is the only one for its asset.
HandlerOK ==
    \A r \in Requests :
        /\ rpc[r] \notin {"idle", "bn_list", "bn_enqueue"} => rasset[r] \in Assets
        /\ rpc[r] \notin {"idle", "bn_list", "bn_enqueue", "up_row"} =>
              row[rasset[r]] # "absent"
        /\ rpc[r] = "up_row" =>
              /\ row[rasset[r]] = "absent"
              /\ file[rasset[r]] # 0
              /\ \A q \in Requests :
                    rpc[q] = "up_row" /\ rasset[q] = rasset[r] => q = r

\* The worker has a job exactly while it processes one, of the right kind.
WorkerOK ==
    /\ (job = None) <=> (wpc \in {"reconcile", "rec_scan", "rec_enqueue", "idle", "next"})
    /\ wpc \in {"read_row", "open", "copy", "mark", "fail_replica"} => job.action = "put"
    /\ wpc \in {"del_remote", "del_replica"} => job.action = "delete"
    /\ wpc \in {"reconcile", "rec_scan", "rec_enqueue", "idle"} => batch = {}

\* The copies of jobs the worker holds: at most one for an asset, which has
\* a row in the queue (that one or one that replaced it).
HeldOK ==
    /\ \A j, k \in Held : j.asset = k.asset => j = k
    /\ job \notin batch
    /\ \A j \in Held : JobsOf(j.asset) # {}
    /\ \A j \in Held : \A k \in JobsOf(j.asset) : j.id = k.id => j.action = k.action

\* An asset without a row has nothing queued.
AbsentOK == \A a \in Assets : row[a] = "absent" => JobsOf(a) = {}

\* The job is past the point where its effect on the destination is complete.
PutDone    == wpc = "mark" \/ (wpc = "finish" /\ job.action = "put")
DeleteDone == wpc = "del_replica" \/ (wpc = "finish" /\ job.action = "delete")

Copying(a) == (wpc = "copy" \/ PutDone) /\ job.asset = a

\* What will correct, or excuses, a copy that is not the current version.
Overtaken(a) ==
    \/ \E k \in JobsOf(a) : k.id # job.id
    \/ HandlerAt(a, ReplacePCs)
    \/ a \in dropped

CopyOK ==
    /\ \A a \in Assets : row[a] # "live" => replica[a] = "none"
    /\ \A a \in Assets : remote[a] <= file[a]
    /\ wpc = "copy" =>
          remote[job.asset] <= opened /\ opened <= file[job.asset]
    /\ PutDone => remote[job.asset] = opened
    /\ DeleteDone => remote[job.asset] = 0
    /\ \A a \in Assets :
          DeleteDone /\ wpc = "finish" /\ job.asset = a /\ replica[a] = "synced" =>
              Overtaken(a)
    /\ \A a \in Assets :
          Copying(a) /\ row[a] = "live" /\ opened # file[a] => Overtaken(a)

\* A deleted asset, or one between the two steps of Delete: its deletion is
\* queued, or was discarded, or is complete.
HasDelete(a) == \E j \in JobsOf(a) : j.action = "delete"

DeleteOK ==
    \A a \in Assets :
        row[a] = "deleted" \/ DeleteUnderway(a) =>
            \/ HasDelete(a)
            \/ a \in dropped
            \/ remote[a] = 0 /\ JobsOf(a) = {}

IInv ==
    /\ TypeOK /\ HandlerOK /\ WorkerOK /\ HeldOK /\ AbsentOK /\ CopyOK /\ DeleteOK
    /\ SyncedIsCurrent

-----------------------------------------------------------------------------
(* The queue.                                                              *)

(* A new job carries an id that no job the worker holds carries.           *)
LEMMA NewJobOK ==
    ASSUME NEW a \in Assets, NEW act \in Actions, FreshIds # {}
    PROVE  /\ NewJob(a, act) \in Job
           /\ NewJob(a, act).asset = a
           /\ NewJob(a, act).action = act
           /\ \A j \in Held : j.id # NewJob(a, act).id
<1> DEFINE i == CHOOSE i \in FreshIds : TRUE
<1>1. i \in FreshIds
  OBVIOUS
<1>2. NewJob(a, act) = [id |-> i, asset |-> a, action |-> act, due |-> TRUE]
  BY DEF NewJob
<1> HIDE DEF i
<1> QED
  BY <1>1, <1>2 DEF FreshIds, Job

(* Queueing keeps one job for an asset.                                    *)
LEMMA EnqueueType ==
    ASSUME TypeOK, NEW a \in Assets,
           EnqueuePut(a) \/ EnqueuePutIfNone(a) \/ CommitPut(a) \/ RollbackPut(a)
              \/ EnqueueDelete(a)
    PROVE  /\ jobs' \subseteq Job
           /\ \A j, k \in jobs' : j.asset = k.asset => j = k
           /\ replica' \in [Assets -> {"none", "pending", "synced", "failed"}]
           /\ dropped' \subseteq Assets
<1>1. CASE CommitPut(a)
  <2>1. NewJob(a, "put") \in Job /\ NewJob(a, "put").asset = a
    BY <1>1, NewJobOK DEF CommitPut, Actions
  <2> QED
    BY <1>1, <2>1 DEF CommitPut, JobsOf, TypeOK
<1>2. CASE EnqueueDelete(a)
  <2>1. NewJob(a, "delete") \in Job /\ NewJob(a, "delete").asset = a
    BY <1>2, NewJobOK DEF EnqueueDelete, Actions
  <2> QED
    BY <1>2, <2>1 DEF EnqueueDelete, JobsOf, TypeOK
<1>3. CASE UNCHANGED <<jobs, replica, dropped>>
  BY <1>3 DEF TypeOK
<1> QED
  BY <1>1, <1>2, <1>3 DEF EnqueuePut, EnqueuePutIfNone, RollbackPut

(* A job that waits, or is due again, is the same job.                     *)
LEMMA SameJob ==
    ASSUME NEW j \in Job, NEW b \in BOOLEAN
    PROVE  /\ [j EXCEPT !.due = b] \in Job
           /\ [j EXCEPT !.due = b].id = j.id
           /\ [j EXCEPT !.due = b].asset = j.asset
           /\ [j EXCEPT !.due = b].action = j.action
  BY DEF Job

(* Every variable keeps its type, and the queue one job for an asset.      *)
LEMMA TypePreserved ==
    ASSUME ConstantsAssumption, TypeOK, HandlerOK, WorkerOK, [Next]_vars
    PROVE  TypeOK'
<1> USE DEF TypeOK
<1>1. ASSUME NEW r \in Requests, NEW a \in Assets, UploadSave(r, a)
     PROVE  TypeOK'
  BY <1>1 DEF UploadSave, Begin, SaveFile, worker, bounds, RequestPC,
  ReplacePCs, ConstantsAssumption
<1>2. ASSUME NEW r \in Requests, NEW a \in Assets, ReplaceGet(r, a)
     PROVE  TypeOK'
  BY <1>2 DEF ReplaceGet, Begin, store, worker, bounds, RequestPC, ReplacePCs
<1>3. ASSUME NEW r \in Requests, NEW a \in Assets, DeleteGet(r, a)
     PROVE  TypeOK'
  BY <1>3 DEF DeleteGet, Begin, store, worker, bounds, RequestPC, ReplacePCs
<1>4. ASSUME NEW r \in Requests, BackupNowSettings(r)
     PROVE  TypeOK'
  BY <1>4 DEF BackupNowSettings, Begin, store, worker, bounds, RequestPC,
  ReplacePCs, HandlerOK
<1>5. ASSUME NEW r \in Requests, UploadCreateRow(r)
     PROVE  TypeOK'
  BY <1>5 DEF UploadCreateRow, Goto, worker, bounds, RequestPC, ReplacePCs,
  HandlerOK
<1>6. ASSUME NEW r \in Requests, UploadRollback(r)
     PROVE  TypeOK'
  BY <1>6 DEF UploadRollback, Fault, RemoveRow, RemoveFile, End, worker,
  RequestPC, ReplacePCs, HandlerOK
<1>7. ASSUME NEW r \in Requests, ReplaceSave(r)
     PROVE  TypeOK'
  BY <1>7 DEF ReplaceSave, SaveFile, Goto, worker, bounds, RequestPC,
  ReplacePCs, HandlerOK
<1>8. ASSUME NEW r \in Requests, ReplaceReject(r)
     PROVE  TypeOK'
  BY <1>8 DEF ReplaceReject, End, store, worker, bounds, RequestPC,
  ReplacePCs, HandlerOK
<1>9. ASSUME NEW r \in Requests, ReplaceRead(r)
     PROVE  TypeOK'
  BY <1>9 DEF ReplaceRead, Goto, End, store, worker, bounds, RequestPC,
  ReplacePCs, HandlerOK
<1>10. ASSUME NEW r \in Requests, EnqueueAssetSettings(r)
     PROVE  TypeOK'
  BY <1>10 DEF EnqueueAssetSettings, Goto, store, worker, bounds, End,
  RequestPC, ReplacePCs, HandlerOK
<1>11. ASSUME NEW r \in Requests, EnqueueAsset(r)
     PROVE  TypeOK'
  BY <1>11, EnqueueType DEF EnqueueAsset, End, worker, bounds, RequestPC,
  ReplacePCs, HandlerOK
<1>12. ASSUME NEW r \in Requests, DeleteSettings(r)
     PROVE  TypeOK'
  BY <1>12 DEF DeleteSettings, Goto, store, worker, bounds, Fault, RequestPC,
  ReplacePCs, HandlerOK
<1>13. ASSUME NEW r \in Requests, DeleteEnqueue(r)
     PROVE  TypeOK'
  BY <1>13, EnqueueType DEF DeleteEnqueue, Goto, worker, bounds, Fault, RequestPC,
  ReplacePCs, HandlerOK
<1>14. ASSUME NEW r \in Requests, DeleteRow(r)
     PROVE  TypeOK'
  BY <1>14 DEF DeleteRow, RemoveRow, Goto, End, worker, bounds, RequestPC,
  ReplacePCs, HandlerOK
<1>15. ASSUME NEW r \in Requests, DeleteFile(r)
     PROVE  TypeOK'
  BY <1>15 DEF DeleteFile, RemoveFile, End, worker, bounds, Fault, RequestPC,
  ReplacePCs, HandlerOK
<1>16. ASSUME NEW r \in Requests, BackupNowList(r)
     PROVE  TypeOK'
  BY <1>16 DEF BackupNowList, store, worker, bounds, RequestPC, ReplacePCs,
  HandlerOK
<1>17. ASSUME NEW r \in Requests, BackupNowEnqueue(r)
     PROVE  TypeOK'
  BY <1>17, EnqueueType DEF BackupNowEnqueue, End, worker, bounds, RequestPC,
  ReplacePCs, HandlerOK
<1>18. ASSUME NEW r \in Requests, StatementFails(r) \/ Disconnect(r)
     PROVE  TypeOK'
  BY <1>18 DEF StatementFails, Disconnect, GiveUp, Stop, Fault, End,
  RemoveFile, worker, RequestPC, ReplacePCs, HandlerOK
<1>19. CASE SetEnabled
  BY <1>19 DEF SetEnabled, store, requests, worker
<1>20. CASE ReconcileSettings
  BY <1>20 DEF ReconcileSettings, Work, store, requests, bounds, Fault, WorkerPC
<1>21. CASE ReconcileScan
  BY <1>21 DEF ReconcileScan, Work, store, requests, bounds, Fault, WorkerPC
<1>22. CASE ReconcileEnqueue
  BY <1>22, EnqueueType DEF ReconcileEnqueue, Work, requests, bounds, Fault, WorkerPC
<1>23. CASE ProcessJobs
  BY <1>23 DEF ProcessJobs, store, requests, bounds, WorkerPC
<1>24. CASE NextJob
  BY <1>24 DEF NextJob, Work, store, requests, bounds, WorkerPC, WorkerOK, Job
<1>25. CASE JobSettings
  BY <1>25 DEF JobSettings, RemoveJobRow, JobRow, JobDone, requests, bounds,
  WorkerPC, WorkerOK, Job, Fault
<1>26. CASE JobDial
  BY <1>26 DEF JobDial, Work, bounds, Fault, store, requests, WorkerPC
<1>27. CASE DeleteRemote
  BY <1>27 DEF DeleteRemote, Work, bounds, Fault, requests, WorkerPC,
  WorkerOK, Job, Fails, JobDone
<1>28. CASE DeleteReplica
  BY <1>28 DEF DeleteReplica, Work, requests, bounds, WorkerPC, WorkerOK, Job,
  Fault
<1>29. CASE ReadRow
  BY <1>29 DEF ReadRow, Work, RemoveJobRow, JobRow, JobDone, requests, bounds,
  WorkerPC, WorkerOK, Job, Fault
<1>30. CASE OpenFile
  BY <1>30 DEF OpenFile, Work, store, requests, bounds, WorkerPC, WorkerOK,
  Job
<1>31. CASE SaveRemote
  BY <1>31 DEF SaveRemote, Work, bounds, Fault, requests, WorkerPC, WorkerOK,
  Job, Fails, JobDone
<1>32. CASE MarkSynced
  BY <1>32 DEF MarkSynced, SetReplica, Work, requests, bounds, WorkerPC,
  WorkerOK, Job, Fault
<1>33. CASE FinishJob
  BY <1>33 DEF FinishJob, RemoveJobRow, JobRow, JobDone, requests, bounds,
  WorkerPC, WorkerOK, Job, Fault
<1>34. CASE FailJob
  <2>1. job \in Job
    BY <1>34 DEF FailJob, WorkerOK
  <2> DEFINE Wait(j) == [j EXCEPT !.due = FALSE]
  <2>2. \A j \in JobRow : j \in jobs /\ Wait(j) \in Job /\ Wait(j).asset = job.asset
    BY SameJob DEF JobRow
  <2>3. jobs' = jobs \/ jobs' = (jobs \ JobRow) \cup {Wait(j) : j \in JobRow}
    BY <1>34 DEF FailJob
  <2>4. \A i, k \in JobRow : i = k
    BY DEF JobRow
  <2>5. \A k \in jobs \ JobRow : \A i \in JobRow : k.asset # job.asset
    BY DEF JobRow
  <2> HIDE DEF Wait
  <2>6. jobs' \subseteq Job
    BY <2>2, <2>3
  <2>7. \A j, k \in jobs' : j.asset = k.asset => j = k
    BY <2>2, <2>3, <2>4, <2>5
  <2> QED
    BY <1>34, <2>1, <2>6, <2>7
    DEF FailJob, Work, JobDone, requests, bounds, WorkerPC, Fault
<1>35. CASE FailReplica
  BY <1>35 DEF FailReplica, SetReplica, JobDone, requests, bounds, WorkerPC,
  WorkerOK, Job, Fault
<1>36. CASE Crash
  BY <1>36 DEF Crash, Stop, store, WorkerPC, RequestPC, ReplacePCs, HandlerOK,
  ConstantsAssumption
<1>37. ASSUME NEW a \in Assets, BackoffEnds(a)
     PROVE  TypeOK'
  <2>1. PICK j \in jobs : j.asset = a /\ jobs' = (jobs \ {j}) \cup {[j EXCEPT !.due = TRUE]}
    BY <1>37 DEF BackoffEnds, JobsOf
  <2>2. [j EXCEPT !.due = TRUE] \in Job /\ [j EXCEPT !.due = TRUE].asset = a
    BY <2>1, SameJob
  <2>3. /\ jobs' \subseteq Job
        /\ \A i, k \in jobs' : i.asset = k.asset => i = k
    BY <2>1, <2>2
  <2> QED
    BY <1>37, <2>3 DEF BackoffEnds, requests, worker, bounds
<1>38. CASE UNCHANGED vars
  BY <1>38 DEF vars, store, requests, worker, bounds
<1> QED
  BY <1>1, <1>2, <1>3, <1>4, <1>5, <1>6, <1>7, <1>8, <1>9, <1>10, <1>11,
  <1>12, <1>13, <1>14, <1>15, <1>16, <1>17, <1>18, <1>19, <1>20, <1>21, <1>22,
  <1>23, <1>24, <1>25, <1>26, <1>27, <1>28, <1>29, <1>30, <1>31, <1>32, <1>33,
  <1>34, <1>35, <1>36, <1>37, <1>38
  DEF Next, Handler, Reconcile, ProcessJob

-----------------------------------------------------------------------------
(* What the steps of one side leave alone.                                 *)

RequestStep(r) ==
    \/ \E a \in Assets : UploadSave(r, a) \/ ReplaceGet(r, a) \/ DeleteGet(r, a)
    \/ BackupNowSettings(r)
    \/ Handler(r)
    \/ StatementFails(r) \/ Disconnect(r)

WorkerStep ==
    Reconcile \/ ProcessJobs \/ ProcessJob \/ \E a \in Assets : BackoffEnds(a)

LEMMA Steps ==
    [Next]_vars <=>
        \/ \E r \in Requests : RequestStep(r)
        \/ SetEnabled \/ WorkerStep \/ Crash
        \/ UNCHANGED vars
  BY DEF Next, RequestStep, WorkerStep

(* The requests touch neither the worker nor the destination.              *)
LEMMA RequestFrame ==
    ASSUME NEW r \in Requests, RequestStep(r)
    PROVE  UNCHANGED <<worker, remote, enabled>>
  BY DEF RequestStep, Handler, UploadSave, worker, ReplaceGet, store,
  DeleteGet, BackupNowSettings, UploadCreateRow, UploadRollback, ReplaceSave,
  ReplaceReject, ReplaceRead, EnqueueAssetSettings, EnqueueAsset,
  DeleteSettings, DeleteEnqueue, DeleteRow, DeleteFile, BackupNowList,
  BackupNowEnqueue, StatementFails, Disconnect, GiveUp

(* The worker touches neither the requests, the rows nor the files.        *)
LEMMA WorkerFrame ==
    ASSUME WorkerStep
    PROVE  UNCHANGED <<row, file, onDisk, enabled, requests>>
  BY DEF WorkerStep, Reconcile, ProcessJob, ReconcileSettings, store,
  requests, ReconcileScan, ReconcileEnqueue, ProcessJobs, NextJob,
  JobSettings, JobDial, DeleteRemote, DeleteReplica, ReadRow, OpenFile,
  SaveRemote, MarkSynced, FinishJob, FailJob, FailReplica, BackoffEnds, worker

\* What a request step does to the rows and to the queue.
Effect(r) ==
    \/ UNCHANGED <<row, replica, jobs>> /\ dropped \subseteq dropped'
    \/ UNCHANGED <<row, file>> /\ \E a \in Assets : CommitPut(a)
    \/ /\ UNCHANGED <<row, file>>
       /\ \E a \in Assets : EnqueueDelete(a) /\ row[a] # "absent"
    \/ /\ row[rasset[r]] = "absent"
       /\ row' = [row EXCEPT ![rasset[r]] = "live"]
       /\ UNCHANGED <<file, replica, jobs, dropped>>
    \/ /\ row[rasset[r]] # "absent"
       /\ RemoveRow(rasset[r])
       /\ UNCHANGED <<file, jobs>> /\ dropped \subseteq dropped'
       /\ DeleteUnderway(rasset[r]) \/ rasset[r] \in dropped'

(* A request step has one of these effects.                                *)
LEMMA RequestEffect ==
    ASSUME TypeOK, HandlerOK, NEW r \in Requests, RequestStep(r)
    PROVE  Effect(r)
<1> USE DEF Effect
<1>1. ASSUME NEW a \in Assets, UploadSave(r, a)
     PROVE  Effect(r)
  BY <1>1 DEF UploadSave, Begin, SaveFile, worker, bounds
<1>2. ASSUME NEW a \in Assets, ReplaceGet(r, a)
     PROVE  Effect(r)
  BY <1>2 DEF ReplaceGet, Begin, store, worker, bounds
<1>3. ASSUME NEW a \in Assets, DeleteGet(r, a)
     PROVE  Effect(r)
  BY <1>3 DEF DeleteGet, Begin, store, worker, bounds
<1>4. CASE BackupNowSettings(r)
  BY <1>4 DEF BackupNowSettings, Begin, store, worker, bounds, HandlerOK
<1>5. CASE UploadCreateRow(r)
  BY <1>5 DEF UploadCreateRow, Goto, worker, bounds, HandlerOK
<1>6. CASE UploadRollback(r)
  BY <1>6 DEF UploadRollback, Fault, RemoveFile, End, worker,
  HandlerOK
<1>7. CASE ReplaceSave(r)
  BY <1>7 DEF ReplaceSave, SaveFile, Goto, worker, bounds, HandlerOK
<1>8. CASE ReplaceReject(r)
  BY <1>8 DEF ReplaceReject, End, store, worker, bounds, HandlerOK
<1>9. CASE ReplaceRead(r)
  BY <1>9 DEF ReplaceRead, Goto, End, store, worker, bounds, HandlerOK
<1>10. CASE EnqueueAssetSettings(r)
  BY <1>10 DEF EnqueueAssetSettings, Goto, store, worker, bounds, End,
  HandlerOK
<1>11. CASE EnqueueAsset(r)
  BY <1>11 DEF EnqueueAsset, EnqueuePut, RollbackPut, End, worker, bounds,
  HandlerOK
<1>12. CASE DeleteSettings(r)
  BY <1>12 DEF DeleteSettings, Goto, store, worker, bounds, Fault, HandlerOK
<1>13. CASE DeleteEnqueue(r)
  BY <1>13 DEF DeleteEnqueue, Goto, worker, bounds, Fault, HandlerOK
<1>14. CASE DeleteRow(r)
  BY <1>14 DEF DeleteRow, DeleteUnderway, Goto, End, worker, bounds, HandlerOK
<1>15. CASE DeleteFile(r)
  BY <1>15 DEF DeleteFile, RemoveFile, End, worker, bounds, Fault, HandlerOK
<1>16. CASE BackupNowList(r)
  BY <1>16 DEF BackupNowList, store, worker, bounds, HandlerOK
<1>17. CASE BackupNowEnqueue(r)
  BY <1>17 DEF BackupNowEnqueue, End, RollbackPut, worker, bounds, HandlerOK,
  TypeOK
<1>18. CASE StatementFails(r) \/ Disconnect(r)
  BY <1>18 DEF StatementFails, Disconnect, GiveUp, Stop, End, RemoveFile,
  ReplacePCs, worker, HandlerOK
<1> QED
  BY <1>1, <1>2, <1>3, <1>4, <1>5, <1>6, <1>7, <1>8, <1>9, <1>10, <1>11,
  <1>12, <1>13, <1>14, <1>15, <1>16, <1>17, <1>18
  DEF RequestStep, Handler

(* Handlers work on assets whose row exists or existed, and one upload on  *)
(* an asset that has none yet.                                             *)
LEMMA HandlerPreserved ==
    ASSUME TypeOK, HandlerOK, [Next]_vars
    PROVE  HandlerOK'
<1> USE DEF HandlerOK
<1>1. ASSUME NEW r \in Requests, NEW a \in Assets, UploadSave(r, a)
     PROVE  HandlerOK'
  BY <1>1 DEF UploadSave, Begin, SaveFile, TypeOK
<1>2. ASSUME NEW r \in Requests, NEW a \in Assets, ReplaceGet(r, a)
     PROVE  HandlerOK'
  BY <1>2 DEF ReplaceGet, store, Begin, TypeOK
<1>3. ASSUME NEW r \in Requests, NEW a \in Assets, DeleteGet(r, a)
     PROVE  HandlerOK'
  BY <1>3 DEF DeleteGet, store, Begin, TypeOK
<1>4. ASSUME NEW r \in Requests, BackupNowSettings(r)
     PROVE  HandlerOK'
  BY <1>4 DEF BackupNowSettings, store, Begin, TypeOK
<1>5. ASSUME NEW r \in Requests, UploadCreateRow(r)
     PROVE  HandlerOK'
  BY <1>5 DEF UploadCreateRow, Goto, TypeOK
<1>6. ASSUME NEW r \in Requests, UploadRollback(r)
     PROVE  HandlerOK'
  BY <1>6 DEF UploadRollback, RemoveRow, RemoveFile, End, TypeOK
<1>7. ASSUME NEW r \in Requests, ReplaceSave(r)
     PROVE  HandlerOK'
  BY <1>7 DEF ReplaceSave, SaveFile, Goto, TypeOK
<1>8. ASSUME NEW r \in Requests, ReplaceReject(r)
     PROVE  HandlerOK'
  BY <1>8 DEF ReplaceReject, store, End, TypeOK
<1>9. ASSUME NEW r \in Requests, ReplaceRead(r)
     PROVE  HandlerOK'
  BY <1>9 DEF ReplaceRead, store, Goto, End, TypeOK
<1>10. ASSUME NEW r \in Requests, EnqueueAssetSettings(r)
     PROVE  HandlerOK'
  BY <1>10 DEF EnqueueAssetSettings, store, Goto, End, TypeOK
<1>11. ASSUME NEW r \in Requests, EnqueueAsset(r)
     PROVE  HandlerOK'
  BY <1>11 DEF EnqueueAsset, End, TypeOK
<1>12. ASSUME NEW r \in Requests, DeleteSettings(r)
     PROVE  HandlerOK'
  BY <1>12 DEF DeleteSettings, store, Goto, TypeOK
<1>13. ASSUME NEW r \in Requests, DeleteEnqueue(r)
     PROVE  HandlerOK'
  BY <1>13 DEF DeleteEnqueue, Goto, TypeOK
<1>14. ASSUME NEW r \in Requests, DeleteRow(r)
     PROVE  HandlerOK'
  BY <1>14 DEF DeleteRow, RemoveRow, Goto, End, TypeOK
<1>15. ASSUME NEW r \in Requests, DeleteFile(r)
     PROVE  HandlerOK'
  BY <1>15 DEF DeleteFile, RemoveFile, End, TypeOK
<1>16. ASSUME NEW r \in Requests, BackupNowList(r)
     PROVE  HandlerOK'
  BY <1>16 DEF BackupNowList, store, TypeOK
<1>17. ASSUME NEW r \in Requests, BackupNowEnqueue(r)
     PROVE  HandlerOK'
  BY <1>17 DEF BackupNowEnqueue, End, TypeOK
<1>18. ASSUME NEW r \in Requests, StatementFails(r) \/ Disconnect(r)
     PROVE  HandlerOK'
  BY <1>18 DEF StatementFails, Disconnect, GiveUp, End, RemoveFile, ReplacePCs, TypeOK
<1>19. CASE WorkerStep
  BY <1>19, WorkerFrame DEF requests
<1>20. CASE SetEnabled \/ UNCHANGED vars
  BY <1>20 DEF SetEnabled, vars, store, requests
<1>21. CASE Crash
  BY <1>21 DEF Crash, store
<1> QED
  BY Steps, <1>1, <1>2, <1>3, <1>4, <1>5, <1>6, <1>7, <1>8, <1>9, <1>10,
  <1>11, <1>12, <1>13, <1>14, <1>15, <1>16, <1>17, <1>18, <1>19, <1>20, <1>21
  DEF RequestStep, Handler

(* The worker has a job exactly while it processes one.                    *)
LEMMA WorkerPreserved ==
    ASSUME ConstantsAssumption, TypeOK, WorkerOK, [Next]_vars
    PROVE  WorkerOK'
<1> USE DEF WorkerOK
<1>1. CASE ReconcileSettings
  BY <1>1 DEF ReconcileSettings, Work, store
<1>2. CASE ReconcileScan
  BY <1>2 DEF ReconcileScan, Work, store
<1>3. CASE ReconcileEnqueue
  BY <1>3 DEF ReconcileEnqueue, Work
<1>4. CASE ProcessJobs
  BY <1>4 DEF ProcessJobs, store
<1>5. CASE NextJob
  BY <1>5 DEF NextJob, Work, store, TypeOK, ConstantsAssumption, Actions, Job
<1>6. CASE JobSettings
  BY <1>6 DEF JobSettings, JobDone
<1>7. CASE JobDial
  BY <1>7 DEF JobDial, Work, store, TypeOK, ConstantsAssumption, Actions, Job
<1>8. CASE DeleteRemote
  BY <1>8 DEF DeleteRemote, Work, Fails, Fault, JobDone
<1>9. CASE DeleteReplica
  BY <1>9 DEF DeleteReplica, Work
<1>10. CASE ReadRow
  BY <1>10 DEF ReadRow, Work, JobDone
<1>11. CASE OpenFile
  BY <1>11 DEF OpenFile, Work, store
<1>12. CASE SaveRemote
  BY <1>12 DEF SaveRemote, Work, Fails, Fault, JobDone
<1>13. CASE MarkSynced
  BY <1>13 DEF MarkSynced, Work
<1>14. CASE FinishJob
  BY <1>14 DEF FinishJob, JobDone
<1>15. CASE FailJob
  BY <1>15 DEF FailJob, Work, JobDone
<1>16. CASE FailReplica
  BY <1>16 DEF FailReplica, JobDone
<1>17. ASSUME NEW a \in Assets, BackoffEnds(a)
     PROVE  WorkerOK'
  BY <1>17 DEF BackoffEnds, worker
<1>18. ASSUME NEW r \in Requests, RequestStep(r)
     PROVE  WorkerOK'
  BY <1>18, RequestFrame DEF worker
<1>19. CASE SetEnabled \/ UNCHANGED vars
  BY <1>19 DEF SetEnabled, vars, worker
<1>20. CASE Crash
  BY <1>20 DEF Crash
<1> QED
  BY Steps, <1>1, <1>2, <1>3, <1>4, <1>5, <1>6, <1>7, <1>8, <1>9, <1>10,
  <1>11, <1>12, <1>13, <1>14, <1>15, <1>16, <1>17, <1>18, <1>19, <1>20
  DEF WorkerStep, Reconcile, ProcessJob

-----------------------------------------------------------------------------
(* What happens to the rows of the queue.                                  *)

(* A queued job is the asset's only one, and new to the worker.            *)
LEMMA Queued ==
    ASSUME TypeOK, NEW a \in Assets, NEW act \in Actions,
           \/ CommitPut(a) /\ act = "put"
           \/ EnqueueDelete(a) /\ act = "delete"
    PROVE  \E n \in Job :
              /\ n.asset = a /\ n.action = act
              /\ \A j \in Held : j.id # n.id
              /\ JobsOf(a)' = {n}
              /\ \A b \in Assets \ {a} : JobsOf(b)' = JobsOf(b)
<1> DEFINE n == NewJob(a, act)
<1>1. n \in Job /\ n.asset = a /\ n.action = act /\ \A j \in Held : j.id # n.id
  BY NewJobOK DEF CommitPut, EnqueueDelete
<1>2. jobs' = (jobs \ JobsOf(a)) \cup {n}
  BY DEF CommitPut, EnqueueDelete
<1> HIDE DEF n
<1> QED
  BY <1>1, <1>2 DEF JobsOf

\* The rows are what they were, except for what is due.
SameRows ==
    /\ \A k \in jobs : \E l \in jobs' :
          l.id = k.id /\ l.asset = k.asset /\ l.action = k.action
    /\ \A l \in jobs' : \E k \in jobs :
          l.id = k.id /\ l.asset = k.asset /\ l.action = k.action

(* A failed job and the end of a backoff change only what is due.          *)
LEMMA DueOnly ==
    ASSUME TypeOK, FailJob \/ \E a \in Assets : BackoffEnds(a)
    PROVE  SameRows
<1>1. CASE FailJob
  <2> DEFINE Wait(j) == [j EXCEPT !.due = FALSE]
  <2>1. \A j \in JobRow : /\ j \in jobs /\ Wait(j).asset = j.asset
                          /\ Wait(j).id = j.id /\ Wait(j).action = j.action
    BY SameJob DEF JobRow, TypeOK
  <2>2. jobs' = jobs \/ jobs' = (jobs \ JobRow) \cup {Wait(j) : j \in JobRow}
    BY <1>1 DEF FailJob
  <2> HIDE DEF Wait
  <2> QED
    BY <2>1, <2>2 DEF SameRows
<1>2. ASSUME NEW a \in Assets, BackoffEnds(a)
     PROVE  SameRows
  <2>1. PICK j \in jobs : jobs' = (jobs \ {j}) \cup {[j EXCEPT !.due = TRUE]}
    BY <1>2 DEF BackoffEnds, JobsOf
  <2> DEFINE d == [j EXCEPT !.due = TRUE]
  <2>2. d.id = j.id /\ d.asset = j.asset /\ d.action = j.action
    BY SameJob DEF TypeOK
  <2> HIDE DEF d
  <2> QED
    BY <2>1, <2>2 DEF SameRows, d
<1> QED
  BY <1>1, <1>2

(* The worker queues puts only when it holds no job, and removes only the  *)
(* row it has just processed.                                              *)
LEMMA WorkerQueue ==
    ASSUME TypeOK, WorkerOK, WorkerStep
    PROVE  \/ jobs' = jobs /\ dropped \subseteq dropped'
           \/ Held = {} /\ Held' = {} /\ \E a \in Assets : CommitPut(a)
           \/ /\ JobSettings \/ ReadRow \/ FinishJob
              /\ job # None /\ job' = None /\ batch' = batch
              /\ jobs' = jobs \ JobRow
           \/ /\ FailJob \/ \E a \in Assets : BackoffEnds(a)
              /\ dropped' = dropped
<1> DEFINE Goal ==
      \/ jobs' = jobs /\ dropped \subseteq dropped'
      \/ Held = {} /\ Held' = {} /\ \E a \in Assets : CommitPut(a)
      \/ /\ JobSettings \/ ReadRow \/ FinishJob
         /\ job # None /\ job' = None /\ batch' = batch
         /\ jobs' = jobs \ JobRow
      \/ /\ FailJob \/ \E a \in Assets : BackoffEnds(a)
         /\ dropped' = dropped
<1>1. CASE ReconcileEnqueue
  <2>1. Held = {}
    BY <1>1 DEF ReconcileEnqueue, WorkerOK, Held
  <2>2. Held' = {}
    BY <1>1, <2>1 DEF ReconcileEnqueue, Work, Held
  <2> QED
    BY <1>1, <2>1, <2>2 DEF ReconcileEnqueue, EnqueuePutIfNone, EnqueuePut, RollbackPut, TypeOK
<1>2. CASE JobSettings \/ ReadRow \/ FinishJob
  BY <1>2 DEF JobSettings, ReadRow, FinishJob, RemoveJobRow, JobDone, Work, WorkerOK
<1>3. CASE FailJob \/ \E a \in Assets : BackoffEnds(a)
  BY <1>3 DEF FailJob, BackoffEnds
<1>4. CASE \/ ReconcileSettings \/ ReconcileScan \/ ProcessJobs
           \/ NextJob \/ JobDial \/ DeleteRemote \/ DeleteReplica \/ OpenFile
           \/ SaveRemote \/ MarkSynced \/ FailReplica
  BY <1>4 DEF ReconcileSettings, ReconcileScan, ProcessJobs, NextJob, JobDial,
  DeleteRemote, DeleteReplica, OpenFile, SaveRemote, MarkSynced, FailReplica,
  store
<1> QED
  BY <1>1, <1>2, <1>3, <1>4 DEF WorkerStep, Reconcile, ProcessJob

(* The copies the worker holds stay backed by rows of the same kind.       *)
LEMMA HeldPreserved ==
    ASSUME ConstantsAssumption, TypeOK, HandlerOK, WorkerOK, HeldOK, [Next]_vars
    PROVE  HeldOK'
<1>0. Held \subseteq Job
  BY DEF Held, TypeOK
<1>1. ASSUME UNCHANGED <<batch, job>>, NEW a \in Assets, NEW act \in Actions,
             \/ CommitPut(a) /\ act = "put"
             \/ EnqueueDelete(a) /\ act = "delete"
      PROVE  HeldOK'
  <2>1. Held' = Held
    BY <1>1 DEF Held
  <2>2. PICK n \in Job :
           /\ n.asset = a /\ n.action = act
           /\ \A j \in Held : j.id # n.id
           /\ JobsOf(a)' = {n}
           /\ \A b \in Assets \ {a} : JobsOf(b)' = JobsOf(b)
    BY <1>1, Queued
  <2>3. \A j \in Held : j.asset \in Assets
    BY <1>0 DEF Job
  <2> QED
    BY <1>1, <2>1, <2>2, <2>3 DEF HeldOK
<1>2. ASSUME UNCHANGED <<batch, job>>, jobs' = jobs
      PROVE  HeldOK'
  BY <1>2 DEF HeldOK, Held, JobsOf
<1>3. ASSUME NEW r \in Requests, RequestStep(r)
      PROVE  HeldOK'
  BY <1>1, <1>2, <1>3, RequestEffect, RequestFrame DEF Effect, worker, Actions
<1>4. CASE SetEnabled \/ UNCHANGED vars
  BY <1>2, <1>4 DEF SetEnabled, vars, store, worker
<1>5. CASE Crash
  BY <1>5 DEF Crash, HeldOK, Held
<1>6. CASE ProcessJobs
  <2>1. job = None /\ job' = None /\ jobs' = jobs /\ batch' \subseteq jobs
    BY <1>6 DEF ProcessJobs, WorkerOK, store
  <2>2. Held' = batch' /\ job' \notin batch'
    BY <2>1 DEF Held, TypeOK, ConstantsAssumption
  <2> QED
    BY <2>1, <2>2 DEF HeldOK, JobsOf, TypeOK
<1>7. CASE NextJob
  <2>1. CASE batch = {} /\ wpc' = "idle"
    BY <1>2, <1>7, <2>1 DEF NextJob, Work, store
  <2>2. CASE \E j \in batch : job' = j /\ batch' = batch \ {j}
    <3>1. job = None /\ jobs' = jobs
      BY <1>7 DEF NextJob, WorkerOK, store
    <3>2. Held' = Held /\ job' \notin batch'
      BY <2>2, <3>1 DEF Held, TypeOK, ConstantsAssumption
    <3> QED
      BY <3>1, <3>2 DEF HeldOK, JobsOf
  <2> QED
    BY <1>7, <2>1, <2>2 DEF NextJob, Work
<1>8. CASE job # None /\ job' = None /\ batch' = batch /\ jobs' \in {jobs, jobs \ JobRow}
  <2>1. Held' = batch /\ Held' \subseteq Held /\ job \in Held
    BY <1>8 DEF Held, TypeOK, ConstantsAssumption
  <2>2. \A j \in Held' : j.asset # job.asset
    BY <2>1 DEF HeldOK
  <2>3. \A j \in Held' : JobsOf(j.asset)' = JobsOf(j.asset)
    BY <1>8, <2>2 DEF JobRow, JobsOf
  <2> QED
    BY <1>8, <2>1, <2>3 DEF HeldOK, TypeOK, ConstantsAssumption
<1>9. CASE FailJob \/ \E a \in Assets : BackoffEnds(a)
  <2>1. SameRows
    BY <1>9, DueOnly
  <2>2. Held' \subseteq Held /\ job' \notin batch'
    BY <1>9 DEF FailJob, BackoffEnds, Work, JobDone, worker, Held, HeldOK,
    TypeOK, ConstantsAssumption
  <2> QED
    BY <2>1, <2>2 DEF SameRows, HeldOK, JobsOf
<1>10. CASE FailReplica
  BY <1>10 DEF FailReplica, JobDone, HeldOK, Held, JobsOf, TypeOK,
  ConstantsAssumption
<1>11. CASE \/ ReconcileSettings \/ ReconcileScan \/ JobDial \/ DeleteReplica
            \/ OpenFile \/ MarkSynced
  BY <1>2, <1>11 DEF ReconcileSettings, ReconcileScan, JobDial, DeleteReplica,
  OpenFile, MarkSynced, Work, store
<1>16. CASE DeleteRemote \/ SaveRemote
  <2>1. /\ jobs' = jobs /\ batch' = batch /\ job # None
        /\ job' = job \/ job' = None
    BY <1>16 DEF DeleteRemote, SaveRemote, WorkerOK, Work, Fails, JobDone
  <2> QED
    BY <1>2, <1>8, <2>1
<1>12. CASE Held = {} /\ Held' = {} /\ batch' = batch /\ job' = job
  BY <1>12 DEF HeldOK
<1>13. CASE ReconcileEnqueue
  <2>1. batch' = batch /\ job' = job /\ Held = {}
    BY <1>13 DEF ReconcileEnqueue, Work, WorkerOK, Held
  <2> QED
    BY <1>12, <2>1 DEF Held
<1>14. CASE JobSettings \/ FinishJob
  BY <1>8, <1>14 DEF JobSettings, FinishJob, JobDone, WorkerOK,
  Fault, RemoveJobRow
<1>15. CASE ReadRow
  BY <1>2, <1>8, <1>15 DEF ReadRow, Work, JobDone, WorkerOK,
  Fault, RemoveJobRow
<1> QED
  BY Steps, <1>3, <1>4, <1>5, <1>6, <1>7, <1>9, <1>10, <1>11, <1>13, <1>14,
  <1>15, <1>16 DEF WorkerStep, Reconcile, ProcessJob

-----------------------------------------------------------------------------
(* What the steps do to the handlers an asset waits for.                   *)

(* A delete is between its two steps only after it has queued the deletion *)
(* or failed to, or found backups off.                                     *)
LEMMA UnderwayStep ==
    ASSUME TypeOK, HandlerOK, NEW a \in Assets, [Next]_vars, DeleteUnderway(a)'
    PROVE  DeleteUnderway(a) \/ a \in dropped' \/ EnqueueDelete(a)
<1> DEFINE Goal == DeleteUnderway(a) \/ a \in dropped' \/ EnqueueDelete(a)
<1> USE DEF DeleteUnderway
<1>1. ASSUME NEW r \in Requests, NEW b \in Assets, UploadSave(r, b)
     PROVE  Goal
  BY <1>1 DEF UploadSave, Begin, TypeOK
<1>2. ASSUME NEW r \in Requests, NEW b \in Assets, ReplaceGet(r, b)
     PROVE  Goal
  BY <1>2 DEF ReplaceGet, Begin, TypeOK
<1>3. ASSUME NEW r \in Requests, NEW b \in Assets, DeleteGet(r, b)
     PROVE  Goal
  BY <1>3 DEF DeleteGet, Begin, TypeOK
<1>4. ASSUME NEW r \in Requests, BackupNowSettings(r)
     PROVE  Goal
  BY <1>4 DEF BackupNowSettings, Begin, TypeOK
<1>5. ASSUME NEW r \in Requests, UploadCreateRow(r)
     PROVE  Goal
  BY <1>5 DEF UploadCreateRow, Goto, TypeOK
<1>6. ASSUME NEW r \in Requests, UploadRollback(r)
     PROVE  Goal
  BY <1>6 DEF UploadRollback, End, TypeOK
<1>7. ASSUME NEW r \in Requests, ReplaceSave(r)
     PROVE  Goal
  BY <1>7 DEF ReplaceSave, Goto, TypeOK
<1>8. ASSUME NEW r \in Requests, ReplaceReject(r)
     PROVE  Goal
  BY <1>8 DEF ReplaceReject, End, TypeOK
<1>9. ASSUME NEW r \in Requests, ReplaceRead(r)
     PROVE  Goal
  BY <1>9 DEF ReplaceRead, Goto, End, TypeOK
<1>10. ASSUME NEW r \in Requests, EnqueueAssetSettings(r)
     PROVE  Goal
  BY <1>10 DEF EnqueueAssetSettings, Goto, End, TypeOK
<1>11. ASSUME NEW r \in Requests, EnqueueAsset(r)
     PROVE  Goal
  BY <1>11 DEF EnqueueAsset, End, TypeOK
<1>12. ASSUME NEW r \in Requests, DeleteSettings(r)
     PROVE  Goal
  BY <1>12 DEF DeleteSettings, Goto, TypeOK
<1>13. ASSUME NEW r \in Requests, DeleteEnqueue(r)
     PROVE  Goal
  BY <1>13 DEF DeleteEnqueue, Goto, TypeOK
<1>14. ASSUME NEW r \in Requests, DeleteRow(r)
     PROVE  Goal
  BY <1>14 DEF DeleteRow, Goto, End, TypeOK
<1>15. ASSUME NEW r \in Requests, DeleteFile(r)
     PROVE  Goal
  BY <1>15 DEF DeleteFile, End, TypeOK
<1>16. ASSUME NEW r \in Requests, BackupNowList(r)
     PROVE  Goal
  BY <1>16 DEF BackupNowList, TypeOK
<1>17. ASSUME NEW r \in Requests, BackupNowEnqueue(r)
     PROVE  Goal
  BY <1>17 DEF BackupNowEnqueue, End, TypeOK
<1>18. ASSUME NEW r \in Requests, StatementFails(r) \/ Disconnect(r)
     PROVE  Goal
  BY <1>18 DEF StatementFails, Disconnect, GiveUp, End, ReplacePCs, TypeOK
<1>19. CASE WorkerStep
  BY <1>19, WorkerFrame DEF requests
<1>20. CASE SetEnabled \/ UNCHANGED vars
  BY <1>20 DEF SetEnabled, vars, requests
<1>21. CASE Crash
  BY <1>21 DEF Crash
<1> QED
  BY Steps, <1>1, <1>2, <1>3, <1>4, <1>5, <1>6, <1>7, <1>8, <1>9, <1>10,
  <1>11, <1>12, <1>13, <1>14, <1>15, <1>16, <1>17, <1>18, <1>19, <1>20, <1>21
  DEF RequestStep, Handler

(* A replacement that has saved a new version stays on its way until it    *)
(* queues the copy, finds the row gone, or the copy is dropped.            *)
LEMMA ReplaceStep ==
    ASSUME TypeOK, HandlerOK, NEW a \in Assets, [Next]_vars, row'[a] = "live",
           \/ HandlerAt(a, ReplacePCs)
           \/ row[a] = "live" /\ file'[a] # file[a]
    PROVE  HandlerAt(a, ReplacePCs)' \/ a \in dropped' \/ CommitPut(a)
<1> DEFINE Goal == HandlerAt(a, ReplacePCs)' \/ a \in dropped' \/ CommitPut(a)
<1> USE DEF HandlerAt, ReplacePCs
<1>1. ASSUME NEW r \in Requests, NEW b \in Assets, UploadSave(r, b)
     PROVE  Goal
  BY <1>1 DEF UploadSave, Begin, SaveFile, TypeOK
<1>2. ASSUME NEW r \in Requests, NEW b \in Assets, ReplaceGet(r, b)
     PROVE  Goal
  BY <1>2 DEF ReplaceGet, Begin, store, TypeOK
<1>3. ASSUME NEW r \in Requests, NEW b \in Assets, DeleteGet(r, b)
     PROVE  Goal
  BY <1>3 DEF DeleteGet, Begin, store, TypeOK
<1>4. ASSUME NEW r \in Requests, BackupNowSettings(r)
     PROVE  Goal
  BY <1>4 DEF BackupNowSettings, Begin, store, TypeOK
<1>5. ASSUME NEW r \in Requests, UploadCreateRow(r)
     PROVE  Goal
  BY <1>5 DEF UploadCreateRow, Goto, TypeOK
<1>6. ASSUME NEW r \in Requests, UploadRollback(r)
     PROVE  Goal
  BY <1>6 DEF UploadRollback, RemoveRow, RemoveFile, End, TypeOK
<1>7. ASSUME NEW r \in Requests, ReplaceSave(r)
     PROVE  Goal
  BY <1>7 DEF ReplaceSave, SaveFile, Goto, TypeOK
<1>8. ASSUME NEW r \in Requests, ReplaceReject(r)
     PROVE  Goal
  BY <1>8 DEF ReplaceReject, End, store, TypeOK
<1>9. ASSUME NEW r \in Requests, ReplaceRead(r)
     PROVE  Goal
  BY <1>9 DEF ReplaceRead, Goto, End, store, TypeOK
<1>10. ASSUME NEW r \in Requests, EnqueueAssetSettings(r)
     PROVE  Goal
  BY <1>10 DEF EnqueueAssetSettings, Goto, store, End, TypeOK
<1>11. ASSUME NEW r \in Requests, EnqueueAsset(r)
     PROVE  Goal
  BY <1>11 DEF EnqueueAsset, EnqueuePut, RollbackPut, End, TypeOK
<1>12. ASSUME NEW r \in Requests, DeleteSettings(r)
     PROVE  Goal
  BY <1>12 DEF DeleteSettings, Goto, store, TypeOK
<1>13. ASSUME NEW r \in Requests, DeleteEnqueue(r)
     PROVE  Goal
  BY <1>13 DEF DeleteEnqueue, Goto, TypeOK
<1>14. ASSUME NEW r \in Requests, DeleteRow(r)
     PROVE  Goal
  BY <1>14 DEF DeleteRow, RemoveRow, Goto, End, TypeOK
<1>15. ASSUME NEW r \in Requests, DeleteFile(r)
     PROVE  Goal
  BY <1>15 DEF DeleteFile, RemoveFile, End, TypeOK
<1>16. ASSUME NEW r \in Requests, BackupNowList(r)
     PROVE  Goal
  BY <1>16 DEF BackupNowList, store, TypeOK
<1>17. ASSUME NEW r \in Requests, BackupNowEnqueue(r)
     PROVE  Goal
  BY <1>17 DEF BackupNowEnqueue, End, RollbackPut, TypeOK
<1>18. ASSUME NEW r \in Requests, StatementFails(r) \/ Disconnect(r)
     PROVE  Goal
  BY <1>18 DEF StatementFails, Disconnect, GiveUp, End, RemoveFile, TypeOK
<1>19. CASE WorkerStep
  BY <1>19, WorkerFrame DEF requests
<1>20. CASE SetEnabled \/ UNCHANGED vars
  BY <1>20 DEF SetEnabled, vars, store, requests
<1>21. CASE Crash
  BY <1>21 DEF Crash, store
<1> QED
  BY Steps, <1>1, <1>2, <1>3, <1>4, <1>5, <1>6, <1>7, <1>8, <1>9, <1>10,
  <1>11, <1>12, <1>13, <1>14, <1>15, <1>16, <1>17, <1>18, <1>19, <1>20, <1>21
  DEF RequestStep, Handler

(* Files only move to newer versions, and only of assets whose row is not  *)
(* gone: an upload that has none yet, or a replacement.                    *)
LEMMA FileStep ==
    ASSUME TypeOK, HandlerOK, NEW a \in Assets, [Next]_vars
    PROVE  file'[a] \in Nat /\ file'[a] >= file[a]
<1>1. ASSUME NEW r \in Requests, RequestStep(r)
      PROVE  UNCHANGED file \/ \E b \in Assets : SaveFile(b)
  BY <1>1 DEF RequestStep, Handler, UploadSave, ReplaceGet, DeleteGet,
  BackupNowSettings, UploadCreateRow, UploadRollback, ReplaceSave, ReplaceReject,
  ReplaceRead, EnqueueAssetSettings, EnqueueAsset, DeleteSettings,
  DeleteEnqueue, DeleteRow, DeleteFile, BackupNowList, BackupNowEnqueue,
  StatementFails, Disconnect, GiveUp, RemoveFile, store, HandlerOK
<1>2. CASE WorkerStep \/ SetEnabled \/ Crash \/ UNCHANGED vars
  BY <1>2, WorkerFrame DEF SetEnabled, Crash, vars, store, TypeOK
<1>3. ASSUME NEW b \in Assets, SaveFile(b)
      PROVE  file'[a] \in Nat /\ file'[a] >= file[a]
  BY <1>3 DEF SaveFile, TypeOK
<1> QED
  BY Steps, <1>1, <1>2, <1>3 DEF TypeOK

-----------------------------------------------------------------------------
(* The invariant.                                                          *)

(* Nothing is queued for an asset before it has a row.                     *)
LEMMA AbsentPreserved ==
    ASSUME TypeOK, HandlerOK, WorkerOK, AbsentOK, [Next]_vars
    PROVE  AbsentOK'
<1>1. ASSUME NEW a \in Assets, NEW act \in Actions, row[a] # "absent",
             \/ CommitPut(a) /\ act = "put"
             \/ EnqueueDelete(a) /\ act = "delete",
             UNCHANGED row
      PROVE  AbsentOK'
  BY <1>1, Queued DEF AbsentOK
<1>2. ASSUME \A a \in Assets : row'[a] = "absent" => row[a] = "absent",
             \A l \in jobs' : \E k \in jobs : l.asset = k.asset
      PROVE  AbsentOK'
  BY <1>2 DEF AbsentOK, JobsOf
<1>3. ASSUME NEW r \in Requests, RequestStep(r)
      PROVE  AbsentOK'
  <2>1. Effect(r)
    BY <1>3, RequestEffect
  <2> QED
    BY <1>1, <1>2, <2>1 DEF Effect, RemoveRow, CommitPut, Actions, TypeOK
<1>4. CASE WorkerStep
  <2>1. UNCHANGED row
    BY <1>4, WorkerFrame
  <2>2. FailJob \/ (\E a \in Assets : BackoffEnds(a)) => SameRows
    BY DueOnly
  <2> QED
    BY <1>1, <1>2, <1>4, <2>1, <2>2, WorkerQueue
    DEF SameRows, RemoveJobRow, CommitPut, Actions
<1>5. CASE SetEnabled \/ Crash \/ UNCHANGED vars
  BY <1>2, <1>5 DEF SetEnabled, Crash, vars, store
<1> QED
  BY Steps, <1>3, <1>4, <1>5

(* The deletion of an asset is queued, dropped or complete.                *)
LEMMA DeletePreserved ==
    ASSUME ConstantsAssumption, TypeOK, HandlerOK, WorkerOK, HeldOK, CopyOK,
           DeleteOK, [Next]_vars
    PROVE  DeleteOK'
<1> DEFINE Settled(a) == HasDelete(a) \/ a \in dropped \/ (remote[a] = 0 /\ JobsOf(a) = {})
           Deleted(a) == row[a] = "deleted" \/ DeleteUnderway(a)
<1>1. SUFFICES ASSUME NEW a \in Assets, Deleted(a)'
               PROVE  Settled(a)'
  BY DEF DeleteOK
<1>2. DeleteUnderway(a)' => DeleteUnderway(a) \/ a \in dropped' \/ EnqueueDelete(a)
  BY UnderwayStep
<1>3. Deleted(a) => Settled(a)
  BY DEF DeleteOK
<1>4. EnqueueDelete(a) => Settled(a)'
  BY Queued DEF Actions, HasDelete
<1>5. ASSUME CommitPut(a), UNCHANGED row
      PROVE  Settled(a)'
  <2>1. DeleteUnderway(a)' /\ row[a] = "live"
    BY <1>1, <1>5 DEF CommitPut
  <2> QED
    BY <1>2, <1>4, <1>5, <2>1 DEF CommitPut
<1>6. ASSUME NEW b \in Assets \ {a}, CommitPut(b) \/ EnqueueDelete(b),
             remote' = remote, UNCHANGED row
      PROVE  Settled(a)'
  <2>1. JobsOf(a)' = JobsOf(a)
    BY <1>6, Queued DEF Actions
  <2>2. a \in dropped => a \in dropped'
    BY <1>6 DEF CommitPut, EnqueueDelete
  <2> QED
    BY <1>1, <1>2, <1>3, <1>4, <1>6, <2>1, <2>2 DEF HasDelete
<1>7. ASSUME JobsOf(a)' = JobsOf(a), dropped \subseteq dropped',
             remote[a] = 0 /\ JobsOf(a) = {} => remote'[a] = 0,
             row'[a] = "deleted" => Deleted(a) \/ a \in dropped'
      PROVE  Settled(a)'
  BY <1>1, <1>2, <1>3, <1>4, <1>7 DEF HasDelete
<1>8. ASSUME NEW r \in Requests, RequestStep(r)
      PROVE  Settled(a)'
  <2>1. Effect(r) /\ remote' = remote
    BY <1>8, RequestEffect, RequestFrame
  <2>2. jobs' = jobs => JobsOf(a)' = JobsOf(a)
    BY DEF JobsOf
  <2>3. CASE UNCHANGED row /\ \E b \in Assets : CommitPut(b) \/ EnqueueDelete(b)
    BY <1>4, <1>5, <1>6, <2>1, <2>3 DEF Effect
  <2>4. CASE UNCHANGED <<row, replica, jobs>> /\ dropped \subseteq dropped'
    BY <1>7, <2>1, <2>2, <2>4
  <2>5. CASE /\ row[rasset[r]] = "absent"
             /\ row' = [row EXCEPT ![rasset[r]] = "live"]
             /\ UNCHANGED <<file, replica, jobs, dropped>>
    BY <1>7, <2>1, <2>2, <2>5 DEF TypeOK
  <2>6. CASE /\ RemoveRow(rasset[r])
             /\ UNCHANGED <<file, jobs>> /\ dropped \subseteq dropped'
             /\ DeleteUnderway(rasset[r]) \/ rasset[r] \in dropped'
    BY <1>7, <2>1, <2>2, <2>6 DEF RemoveRow, TypeOK
  <2> QED
    BY <2>1, <2>3, <2>4, <2>5, <2>6 DEF Effect
<1>9. ASSUME UNCHANGED <<row, jobs>>, dropped \subseteq dropped',
             remote[a] = 0 /\ JobsOf(a) = {} => remote'[a] = 0
      PROVE  Settled(a)'
  BY <1>7, <1>9 DEF JobsOf
<1>10. ASSUME WorkerStep, remote' = remote
       PROVE  Settled(a)'
  <2>1. UNCHANGED <<row, requests>>
    BY <1>10, WorkerFrame
  <2>2. CASE jobs' = jobs /\ dropped \subseteq dropped'
    BY <1>9, <1>10, <2>1, <2>2
  <2>3. CASE \E b \in Assets : CommitPut(b)
    BY <1>5, <1>6, <1>10, <2>1, <2>3
  <2>4. CASE FailJob \/ \E b \in Assets : BackoffEnds(b)
    <3>1. SameRows
      BY <2>4, DueOnly
    <3>2. dropped' = dropped
      BY <2>4 DEF FailJob, BackoffEnds
    <3>3. /\ HasDelete(a) => HasDelete(a)'
          /\ JobsOf(a) = {} => JobsOf(a)' = {}
      BY <3>1 DEF SameRows, HasDelete, JobsOf
    <3>4. Deleted(a)
      BY <1>1, <2>1 DEF requests, DeleteUnderway
    <3> QED
      BY <1>3, <1>10, <3>2, <3>3, <3>4
  <2>5. CASE (JobSettings \/ ReadRow \/ FinishJob) /\ jobs' = jobs \ JobRow /\ job # None
    <3>1. JobsOf(a) = {} => JobsOf(a)' = {}
      BY <2>5 DEF JobsOf
    <3>2. job \in Held /\ job \in Job
      BY <2>5 DEF Held, TypeOK
    <3>3. \A k \in JobRow : k.action = job.action
      BY <3>2 DEF HeldOK, JobRow, JobsOf
    <3>4. job.action = "put" => (HasDelete(a) => HasDelete(a)')
      BY <2>5, <3>3 DEF HasDelete, JobsOf, JobRow
    <3>5. Deleted(a)
      BY <1>1, <2>1 DEF requests, DeleteUnderway
    <3>6. dropped \subseteq dropped'
      BY <2>5 DEF JobSettings, ReadRow, FinishJob
    <3>7. (JobRow = {} \/ job.asset # a) => JobsOf(a)' = JobsOf(a)
      <4>1. JobRow = {} => jobs' = jobs
        BY <2>5 DEF RemoveJobRow
      <4>2. job.asset # a => JobsOf(a)' = JobsOf(a)
        BY <2>5 DEF JobsOf, JobRow
      <4> QED
        BY <4>1, <4>2 DEF JobsOf
    <3>8. (job.asset = a /\ JobRow # {}) => JobsOf(a)' = {}
      BY <2>5, <3>2 DEF JobsOf, JobRow, TypeOK
    <3>9. CASE JobSettings
      <4>1. jobs' # jobs => job.asset \in dropped'
        BY <3>9 DEF JobSettings
      <4>2. jobs' = jobs => JobsOf(a)' = JobsOf(a)
        BY DEF JobsOf
      <4> QED
        BY <1>3, <1>10, <3>5, <3>6, <3>7, <4>1, <4>2 DEF HasDelete
    <3>10. CASE ReadRow
      BY <1>3, <1>10, <3>1, <3>4, <3>5, <3>6, <3>10 DEF ReadRow, WorkerOK
    <3>11. CASE FinishJob /\ job.action = "put"
      BY <1>3, <1>10, <3>1, <3>4, <3>5, <3>6, <3>11
    <3>12. CASE FinishJob /\ job.action = "delete"
      <4>1. remote[job.asset] = 0
        BY <3>12 DEF FinishJob, CopyOK, DeleteDone
      <4>2. CASE job.asset = a /\ JobRow # {}
        BY <1>10, <3>8, <4>1, <4>2
      <4>3. CASE job.asset # a \/ JobRow = {}
        BY <1>3, <1>10, <3>5, <3>6, <3>7, <4>3 DEF HasDelete
      <4> QED
        BY <4>2, <4>3
    <3> QED
      BY <2>5, <3>2, <3>9, <3>10, <3>11, <3>12 DEF Job, Actions
  <2> QED
    BY <1>10, <2>2, <2>3, <2>4, <2>5, WorkerQueue
<1>11. CASE DeleteRemote
  BY <1>9, <1>11 DEF DeleteRemote, TypeOK
<1>12. CASE SaveRemote
  <2>1. JobsOf(job.asset) # {} /\ job.asset \in Assets
    BY <1>12 DEF SaveRemote, WorkerOK, HeldOK, Held, TypeOK, Job
  <2> QED
    BY <1>9, <1>12, <2>1 DEF SaveRemote, TypeOK
<1>13. WorkerStep => remote' = remote \/ DeleteRemote \/ SaveRemote
  BY DEF WorkerStep, Reconcile, ProcessJob, ReconcileSettings, ReconcileScan,
  ReconcileEnqueue, ProcessJobs, NextJob, JobSettings, JobDial, DeleteReplica,
  ReadRow, OpenFile, MarkSynced, FinishJob, FailJob, FailReplica, BackoffEnds,
  store
<1>14. CASE SetEnabled \/ UNCHANGED vars
  BY <1>9, <1>14 DEF SetEnabled, vars, store
<1>15. CASE Crash
  <2>1. UNCHANGED <<row, jobs, remote>> /\ dropped \subseteq dropped'
    BY <1>15 DEF Crash, store
  <2> QED
    BY <1>7, <2>1 DEF JobsOf
<1> QED
  BY Steps, <1>8, <1>10, <1>11, <1>12, <1>13, <1>14, <1>15

(* Whatever will correct an old put stays until it has queued its job.     *)
LEMMA OvertakenStep ==
    ASSUME ConstantsAssumption, TypeOK, HandlerOK, NEW a \in Assets, [Next]_vars,
           job # None, job' = job, row'[a] = "live",
           \/ \E r \in Requests : RequestStep(r)
           \/ \E b \in Assets : BackoffEnds(b)
           \/ UNCHANGED <<row, file, jobs, dropped, requests>>,
           Overtaken(a) \/ (row[a] = "live" /\ file'[a] # file[a])
    PROVE  Overtaken(a)'
<1>1. ASSUME CommitPut(a) \/ EnqueueDelete(a)
      PROVE  Overtaken(a)'
  <2>1. job \in Held
    BY DEF Held
  <2> QED
    BY <1>1, <2>1, Queued DEF Actions, Overtaken
<1>2. ASSUME \/ HandlerAt(a, ReplacePCs)
             \/ row[a] = "live" /\ file'[a] # file[a]
      PROVE  Overtaken(a)'
  BY <1>1, <1>2, ReplaceStep DEF Overtaken
<1>3. ASSUME NEW r \in Requests, RequestStep(r), NEW k \in JobsOf(a), k.id # job.id
      PROVE  Overtaken(a)'
  <2>1. Effect(r)
    BY <1>3, RequestEffect
  <2>2. CASE jobs' = jobs
    BY <1>3, <2>2 DEF Overtaken, JobsOf
  <2>3. ASSUME NEW b \in Assets, b # a, CommitPut(b) \/ EnqueueDelete(b)
        PROVE  Overtaken(a)'
    <3>1. JobsOf(a)' = JobsOf(a)
      BY <2>3, Queued DEF Actions
    <3> QED
      BY <1>3, <3>1 DEF Overtaken
  <2> QED
    BY <1>1, <2>1, <2>2, <2>3 DEF Effect
<1>4. ASSUME NEW r \in Requests, RequestStep(r), a \in dropped
      PROVE  Overtaken(a)'
  <2>1. Effect(r)
    BY <1>4, RequestEffect
  <2>2. ASSUME NEW b \in Assets, CommitPut(b) \/ EnqueueDelete(b)
        PROVE  b = a \/ a \in dropped'
    BY <1>4, <2>2 DEF CommitPut, EnqueueDelete
  <2> QED
    BY <1>1, <1>4, <2>1, <2>2 DEF Effect, Overtaken
<1>5. ASSUME NEW b \in Assets, BackoffEnds(b)
      PROVE  Overtaken(a)'
  <2>1. SameRows /\ dropped' = dropped /\ file' = file
    BY <1>5, DueOnly DEF BackoffEnds
  <2> QED
    BY <1>2, <2>1 DEF SameRows, Overtaken, JobsOf
<1>6. CASE UNCHANGED <<row, file, jobs, dropped, requests>>
  BY <1>2, <1>6 DEF Overtaken, JobsOf
<1> QED
  BY <1>2, <1>3, <1>4, <1>5, <1>6 DEF Overtaken

(* The steps of the worker that touch the destination or a replica row.    *)
LEMMA WorkerStore ==
    ASSUME TypeOK, WorkerStep
    PROVE  /\ remote' = remote \/ DeleteRemote \/ SaveRemote
           /\ \/ replica' = replica
              \/ \E a \in Assets : CommitPut(a)
              \/ DeleteReplica \/ MarkSynced \/ FailReplica
<1>1. CASE ReconcileEnqueue
  BY <1>1 DEF ReconcileEnqueue, EnqueuePutIfNone, EnqueuePut, RollbackPut, TypeOK
<1>2. CASE \/ ReconcileSettings \/ ReconcileScan \/ ProcessJobs \/ NextJob
           \/ JobSettings \/ JobDial \/ ReadRow \/ OpenFile \/ FinishJob
           \/ FailJob \/ \E a \in Assets : BackoffEnds(a)
  BY <1>2 DEF ReconcileSettings, ReconcileScan, ProcessJobs, NextJob,
  JobSettings, JobDial, ReadRow, OpenFile, FinishJob, FailJob, BackoffEnds, store
<1>3. CASE \/ DeleteRemote \/ SaveRemote \/ DeleteReplica \/ MarkSynced
           \/ FailReplica
  BY <1>3 DEF DeleteRemote, SaveRemote, DeleteReplica, MarkSynced, FailReplica
<1> QED
  BY <1>1, <1>2, <1>3 DEF WorkerStep, Reconcile, ProcessJob

(* An asset without a live row has no replica row (the foreign key).       *)
LEMMA ReplicaPreserved ==
    ASSUME TypeOK, HandlerOK, WorkerOK, CopyOK, [Next]_vars, NEW a \in Assets,
           row'[a] # "live"
    PROVE  replica'[a] = "none"
<1>1. row[a] # "live" => replica[a] = "none"
  BY DEF CopyOK
<1>2. ASSUME NEW b \in Assets, CommitPut(b), UNCHANGED row
      PROVE  replica'[a] = "none"
  BY <1>1, <1>2 DEF CommitPut, TypeOK
<1>3. ASSUME NEW r \in Requests, RequestStep(r)
      PROVE  replica'[a] = "none"
  <2>1. Effect(r)
    BY <1>3, RequestEffect
  <2> QED
    BY <1>1, <1>2, <2>1 DEF Effect, RemoveRow, EnqueueDelete, TypeOK
<1>4. CASE WorkerStep
  <2>1. UNCHANGED row
    BY <1>4, WorkerFrame
  <2>2. CASE DeleteReplica \/ MarkSynced \/ FailReplica
    BY <1>1, <2>1, <2>2
    DEF DeleteReplica, MarkSynced, FailReplica, SetReplica, TypeOK
  <2> QED
    BY <1>1, <1>2, <1>4, <2>1, <2>2, WorkerStore
<1>5. CASE SetEnabled \/ Crash \/ UNCHANGED vars
  BY <1>1, <1>5 DEF SetEnabled, Crash, vars, store
<1> QED
  BY Steps, <1>3, <1>4, <1>5

(* A row only moves from absent to live to deleted.                        *)
LEMMA RowStep ==
    ASSUME TypeOK, HandlerOK, NEW a \in Assets, [Next]_vars
    PROVE  /\ row[a] = "deleted" => row'[a] = "deleted"
           /\ row'[a] = "absent" => row[a] = "absent"
<1>1. ASSUME NEW r \in Requests, RequestStep(r)
      PROVE  /\ row[a] = "deleted" => row'[a] = "deleted"
             /\ row'[a] = "absent" => row[a] = "absent"
  <2>1. Effect(r)
    BY <1>1, RequestEffect
  <2> QED
    BY <2>1 DEF Effect, RemoveRow, TypeOK
<1>2. CASE WorkerStep \/ SetEnabled \/ Crash \/ UNCHANGED vars
  BY <1>2, WorkerFrame DEF SetEnabled, Crash, vars, store
<1> QED
  BY Steps, <1>1, <1>2

(* A step that leaves the worker where it is keeps what the worker knows.  *)
LEMMA CopyFrame ==
    ASSUME ConstantsAssumption, TypeOK, HandlerOK, WorkerOK, HeldOK, AbsentOK,
           CopyOK, [Next]_vars, UNCHANGED <<wpc, job, opened, remote>>,
           \/ \E r \in Requests : RequestStep(r)
           \/ \E b \in Assets : BackoffEnds(b)
           \/ UNCHANGED <<row, file, jobs, dropped, requests>>,
           \/ \E a \in Assets : CommitPut(a)
           \/ \A a \in Assets : replica'[a] = "synced" => replica[a] = "synced"
    PROVE  CopyOK'
<1>1. \A a \in Assets : row'[a] # "live" => replica'[a] = "none"
  BY ReplicaPreserved
<1>2. \A a \in Assets : /\ file[a] \in Nat /\ remote[a] \in Nat
                        /\ file'[a] \in Nat /\ file'[a] >= file[a]
  BY FileStep DEF TypeOK, ConstantsAssumption
<1>3. opened \in Nat
  BY DEF TypeOK, ConstantsAssumption
<1>4. wpc \in {"copy", "mark", "finish", "del_replica"} =>
         job # None /\ job.asset \in Assets
  BY DEF WorkerOK, TypeOK, Job
<1>5. \A a \in Assets : remote'[a] <= file'[a]
  BY <1>2 DEF CopyOK
<1>6. wpc' = "copy" => remote'[job'.asset] <= opened' /\ opened' <= file'[job'.asset]
  BY <1>2, <1>3, <1>4 DEF CopyOK
<1>7. /\ PutDone' => remote'[job'.asset] = opened'
      /\ DeleteDone' => remote'[job'.asset] = 0
  BY DEF CopyOK, PutDone, DeleteDone
<1>8. ASSUME NEW a \in Assets, DeleteDone', wpc' = "finish", job'.asset = a,
             replica'[a] = "synced"
      PROVE  Overtaken(a)'
  <2>1. DeleteDone /\ wpc = "finish" /\ job.asset = a /\ job # None
    BY <1>4, <1>8 DEF DeleteDone
  <2>2. replica[a] = "synced"
    BY <1>8 DEF CommitPut, TypeOK
  <2>3. Overtaken(a) /\ row'[a] = "live"
    BY <1>1, <1>8, <2>1, <2>2 DEF CopyOK
  <2> QED
    BY <2>1, <2>3, OvertakenStep
<1>9. ASSUME NEW a \in Assets, Copying(a)', row'[a] = "live", opened' # file'[a]
      PROVE  Overtaken(a)'
  <2>1. Copying(a) /\ job # None
    BY <1>4, <1>9 DEF Copying, PutDone
  <2>2. row[a] = "live" => Overtaken(a) \/ file'[a] # file[a]
    BY <1>9, <2>1 DEF CopyOK
  <2>3. row[a] = "live"
    <3>1. JobsOf(a) # {}
      BY <2>1 DEF Copying, HeldOK, Held
    <3> QED
      BY <1>9, <3>1, RowStep DEF AbsentOK, TypeOK
  <2> QED
    BY <1>9, <2>1, <2>2, <2>3, OvertakenStep
<1> QED
  BY <1>1, <1>5, <1>6, <1>7, <1>8, <1>9 DEF CopyOK

(* What the destination holds is no newer than the file, and what the      *)
(* worker knows of the copy it makes stays true.                           *)
LEMMA CopyPreserved ==
    ASSUME ConstantsAssumption, TypeOK, HandlerOK, WorkerOK, HeldOK, AbsentOK,
           CopyOK, [Next]_vars
    PROVE  CopyOK'
<1>1. \A a \in Assets : row'[a] # "live" => replica'[a] = "none"
  BY ReplicaPreserved
<1>2. \A a \in Assets : file[a] \in Nat /\ remote[a] \in Nat
  BY DEF TypeOK, ConstantsAssumption
<1>3. opened \in Nat
  BY DEF TypeOK, ConstantsAssumption
<1>4. job # None => job \in Job /\ job.asset \in Assets /\ job.action \in Actions
  BY DEF TypeOK, Job
<1>5. ASSUME NEW r \in Requests, RequestStep(r)
      PROVE  CopyOK'
  <2>1. UNCHANGED <<wpc, job, opened, remote>>
    BY <1>5, RequestFrame DEF worker
  <2>2. \/ \E a \in Assets : CommitPut(a)
        \/ \A a \in Assets : replica'[a] = "synced" => replica[a] = "synced"
    BY <1>5, RequestEffect DEF Effect, EnqueueDelete, RemoveRow, TypeOK
  <2> QED
    BY <1>5, <2>1, <2>2, CopyFrame
<1>6. ASSUME NEW a \in Assets, BackoffEnds(a)
      PROVE  CopyOK'
  BY <1>6, CopyFrame DEF BackoffEnds, worker
<1>7. CASE SetEnabled \/ UNCHANGED vars
  BY <1>7, CopyFrame DEF SetEnabled, vars, store, worker
<1>8. CASE Crash
  BY <1>1, <1>8 DEF Crash, store, CopyOK, PutDone, DeleteDone, Copying
\* A step after which no copy is under way needs the first two parts only.
<1>9. ASSUME wpc' \notin {"copy", "mark", "finish", "del_replica"},
             remote' = remote, file' = file
      PROVE  CopyOK'
  BY <1>1, <1>9 DEF CopyOK, PutDone, DeleteDone, Copying
<1>10. CASE \/ ReconcileSettings \/ ReconcileScan \/ ReconcileEnqueue
            \/ ProcessJobs \/ NextJob \/ JobSettings \/ JobDial \/ ReadRow
            \/ FinishJob \/ FailJob \/ FailReplica
  BY <1>9, <1>10
  DEF ReconcileSettings, ReconcileScan, ReconcileEnqueue, ProcessJobs, NextJob,
  JobSettings, JobDial, ReadRow, FinishJob, FailJob, FailReplica, Work, JobDone,
  store
<1>11. CASE OpenFile
  <2>1. job \in Job /\ job.action = "put"
    BY <1>11 DEF OpenFile, WorkerOK, TypeOK
  <2>2. CASE wpc' = "copy"
    BY <1>1, <1>2, <1>4, <1>11, <2>1, <2>2
    DEF OpenFile, Work, store, CopyOK, PutDone, DeleteDone, Copying
  <2>3. CASE wpc' = "fail_job"
    BY <1>9, <1>11, <2>3 DEF OpenFile, store
  <2> QED
    BY <1>11, <2>2, <2>3 DEF OpenFile, Work
<1>12. CASE SaveRemote
  <2>1. job \in Job /\ job.asset \in Assets /\ job.action = "put" /\ wpc = "copy"
    BY <1>12 DEF SaveRemote, WorkerOK, TypeOK, Job
  <2>2. remote[job.asset] <= opened /\ opened <= file[job.asset]
    BY <2>1 DEF CopyOK
  <2>3. \A a \in Assets : remote'[a] <= file'[a]
    BY <1>2, <1>3, <1>12, <2>1, <2>2 DEF SaveRemote, CopyOK, TypeOK
  <2>4. CASE wpc' = "mark"
    <3>1. remote'[job'.asset] = opened'
      BY <1>12, <2>1, <2>4 DEF SaveRemote, Work, TypeOK, Fails, Fault, JobDone
    <3>2. ASSUME NEW a \in Assets, Copying(a)', row'[a] = "live", opened' # file'[a]
          PROVE  Overtaken(a)'
      BY <1>12, <2>1, <2>4, <3>2
      DEF SaveRemote, Work, requests, CopyOK, Copying, Overtaken, JobsOf, HandlerAt,
      Fails, Fault, JobDone
    <3> QED
      BY <1>1, <2>3, <2>4, <3>1, <3>2 DEF CopyOK, DeleteDone, PutDone
  <2>5. CASE wpc' \in {"fail_job", "next"}
    BY <1>1, <2>3, <2>5 DEF CopyOK, PutDone, DeleteDone, Copying
  <2> QED
    BY <1>12, <2>4, <2>5 DEF SaveRemote, Work, Fails, Fault, JobDone
<1>13. CASE MarkSynced
  <2>1. job \in Job /\ job.asset \in Assets /\ job.action = "put" /\ wpc = "mark"
    BY <1>13 DEF MarkSynced, WorkerOK, TypeOK, Job
  <2>2. remote[job.asset] = opened
    BY <2>1 DEF CopyOK, PutDone
  <2>3. ASSUME NEW a \in Assets, Copying(a)', row'[a] = "live", opened' # file'[a]
        PROVE  Overtaken(a)'
    BY <1>13, <2>1, <2>3
    DEF MarkSynced, Work, requests, CopyOK, Copying, PutDone, Overtaken, JobsOf,
    HandlerAt
  <2> QED
    BY <1>1, <1>13, <2>1, <2>2, <2>3
    DEF MarkSynced, Work, CopyOK, PutDone, DeleteDone
<1>14. CASE DeleteRemote
  <2>1. job \in Job /\ job.asset \in Assets /\ job.action = "delete"
    BY <1>14 DEF DeleteRemote, WorkerOK, TypeOK, Job
  <2>2. \A a \in Assets : remote'[a] <= file'[a]
    BY <1>2, <1>14, <2>1 DEF DeleteRemote, CopyOK, TypeOK
  <2> QED
    BY <1>1, <1>14, <2>1, <2>2
    DEF DeleteRemote, Work, CopyOK, PutDone, DeleteDone, Copying, TypeOK,
    Fails, Fault, JobDone
<1>15. CASE DeleteReplica
  <2>1. job \in Job /\ job.asset \in Assets /\ job.action = "delete"
    BY <1>15 DEF DeleteReplica, WorkerOK, TypeOK, Job
  <2>2. remote[job.asset] = 0 /\ wpc = "del_replica"
    BY <1>15 DEF DeleteReplica, CopyOK, DeleteDone
  <2>3. job' = job /\ wpc' = "finish" /\ UNCHANGED <<remote, file>>
    BY <1>15 DEF DeleteReplica, Work
  <2>4. replica'[job.asset] = "none" \/ job.asset \in dropped'
    BY <1>15, <2>1 DEF DeleteReplica, TypeOK
  <2> QED
    BY <1>1, <2>1, <2>2, <2>3, <2>4
    DEF CopyOK, PutDone, DeleteDone, Copying, Overtaken
<1> QED
  BY Steps, <1>5, <1>6, <1>7, <1>8, <1>10, <1>11, <1>12, <1>13, <1>14, <1>15
  DEF WorkerStep, Reconcile, ProcessJob

(* A replica says "synced" over an old copy only while something corrects  *)
(* it.                                                                     *)
LEMMA SyncedPreserved ==
    ASSUME ConstantsAssumption, TypeOK, HandlerOK, WorkerOK, HeldOK, AbsentOK,
           CopyOK, SyncedIsCurrent, [Next]_vars
    PROVE  SyncedIsCurrent'
<1> DEFINE Corrected(a) ==
             JobsOf(a) # {} \/ HandlerAt(a, ReplacePCs) \/ a \in dropped
<1>1. SUFFICES ASSUME NEW a \in Assets, row'[a] = "live", replica'[a] = "synced",
                      remote'[a] # file'[a]
               PROVE  Corrected(a)'
  BY DEF SyncedIsCurrent
<1>2. row[a] = "live" /\ replica[a] = "synced" /\ remote[a] # file[a] => Corrected(a)
  BY DEF SyncedIsCurrent
<1>3. CommitPut(a) \/ EnqueueDelete(a) => Corrected(a)'
  BY Queued DEF Actions
<1>4. ASSUME NEW r \in Requests, RequestStep(r)
      PROVE  Corrected(a)'
  <2>1. Effect(r) /\ remote' = remote
    BY <1>4, RequestEffect, RequestFrame
  <2>2. row[a] = "live" /\ (replica[a] = "synced" \/ CommitPut(a))
    BY <1>1, <2>1
    DEF Effect, CommitPut, EnqueueDelete, RemoveRow, CopyOK, TypeOK
  <2>3. \/ CommitPut(a) \/ file'[a] # file[a] \/ Corrected(a)
    BY <1>1, <1>2, <2>1, <2>2
  <2>4. CASE HandlerAt(a, ReplacePCs) \/ file'[a] # file[a]
    BY <1>1, <1>3, <2>2, <2>4, ReplaceStep
  <2>5. CASE JobsOf(a) # {}
    <3>1. jobs' = jobs => JobsOf(a)' # {}
      BY <2>5 DEF JobsOf
    <3>2. ASSUME NEW b \in Assets \ {a}, CommitPut(b) \/ EnqueueDelete(b)
          PROVE  JobsOf(a)' # {}
      BY <2>5, <3>2, Queued DEF Actions
    <3> QED
      BY <1>3, <2>1, <3>1, <3>2 DEF Effect
  <2>6. CASE a \in dropped
    BY <1>3, <2>1, <2>6 DEF Effect, CommitPut, EnqueueDelete
  <2> QED
    BY <1>3, <2>3, <2>4, <2>5, <2>6
<1>5. CASE SetEnabled \/ UNCHANGED vars
  BY <1>1, <1>2, <1>5
  DEF SetEnabled, vars, store, requests, JobsOf, HandlerAt
<1>6. CASE Crash
  BY <1>1, <1>2, <1>6 DEF Crash, store, JobsOf, HandlerAt
<1>7. ASSUME WorkerStep
      PROVE  Corrected(a)'
  <2>1. UNCHANGED <<row, file, requests>>
    BY <1>7, WorkerFrame
  <2>2. HandlerAt(a, ReplacePCs) => HandlerAt(a, ReplacePCs)'
    BY <2>1 DEF requests, HandlerAt
  <2>3. ASSUME UNCHANGED <<remote, replica>>
        PROVE  Corrected(a)
    BY <1>1, <1>2, <2>1, <2>3
  <2>4. CASE remote' = remote /\ \E b \in Assets : CommitPut(b)
    <3>1. CASE CommitPut(a)
      BY <1>3, <3>1
    <3>2. ASSUME NEW b \in Assets \ {a}, CommitPut(b)
          PROVE  Corrected(a)'
      <4>1. JobsOf(a)' = JobsOf(a)
        BY <3>2, Queued DEF Actions
      <4>2. Corrected(a)
        BY <1>1, <1>2, <2>1, <2>4, <3>2 DEF CommitPut, TypeOK
      <4> QED
        BY <2>2, <3>2, <4>1, <4>2 DEF CommitPut
    <3> QED
      BY <2>4, <3>1, <3>2
  <2>5. CASE DeleteRemote \/ SaveRemote
    <3>1. jobs' = jobs /\ dropped' = dropped /\ job # None /\ job \in Held
      BY <2>5 DEF DeleteRemote, SaveRemote, WorkerOK, Held
    <3>2. JobsOf(job.asset) # {} /\ job.asset \in Assets
      BY <3>1 DEF HeldOK, TypeOK, Job
    <3>3. CASE a = job.asset
      BY <3>1, <3>2, <3>3 DEF JobsOf
    <3>4. CASE a # job.asset
      <4>1. replica' = replica /\ remote'[a] = remote[a]
        BY <2>5, <3>2, <3>4 DEF DeleteRemote, SaveRemote, TypeOK
      <4> QED
        BY <1>1, <1>2, <2>1, <2>2, <3>1, <4>1 DEF JobsOf
    <3> QED
      BY <3>3, <3>4
  <2>6. CASE DeleteReplica \/ FailReplica
    <3>1. jobs' = jobs /\ dropped \subseteq dropped' /\ remote' = remote
      BY <2>6 DEF DeleteReplica, FailReplica
    <3>2. replica[a] = "synced"
      BY <1>1, <2>6 DEF DeleteReplica, FailReplica, SetReplica, TypeOK
    <3> QED
      BY <1>1, <1>2, <2>1, <2>2, <3>1, <3>2 DEF JobsOf
  <2>7. CASE MarkSynced
    <3>1. jobs' = jobs /\ dropped' = dropped /\ remote' = remote
      BY <2>7 DEF MarkSynced
    <3>2. job # None /\ job.asset \in Assets /\ wpc = "mark"
      BY <2>7 DEF MarkSynced, WorkerOK, TypeOK, Job
    <3>3. CASE a = job.asset
      <4>1. remote[a] = opened /\ Copying(a)
        BY <3>2, <3>3 DEF CopyOK, PutDone, Copying
      <4>2. Overtaken(a)
        BY <1>1, <2>1, <3>1, <4>1 DEF CopyOK
      <4> QED
        BY <2>2, <3>1, <4>2 DEF Overtaken, JobsOf
    <3>4. CASE a # job.asset
      <4>1. replica'[a] = replica[a]
        BY <2>7, <3>2, <3>4 DEF MarkSynced, SetReplica, TypeOK
      <4> QED
        BY <1>1, <1>2, <2>1, <2>2, <3>1, <4>1 DEF JobsOf
    <3> QED
      BY <3>3, <3>4
  <2>8. ASSUME UNCHANGED <<remote, replica>>,
               (JobSettings \/ ReadRow \/ FinishJob) /\ jobs' = jobs \ JobRow /\ job # None
        PROVE  Corrected(a)'
    <3>1. Corrected(a) /\ dropped \subseteq dropped'
      BY <2>3, <2>8 DEF JobSettings, ReadRow, FinishJob
    <3>2. CASE a # job.asset \/ JobRow = {}
      <4>1. JobsOf(a) # {} => JobsOf(a)' # {}
        BY <2>8, <3>2 DEF JobRow, JobsOf
      <4> QED
        BY <2>2, <3>1, <4>1
    <3>3. CASE a = job.asset /\ JobRow # {}
      <4>1. CASE JobSettings
        BY <2>2, <3>1, <3>3, <4>1 DEF JobSettings, JobsOf
      <4>2. CASE ReadRow /\ row[a] # "live"
        BY <1>1, <2>1, <4>2
      <4>3. CASE ReadRow /\ row[a] = "live"
        <5>1. UNCHANGED <<jobs, dropped>>
          BY <3>3, <4>3 DEF ReadRow
        <5> QED
          BY <2>2, <3>1, <5>1 DEF JobsOf
      <4>4. CASE FinishJob
        <5>1. job \in Job /\ wpc = "finish" /\ dropped' = dropped
          BY <2>8, <4>4 DEF FinishJob, TypeOK
        <5>2. ASSUME job.action = "delete" PROVE Overtaken(a)
          BY <1>1, <2>1, <2>8, <3>3, <5>1, <5>2 DEF CopyOK, DeleteDone
        <5>3. ASSUME job.action = "put" PROVE Overtaken(a)
          <6>1. Copying(a) /\ remote[a] = opened
            BY <2>8, <3>3, <5>1, <5>3 DEF CopyOK, Copying, PutDone
          <6> QED
            BY <1>1, <2>1, <2>8, <6>1 DEF CopyOK
        <5>4. Overtaken(a)
          BY <5>1, <5>2, <5>3 DEF Job, Actions
        <5>5. (\E k \in JobsOf(a) : k.id # job.id) => JobsOf(a)' # {}
          BY <2>8 DEF JobRow, JobsOf
        <5> QED
          BY <2>2, <5>1, <5>4, <5>5 DEF Overtaken
      <4> QED
        BY <2>8, <4>1, <4>2, <4>3, <4>4
    <3> QED
      BY <3>2, <3>3
  <2>9. ASSUME UNCHANGED <<remote, replica>>,
               FailJob \/ \E b \in Assets : BackoffEnds(b)
        PROVE  Corrected(a)'
    <3>1. SameRows /\ dropped' = dropped /\ Corrected(a)
      BY <2>3, <2>9, DueOnly DEF FailJob, BackoffEnds
    <3> QED
      BY <2>2, <3>1 DEF SameRows, JobsOf
  <2>10. ASSUME UNCHANGED <<remote, replica, jobs>>, dropped \subseteq dropped'
         PROVE  Corrected(a)'
    BY <2>2, <2>3, <2>10 DEF JobsOf
  <2> QED
    BY <1>7, <2>4, <2>5, <2>6, <2>7, <2>8, <2>9, <2>10, WorkerStore, WorkerQueue
<1> QED
  BY Steps, <1>4, <1>5, <1>6, <1>7

-----------------------------------------------------------------------------
(* The theorems.                                                           *)

LEMMA Initially ==
    ASSUME ConstantsAssumption, Init
    PROVE  IInv
  BY DEF ConstantsAssumption, Init, IInv, TypeOK, HandlerOK, WorkerOK, HeldOK,
  AbsentOK, CopyOK, DeleteOK, SyncedIsCurrent, RequestPC, WorkerPC, Held, JobsOf,
  PutDone, DeleteDone, Copying, DeleteUnderway

(* In every reachable state the inductive invariant holds.                 *)
THEOREM Invariance == Spec => []IInv
<1>1. Init => IInv
  BY Initially, ConstantsAssumption
<1>2. IInv /\ [Next]_vars => IInv'
  BY ConstantsAssumption, TypePreserved, HandlerPreserved, WorkerPreserved,
  HeldPreserved, AbsentPreserved, CopyPreserved, DeletePreserved,
  SyncedPreserved DEF IInv
<1> QED
  BY <1>1, <1>2, PTL DEF Spec

(* Every variable keeps its type, and the queue at most one job for an     *)
(* asset, whatever handlers and worker interleave.                         *)
THEOREM TypeCorrect == Spec => []TypeOK
  BY Invariance, PTL DEF IInv

(* A live asset that Status counts as synced has its current version at    *)
(* the destination, or is about to, or lost its job in one of the ways the *)
(* property names.                                                         *)
THEOREM SyncedCurrent == Spec => []SyncedIsCurrent
  BY Invariance, PTL DEF IInv

(* A remote copy outlives its asset only while its deletion is queued, or  *)
(* because it was dropped or could not be queued.                          *)
THEOREM OrphansHaveDelete == Spec => []OrphanHasDelete
<1>1. IInv => OrphanHasDelete
  BY DEF IInv, DeleteOK, OrphanHasDelete, HasDelete
<1> QED
  BY <1>1, Invariance, PTL

(* No step puts an older version over a newer one at the destination.      *)
THEOREM NoRegression == Spec => RemoteNeverRegresses
<1>1. IInv /\ [Next]_vars =>
        [\A a \in Assets : remote'[a] = 0 \/ remote'[a] >= remote[a]]_remote
  <2> SUFFICES ASSUME IInv, [Next]_vars, NEW a \in Assets, remote' # remote
               PROVE  remote'[a] = 0 \/ remote'[a] >= remote[a]
    OBVIOUS
  <2>1. TypeOK /\ WorkerOK /\ CopyOK
    BY DEF IInv
  <2>2. DeleteRemote \/ SaveRemote
    BY <2>1, Steps, RequestFrame, WorkerStore DEF SetEnabled, Crash, store, vars
  <2>3. /\ job.asset \in Assets /\ remote[a] \in Nat /\ opened \in Nat
        /\ wpc = "copy" => remote[job.asset] <= opened
    BY <2>1, <2>2, ConstantsAssumption
    DEF DeleteRemote, SaveRemote, WorkerOK, TypeOK, Job, CopyOK, ConstantsAssumption
  <2> QED
    BY <2>1, <2>2, <2>3 DEF DeleteRemote, SaveRemote, TypeOK
<1> QED
  BY <1>1, Invariance, PTL DEF Spec, RemoteNeverRegresses
=============================================================================
