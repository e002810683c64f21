------------------------- MODULE UploadSessionProofs ------------------------
(***************************************************************************)
(* Proofs about UploadSession, for any sessions, requests, chunk size and  *)
(* limits: the inductive invariant IInv, the safety properties it implies, *)
(* and that every session behaves as one transfer (Transfer).              *)
(***************************************************************************)
EXTENDS UploadSession, TLAPS

-----------------------------------------------------------------------------
(* The inductive invariant.                                                *)

\* Steps at which a request is the only one to dispose of its upload.
Owning == {"cr_lock", "prune", "cp_map", "cn_map", "sp_copy", "st_open",
           "store", "unlink"}

Creating == {"cr_lock", "prune"}
Waiting  == {"wr_lock", "cp_lock", "cn_lock"}
Sealed   == {"cp_map", "st_open", "store"}

\* Who holds which mutex, and which requests can be where.
LocksOK ==
    /\ \A r \in Requests : mmu = r <=> rpc[r] = "prune"
    /\ \A r \in Requests : \A i \in Sessions :
          smu[i] = r <=> rpc[r] = "copy" /\ rid[r] = i

RequestsOK ==
    /\ \A r \in Requests : rpc[r] # "idle" => rid[r] \in used
    /\ \A r \in Requests : rpc[r] = "idle" => rid[r] = None
    /\ \A r \in Requests : rpc[r] # "copy" => rgot[r] = 0
    /\ \A r \in Requests : rpc[r] = "sp_copy" => rid[r] \in Spools
    /\ \A r \in Requests :
          rpc[r] \in FindPC \cup Creating \cup Waiting \cup {"cp_map", "cn_map", "copy"} =>
              rid[r] \in Sessions
    /\ \A r, q \in Requests :
          rpc[r] \in Owning /\ rpc[q] \in Owning /\ rid[r] = rid[q] => r = q

\* How far each request's session has come.
SessionsOK ==
    /\ open \subseteq used /\ done \subseteq used /\ stale \subseteq used
    /\ \A r \in Requests : rpc[r] \in Creating => rid[r] \notin open \cup done \cup stale
    /\ \A r \in Requests : rpc[r] \in Waiting => rid[r] \in open \cup done
    /\ \A r \in Requests :
          /\ rpc[r] \in {"cp_map", "cn_map", "st_open", "store", "unlink"}
          /\ rid[r] \in Sessions
          => rid[r] \in done
    /\ \A r \in Requests :
          rpc[r] \in {"st_open", "store", "unlink"} => rid[r] \notin open

\* A chunk on its way into a file: the session waits for it.
CopyingOK ==
    \A r \in Requests :
        rpc[r] = "copy" =>
            /\ rid[r] \in open \ done
            /\ roff[r] = received[rid[r]] /\ roff[r] < size[rid[r]]
            /\ rgot[r] <= size[rid[r]] - roff[r] + 1
            /\ roff[r] + rgot[r] <= len[rid[r]]

\* What the staging files hold.
Contiguous == \A i \in Uploads : bytes[i] = 0 .. len[i] - 1

FilesOK ==
    /\ Contiguous
    /\ \A i \in Sessions : received[i] <= len[i] /\ received[i] <= size[i]
    /\ \A i \in Sessions : received[i] = size[i] => len[i] = size[i]
    /\ \A i \in Uploads \ used :
          len[i] = 0 /\ stored[i] = 0 /\ (i \in Sessions => received[i] = 0 /\ size[i] = 0)
    /\ part \subseteq used /\ old \subseteq used

\* Which files are there, and which of them pruning may find old.
PartOK ==
    /\ \A i \in part : i \in open \/ At(i, Owning) \/ i \in left
    /\ \A i \in open \ done : i \in part
    /\ \A i \in open \ done : i \in old => i \in stale
    /\ \A r \in Requests :
          rpc[r] \in Creating => rid[r] \in part /\ rid[r] \notin old
    /\ \A r \in Requests :
          rpc[r] = "prune" =>
              /\ rtodo[r] \subseteq open \cup done
              /\ \A i \in open \ done : i \in stale => i \in rtodo[r]

\* Which sessions have become assets.
StoredOK ==
    /\ \A i \in Sessions : stored[i] > 0 => i \in done /\ received[i] = size[i]
    /\ \A r \in Requests :
          rpc[r] \in Sealed \cup Creating \cup {"sp_copy"} => stored[rid[r]] = 0
    /\ \A r \in Requests :
          rpc[r] \in {"st_open", "store"} /\ rid[r] \in Sessions =>
              received[rid[r]] = size[rid[r]]

IInv ==
    /\ TypeOK /\ LocksOK /\ RequestsOK /\ SessionsOK /\ CopyingOK
    /\ FilesOK /\ PartOK /\ StoredOK /\ StoredIsWhole

-----------------------------------------------------------------------------
(* Steps.                                                                  *)

Find(r, i) ==
    \E pc \in FindPC, offset \in 0 .. MaxSize : Request(r, pc, i, offset)

(* The alternatives of a step, as the proofs below take them.              *)
LEMMA Steps ==
    ASSUME ConstantsAssumption, [Next]_vars
    PROVE  \/ \E r \in Requests :
                \/ \E i \in Sessions : StartUpload(r, i) \/ Find(r, i)
                \/ \E i \in Spools : SpoolBegin(r, i)
                \/ Server(r) \/ Body(r)
           \/ \E i \in Uploads : Age(i)
           \/ Restart
           \/ UNCHANGED vars
<1>1. ASSUME NEW r \in Requests, Arrive(r)
      PROVE  \/ \E i \in Sessions : StartUpload(r, i) \/ Find(r, i)
             \/ \E i \in Spools : SpoolBegin(r, i)
  <2>1. \A i \in Sessions : CompleteUpload(r, i) \/ CancelUpload(r, i) => Find(r, i)
    <3>1. 0 \in 0 .. MaxSize
      BY DEF ConstantsAssumption
    <3> QED
      BY <3>1 DEF CompleteUpload, CancelUpload, Find, FindPC
  <2>2. \A i \in Sessions, offset \in 0 .. MaxSize :
           WriteUploadChunk(r, i, offset) => Find(r, i)
    BY DEF WriteUploadChunk, Find, FindPC
  <2> QED
    BY <1>1, <2>1, <2>2 DEF Arrive
<1> QED
  BY <1>1 DEF Next

RequestsTyped ==
    /\ rpc \in [Requests -> RequestPC]
    /\ rid \in [Requests -> Uploads \cup {None}]
    /\ roff \in [Requests -> 0 .. MaxSize]
    /\ rgot \in [Requests -> 0 .. MaxSize + 1]
    /\ rtodo \in [Requests -> SUBSET Sessions]

(* Going on and ending keep the requests well typed.                       *)
LEMMA RequestType ==
    ASSUME ConstantsAssumption, RequestsTyped, NEW r \in Requests,
           NEW pc \in RequestPC, Goto(r, pc) \/ End(r)
    PROVE  RequestsTyped'
<1>1. CASE Goto(r, pc)
  BY <1>1 DEF RequestsTyped, Goto
<1>2. CASE End(r)
  BY <1>2 DEF RequestsTyped, End, RequestPC, ConstantsAssumption
<1> QED
  BY <1>1, <1>2

(* A byte that goes to the end of a file, or before it, leaves no gap.     *)
LEMMA PutByteFile ==
    ASSUME ConstantsAssumption, TypeOK, Contiguous,
           NEW i \in Uploads, NEW p \in 0 .. len[i], PutByte(i, p)
    PROVE  /\ Contiguous'
           /\ \A j \in Uploads :
                 len'[j] \in Nat /\ len'[j] >= len[j] /\ (j # i => len'[j] = len[j])
<1>1. len[i] \in Nat /\ p \in Nat /\ p <= len[i]
  BY DEF TypeOK, ConstantsAssumption
<1>2. \A j \in Uploads : len'[j] = IF j = i /\ len[i] <= p THEN p + 1 ELSE len[j]
  BY <1>1 DEF PutByte, TypeOK, ConstantsAssumption
<1>3. \A j \in Uploads : bytes'[j] = IF j = i THEN bytes[i] \cup {p} ELSE bytes[j]
  BY DEF PutByte, TypeOK
<1>4. bytes'[i] = 0 .. len'[i] - 1
  <2>1. bytes[i] = 0 .. len[i] - 1
    BY DEF Contiguous
  <2>2. CASE len[i] <= p
    <3>1. (0 .. p - 1) \cup {p} = 0 .. p
      BY <1>1
    <3>2. len[i] = p /\ len'[i] = p + 1
      BY <1>1, <1>2, <2>2
    <3>3. len'[i] - 1 = p
      BY <1>1, <3>2
    <3> QED
      BY <1>3, <2>1, <3>1, <3>2, <3>3
  <2>3. CASE len[i] > p
    <3>1. p \in 0 .. len[i] - 1 /\ len'[i] = len[i]
      BY <1>1, <1>2, <2>3
    <3> QED
      BY <1>3, <2>1, <3>1
  <2> QED
    BY <1>1, <2>2, <2>3
<1>5. \A j \in Uploads : len[j] \in Nat
  BY DEF TypeOK, ConstantsAssumption
<1> QED
  BY <1>1, <1>2, <1>3, <1>4, <1>5 DEF Contiguous

(* Neither does cutting a file off.                                        *)
LEMMA TruncateFile ==
    ASSUME ConstantsAssumption, TypeOK, Contiguous,
           NEW i \in Uploads, NEW n \in 0 .. len[i], Truncate(i, n)
    PROVE  /\ Contiguous'
           /\ \A j \in Uploads : j # i => len'[j] = len[j]
           /\ len'[i] = n
<1>1. len[i] \in Nat /\ n \in Nat /\ n <= len[i]
  BY DEF TypeOK, ConstantsAssumption
<1>2. \A j \in Uploads : len'[j] = IF j = i THEN n ELSE len[j]
  BY DEF Truncate, TypeOK
<1>3. \A j \in Uploads :
         bytes'[j] = IF j = i THEN {p \in bytes[i] : p < n} ELSE bytes[j]
  BY DEF Truncate, TypeOK
<1>4. bytes'[i] = 0 .. n - 1
  <2>1. bytes[i] = 0 .. len[i] - 1
    BY DEF Contiguous
  <2>2. {p \in 0 .. len[i] - 1 : p < n} = 0 .. n - 1
    BY <1>1
  <2> QED
    BY <1>3, <2>1, <2>2
<1> QED
  BY <1>2, <1>3, <1>4 DEF Contiguous

(* Which requests are where after a step of request r.                     *)
LEMMA AtAfter ==
    ASSUME TypeOK, NEW r \in Requests, NEW pcs, NEW j,
           \A q \in Requests \ {r} : rpc'[q] = rpc[q] /\ rid'[q] = rid[q]
    PROVE  At(j, pcs)' <=> \/ rid'[r] = j /\ rpc'[r] \in pcs
                           \/ \E q \in Requests \ {r} : rid[q] = j /\ rpc[q] \in pcs
  BY DEF At

(* Every variable keeps its type.                                         *)
LEMMA TypePreserved ==
    ASSUME ConstantsAssumption, TypeOK, RequestsOK, CopyingOK, [Next]_vars
    PROVE  TypeOK'
<1>1. ASSUME NEW r \in Requests, NEW i \in Sessions, StartUpload(r, i)
     PROVE  TypeOK'
  BY <1>1 DEF StartUpload, Begin, NewFile, locks, library, bounds, TypeOK,
     RequestPC, FindPC, Uploads, ConstantsAssumption
<1>2. ASSUME NEW r \in Requests, NEW i \in Sessions, Find(r, i)
     PROVE  TypeOK'
  BY <1>2 DEF Find, Request, Begin, sessions, files, locks, library, bounds,
     FindPC, TypeOK, RequestPC, Uploads, ConstantsAssumption
<1>3. ASSUME NEW r \in Requests, NEW i \in Spools, SpoolBegin(r, i)
     PROVE  TypeOK'
  BY <1>3 DEF SpoolBegin, Begin, NewFile, locks, library, bounds, TypeOK,
     RequestPC, FindPC, Uploads, ConstantsAssumption
<1>4. ASSUME NEW r \in Requests, CreateLock(r)
     PROVE  TypeOK'
  BY <1>4 DEF CreateLock, sessions, files, library, bounds, TypeOK, RequestPC,
     FindPC, Uploads, ConstantsAssumption
<1>5. ASSUME NEW r \in Requests, PruneSession(r)
     PROVE  TypeOK'
  BY <1>5 DEF PruneSession, locks, library, bounds, TypeOK, RequestPC, FindPC,
     Uploads, ConstantsAssumption
<1>6. ASSUME NEW r \in Requests, PruneFiles(r)
     PROVE  TypeOK'
  <2>1. RequestsTyped'
    BY <1>6, RequestType DEF PruneFiles, TypeOK, RequestsTyped, RequestPC
  <2> QED
    BY <1>6, <2>1 DEF PruneFiles, library, bounds, TypeOK, RequestsTyped, RequestsOK,
       Creating
<1>7. ASSUME NEW r \in Requests, Lookup(r)
     PROVE  TypeOK'
  <2>1. RequestsTyped'
    <3>1. Lock(rpc[r]) \in RequestPC
      BY <1>7 DEF Lookup, Lock, FindPC, RequestPC
    <3> QED
      BY <1>7, <3>1, RequestType DEF Lookup, TypeOK, RequestsTyped, RequestPC
  <2> QED
    BY <1>7, <2>1 DEF Lookup, sessions, files, locks, library, bounds, TypeOK,
       RequestsTyped
<1>8. ASSUME NEW r \in Requests, WriteBegin(r)
     PROVE  TypeOK'
  <2>1. RequestsTyped'
    BY <1>8, RequestType DEF WriteBegin, TypeOK, RequestsTyped, RequestPC
  <2>2. smu' \in [Sessions -> Requests \cup {None}]
    BY <1>8 DEF WriteBegin, TypeOK
  <2> QED
    BY <1>8, <2>1, <2>2 DEF WriteBegin, sessions, files, library, bounds, TypeOK,
       RequestsTyped
<1>9. ASSUME NEW r \in Requests, DetachLock(r)
     PROVE  TypeOK'
  <2>1. RequestsTyped'
    BY <1>9, RequestType DEF DetachLock, TypeOK, RequestsTyped, RequestPC
  <2>2. done' \subseteq Sessions
    BY <1>9 DEF DetachLock, TypeOK, RequestsOK, Waiting
  <2> QED
    BY <1>9, <2>1, <2>2 DEF DetachLock, files, locks, library, bounds, TypeOK,
       RequestsTyped
<1>10. ASSUME NEW r \in Requests, DetachMap(r)
     PROVE  TypeOK'
  BY <1>10 DEF DetachMap, Goto, files, locks, library, bounds, TypeOK,
     RequestPC, FindPC, Uploads, ConstantsAssumption
<1>11. ASSUME NEW r \in Requests, StoreOpen(r)
     PROVE  TypeOK'
  BY <1>11 DEF StoreOpen, Goto, sessions, files, locks, library, bounds,
     TypeOK, RequestPC, FindPC, Uploads, ConstantsAssumption
<1>12. ASSUME NEW r \in Requests, Store(r)
     PROVE  TypeOK'
  BY <1>12 DEF Store, Goto, sessions, files, locks, bounds, TypeOK, RequestPC,
     FindPC, Uploads, ConstantsAssumption, Content, RequestsOK
<1>13. ASSUME NEW r \in Requests, StoreFail(r)
     PROVE  TypeOK'
  BY <1>13 DEF StoreFail, Goto, sessions, files, locks, library, bounds,
     TypeOK, RequestPC, FindPC, Uploads, ConstantsAssumption
<1>14. ASSUME NEW r \in Requests, Unlink(r)
     PROVE  TypeOK'
  BY <1>14 DEF Unlink, End, sessions, locks, library, bounds, TypeOK,
     RequestPC, FindPC, Uploads, ConstantsAssumption
<1>15. ASSUME NEW r \in Requests, CopyByte(r)
     PROVE  TypeOK'
  BY <1>15 DEF CopyByte, Remaining, PutByte, sessions, locks, library, bounds,
     TypeOK, RequestPC, FindPC, Uploads, ConstantsAssumption, CopyingOK
<1>16. ASSUME NEW r \in Requests, CopyDone(r)
     PROVE  TypeOK'
  <2>1. RequestsTyped'
    BY <1>16, RequestType DEF CopyDone, TypeOK, RequestsTyped, RequestPC
  <2>2. rid[r] \in Sessions /\ size[rid[r]] \in 0 .. MaxSize
    BY <1>16 DEF CopyDone, RequestsOK, TypeOK
  <2>3. roff[r] + rgot[r] \in 0 .. MaxSize
    BY <1>16, <2>2 DEF CopyDone, Remaining, TypeOK, ConstantsAssumption
  <2>4. /\ received' \in [Sessions -> 0 .. MaxSize]
        /\ len' \in [Uploads -> 0 .. MaxSize + 1]
    <3>1. received[rid[r]] = roff[r] /\ 0 .. MaxSize \subseteq 0 .. MaxSize + 1
      BY <1>16 DEF CopyDone, CopyingOK, ConstantsAssumption
    <3> QED
      BY SMTT(30), <1>16, <2>2, <2>3, <3>1 DEF CopyDone, Truncate, files, TypeOK
  <2>5. /\ bytes' \in [Uploads -> SUBSET (0 .. MaxSize)]
        /\ old' \subseteq Uploads /\ part' \subseteq Uploads /\ stale' \subseteq Sessions
        /\ faults' \in 0 .. MaxFaults /\ stops' = stops
    BY <1>16 DEF CopyDone, Truncate, files, Fault, bounds, TypeOK, ConstantsAssumption
  <2> QED
    BY <1>16, <2>1, <2>4, <2>5 DEF CopyDone, Unlock, library, TypeOK, RequestsTyped
<1>17. ASSUME NEW r \in Requests, CopyFail(r)
     PROVE  TypeOK'
  <2>1. RequestsTyped'
    BY <1>17, RequestType DEF CopyFail, TypeOK, RequestsTyped, RequestPC
  <2>2. /\ len' \in [Uploads -> 0 .. MaxSize + 1]
        /\ bytes' \in [Uploads -> SUBSET (0 .. MaxSize)]
        /\ old' \subseteq Uploads /\ part' \subseteq Uploads
        /\ faults' \in 0 .. MaxFaults /\ stops' = stops
    BY <1>17 DEF CopyFail, Truncate, files, Fault, bounds, TypeOK, ConstantsAssumption
  <2> QED
    BY <1>17, <2>1, <2>2 DEF CopyFail, Unlock, sessions, library, TypeOK, RequestsTyped
<1>18. ASSUME NEW r \in Requests, SpoolByte(r)
     PROVE  TypeOK'
  BY <1>18 DEF SpoolByte, PutByte, sessions, locks, requests, library, bounds,
     TypeOK, RequestPC, FindPC, Uploads, ConstantsAssumption, RequestsOK
<1>19. ASSUME NEW r \in Requests, SpoolDone(r)
     PROVE  TypeOK'
  BY <1>19 DEF SpoolDone, Goto, sessions, files, locks, library, bounds,
     TypeOK, RequestPC, FindPC, Uploads, ConstantsAssumption
<1>20. ASSUME NEW r \in Requests, SpoolFail(r)
     PROVE  TypeOK'
  BY <1>20 DEF SpoolFail, Goto, sessions, files, locks, library, bounds,
     TypeOK, RequestPC, FindPC, Uploads, ConstantsAssumption
<1>21. ASSUME NEW i \in Uploads, Age(i)
     PROVE  TypeOK'
  BY <1>21 DEF Age, Pruning, locks, requests, library, bounds, TypeOK,
     RequestPC, FindPC, Uploads, ConstantsAssumption
<1>22. CASE Restart
  BY <1>22 DEF Restart, files, library, TypeOK, RequestPC, FindPC, Uploads,
     ConstantsAssumption
<1>23. CASE UNCHANGED vars
  BY <1>23 DEF vars, sessions, files, locks, requests, library, bounds,
     TypeOK, RequestPC, FindPC, Uploads, ConstantsAssumption
<1> QED
  BY Steps, <1>1, <1>2, <1>3, <1>4, <1>5, <1>6, <1>7, <1>8, <1>9, <1>10,
     <1>11, <1>12, <1>13, <1>14, <1>15, <1>16, <1>17, <1>18, <1>19, <1>20,
     <1>21, <1>22, <1>23 DEF Server, Body

(* Each mutex is held by the request that is inside its critical section.  *)
LEMMA LocksPreserved ==
    ASSUME ConstantsAssumption, TypeOK, LocksOK, RequestsOK, [Next]_vars
    PROVE  LocksOK'
<1>1. ASSUME NEW r \in Requests, NEW i \in Sessions, StartUpload(r, i)
     PROVE  LocksOK'
  BY <1>1 DEF StartUpload, Begin, NewFile, locks, library, bounds, LocksOK,
     TypeOK, ConstantsAssumption, Uploads
<1>2. ASSUME NEW r \in Requests, NEW i \in Sessions, Find(r, i)
     PROVE  LocksOK'
  BY <1>2 DEF Find, Request, Begin, sessions, files, locks, library, bounds,
     FindPC, LocksOK, TypeOK, ConstantsAssumption
<1>3. ASSUME NEW r \in Requests, NEW i \in Spools, SpoolBegin(r, i)
     PROVE  LocksOK'
  BY <1>3 DEF SpoolBegin, Begin, NewFile, locks, library, bounds, LocksOK,
     TypeOK, ConstantsAssumption
<1>4. ASSUME NEW r \in Requests, CreateLock(r)
     PROVE  LocksOK'
  BY <1>4 DEF CreateLock, sessions, files, library, bounds, LocksOK, TypeOK,
     ConstantsAssumption
<1>5. ASSUME NEW r \in Requests, PruneSession(r)
     PROVE  LocksOK'
  BY <1>5 DEF PruneSession, locks, library, bounds, LocksOK, TypeOK,
     ConstantsAssumption
<1>6. ASSUME NEW r \in Requests, PruneFiles(r)
     PROVE  LocksOK'
  BY <1>6 DEF PruneFiles, End, library, bounds, LocksOK, TypeOK,
     ConstantsAssumption
<1>7. ASSUME NEW r \in Requests, Lookup(r)
     PROVE  LocksOK'
  BY <1>7 DEF Lookup, FindPC, Visible, Goto, Lock, End, sessions, files,
     locks, library, bounds, LocksOK, TypeOK, ConstantsAssumption, RequestPC
<1>8. ASSUME NEW r \in Requests, WriteBegin(r)
     PROVE  LocksOK'
  BY <1>8 DEF WriteBegin, Accepts, Goto, End, sessions, files, library,
     bounds, LocksOK, TypeOK, ConstantsAssumption, RequestsOK
<1>9. ASSUME NEW r \in Requests, DetachLock(r)
     PROVE  LocksOK'
  BY <1>9 DEF DetachLock, Goto, End, files, locks, library, bounds, LocksOK,
     TypeOK, ConstantsAssumption
<1>10. ASSUME NEW r \in Requests, DetachMap(r)
     PROVE  LocksOK'
  BY <1>10 DEF DetachMap, Goto, files, locks, library, bounds, LocksOK,
     TypeOK, ConstantsAssumption
<1>11. ASSUME NEW r \in Requests, StoreOpen(r)
     PROVE  LocksOK'
  BY <1>11 DEF StoreOpen, Goto, sessions, files, locks, library, bounds,
     LocksOK, TypeOK, ConstantsAssumption
<1>12. ASSUME NEW r \in Requests, Store(r)
     PROVE  LocksOK'
  BY <1>12 DEF Store, Goto, sessions, files, locks, bounds, LocksOK, TypeOK,
     ConstantsAssumption
<1>13. ASSUME NEW r \in Requests, StoreFail(r)
     PROVE  LocksOK'
  BY <1>13 DEF StoreFail, Goto, sessions, files, locks, library, bounds,
     LocksOK, TypeOK, ConstantsAssumption
<1>14. ASSUME NEW r \in Requests, Unlink(r)
     PROVE  LocksOK'
  BY <1>14 DEF Unlink, End, sessions, locks, library, bounds, LocksOK, TypeOK,
     ConstantsAssumption
<1>15. ASSUME NEW r \in Requests, CopyByte(r)
     PROVE  LocksOK'
  BY <1>15 DEF CopyByte, Remaining, PutByte, sessions, locks, library, bounds,
     LocksOK, TypeOK, ConstantsAssumption
<1>16. ASSUME NEW r \in Requests, CopyDone(r)
     PROVE  LocksOK'
  BY <1>16 DEF CopyDone, Remaining, Truncate, bounds, Fault, files, Unlock,
     End, library, LocksOK, TypeOK, ConstantsAssumption, RequestsOK
<1>17. ASSUME NEW r \in Requests, CopyFail(r)
     PROVE  LocksOK'
  BY <1>17 DEF CopyFail, Truncate, bounds, Fault, files, Unlock, End,
     sessions, library, LocksOK, TypeOK, ConstantsAssumption, RequestsOK
<1>18. ASSUME NEW r \in Requests, SpoolByte(r)
     PROVE  LocksOK'
  BY <1>18 DEF SpoolByte, PutByte, sessions, locks, requests, library, bounds,
     LocksOK, TypeOK, ConstantsAssumption
<1>19. ASSUME NEW r \in Requests, SpoolDone(r)
     PROVE  LocksOK'
  BY <1>19 DEF SpoolDone, Goto, sessions, files, locks, library, bounds,
     LocksOK, TypeOK, ConstantsAssumption
<1>20. ASSUME NEW r \in Requests, SpoolFail(r)
     PROVE  LocksOK'
  BY <1>20 DEF SpoolFail, Goto, sessions, files, locks, library, bounds,
     LocksOK, TypeOK, ConstantsAssumption
<1>21. ASSUME NEW i \in Uploads, Age(i)
     PROVE  LocksOK'
  BY <1>21 DEF Age, Pruning, locks, requests, library, bounds, LocksOK,
     TypeOK, ConstantsAssumption
<1>22. CASE Restart
  BY <1>22 DEF Restart, files, library, LocksOK, TypeOK, ConstantsAssumption
<1>23. CASE UNCHANGED vars
  BY <1>23 DEF vars, sessions, files, locks, requests, library, bounds,
     LocksOK, TypeOK, ConstantsAssumption
<1> QED
  BY Steps, <1>1, <1>2, <1>3, <1>4, <1>5, <1>6, <1>7, <1>8, <1>9, <1>10,
     <1>11, <1>12, <1>13, <1>14, <1>15, <1>16, <1>17, <1>18, <1>19, <1>20,
     <1>21, <1>22, <1>23 DEF Server, Body

(* A request keeps to its upload, and is the only one to dispose of it.    *)
LEMMA RequestsPreserved ==
    ASSUME ConstantsAssumption, TypeOK, RequestsOK, SessionsOK, [Next]_vars
    PROVE  RequestsOK'
<1>1. ASSUME NEW r \in Requests, NEW i \in Sessions, StartUpload(r, i)
     PROVE  RequestsOK'
  BY <1>1 DEF StartUpload, Begin, NewFile, locks, library, bounds, RequestsOK,
     SessionsOK, TypeOK, ConstantsAssumption, Owning, Creating, Waiting,
     FindPC, Uploads
<1>2. ASSUME NEW r \in Requests, NEW i \in Sessions, Find(r, i)
     PROVE  RequestsOK'
  BY <1>2 DEF Find, Request, Begin, sessions, files, locks, library, bounds,
     FindPC, RequestsOK, SessionsOK, TypeOK, ConstantsAssumption, Owning,
     Creating, Waiting, Uploads
<1>3. ASSUME NEW r \in Requests, NEW i \in Spools, SpoolBegin(r, i)
     PROVE  RequestsOK'
  BY <1>3 DEF SpoolBegin, Begin, NewFile, locks, library, bounds, RequestsOK,
     SessionsOK, TypeOK, ConstantsAssumption, Owning, Creating, Waiting,
     FindPC, Uploads
<1>4. ASSUME NEW r \in Requests, CreateLock(r)
     PROVE  RequestsOK'
  BY <1>4 DEF CreateLock, sessions, files, library, bounds, RequestsOK,
     SessionsOK, TypeOK, ConstantsAssumption, Owning, Creating, Waiting,
     FindPC, Uploads
<1>5. ASSUME NEW r \in Requests, PruneSession(r)
     PROVE  RequestsOK'
  BY <1>5 DEF PruneSession, locks, library, bounds, RequestsOK, SessionsOK,
     TypeOK, ConstantsAssumption, Owning, Creating, Waiting, FindPC, Uploads
<1>6. ASSUME NEW r \in Requests, PruneFiles(r)
     PROVE  RequestsOK'
  BY <1>6 DEF PruneFiles, End, library, bounds, RequestsOK, SessionsOK,
     TypeOK, ConstantsAssumption, Owning, Creating, Waiting, FindPC, Uploads
<1>7. ASSUME NEW r \in Requests, Lookup(r)
     PROVE  RequestsOK'
  <2>1. CASE Visible(r)
    <3>1. Lock(rpc[r]) \in Waiting
      BY <1>7 DEF Lookup, Lock, FindPC, Waiting
    <3> QED
      BY SMTT(30), <1>7, <2>1, <3>1 DEF Lookup, Visible, Goto, End, sessions, files, locks,
         library, bounds, RequestsOK, SessionsOK, TypeOK, ConstantsAssumption,
         Owning, Creating, Waiting, FindPC, Uploads
  <2>2. CASE ~Visible(r)
    <3>1. End(r) /\ UNCHANGED <<sessions, files, locks, library, left, bounds>>
      BY <1>7, <2>2 DEF Lookup, Goto, sessions
    <3>2. rpc[r] \notin Owning
      BY <1>7 DEF Lookup, Owning, FindPC
    <3> QED
      BY <3>1, <3>2 DEF End, sessions, files, locks, library, bounds,
         RequestsOK, SessionsOK, TypeOK, ConstantsAssumption, Owning,
         Creating, Waiting, FindPC, Uploads
  <2> QED
    BY <2>1, <2>2
<1>8. ASSUME NEW r \in Requests, WriteBegin(r)
     PROVE  RequestsOK'
  <2>1. CASE Accepts(r)
    BY <1>8, <2>1 DEF WriteBegin, Goto, End, sessions, files, library, bounds,
       RequestsOK, SessionsOK, TypeOK, ConstantsAssumption, Owning, Creating,
       Waiting, FindPC, Uploads
  <2>2. CASE ~Accepts(r)
    <3>1. End(r) /\ UNCHANGED <<smu, sessions, files, mmu, library, left, bounds>>
      BY <1>8, <2>2 DEF WriteBegin, Goto, sessions
    <3>2. rpc[r] \notin Owning
      BY <1>8 DEF WriteBegin, Owning, FindPC
    <3> QED
      BY <3>1, <3>2 DEF End, sessions, files, locks, library, bounds,
         RequestsOK, SessionsOK, TypeOK, ConstantsAssumption, Owning,
         Creating, Waiting, FindPC, Uploads
  <2> QED
    BY <2>1, <2>2
<1>9. ASSUME NEW r \in Requests, DetachLock(r)
     PROVE  RequestsOK'
  <2>1. CASE rid[r] \notin done
    BY <1>9, <2>1 DEF DetachLock, Goto, End, files, locks, library, bounds,
       RequestsOK, SessionsOK, TypeOK, ConstantsAssumption, Owning, Creating,
       Waiting, FindPC, Uploads
  <2>2. CASE rid[r] \in done
    <3>1. End(r) /\ UNCHANGED <<sessions, files, locks, library, left, bounds>>
      BY <1>9, <2>2 DEF DetachLock, Goto, sessions
    <3>2. rpc[r] \notin Owning
      BY <1>9 DEF DetachLock, Owning, FindPC
    <3> QED
      BY <3>1, <3>2 DEF End, sessions, files, locks, library, bounds,
         RequestsOK, SessionsOK, TypeOK, ConstantsAssumption, Owning,
         Creating, Waiting, FindPC, Uploads
  <2> QED
    BY <2>1, <2>2
<1>10. ASSUME NEW r \in Requests, DetachMap(r)
     PROVE  RequestsOK'
  BY SMTT(30), <1>10 DEF DetachMap, Goto, files, locks, library, bounds, RequestsOK,
     SessionsOK, TypeOK, ConstantsAssumption, Owning, Creating, Waiting,
     FindPC, Uploads
<1>11. ASSUME NEW r \in Requests, StoreOpen(r)
     PROVE  RequestsOK'
  BY <1>11 DEF StoreOpen, Goto, sessions, files, locks, library, bounds,
     RequestsOK, SessionsOK, TypeOK, ConstantsAssumption, Owning, Creating,
     Waiting, FindPC, Uploads
<1>12. ASSUME NEW r \in Requests, Store(r)
     PROVE  RequestsOK'
  BY <1>12 DEF Store, Goto, sessions, files, locks, bounds, RequestsOK,
     SessionsOK, TypeOK, ConstantsAssumption, Owning, Creating, Waiting,
     FindPC, Uploads
<1>13. ASSUME NEW r \in Requests, StoreFail(r)
     PROVE  RequestsOK'
  BY <1>13 DEF StoreFail, Goto, sessions, files, locks, library, bounds,
     RequestsOK, SessionsOK, TypeOK, ConstantsAssumption, Owning, Creating,
     Waiting, FindPC, Uploads
<1>14. ASSUME NEW r \in Requests, Unlink(r)
     PROVE  RequestsOK'
  BY <1>14 DEF Unlink, End, sessions, locks, library, bounds, RequestsOK,
     SessionsOK, TypeOK, ConstantsAssumption, Owning, Creating, Waiting,
     FindPC, Uploads
<1>15. ASSUME NEW r \in Requests, CopyByte(r)
     PROVE  RequestsOK'
  BY <1>15 DEF CopyByte, Remaining, PutByte, sessions, locks, library, bounds,
     RequestsOK, SessionsOK, TypeOK, ConstantsAssumption, Owning, Creating,
     Waiting, FindPC, Uploads
<1>16. ASSUME NEW r \in Requests, CopyDone(r)
     PROVE  RequestsOK'
  BY <1>16 DEF CopyDone, Remaining, Truncate, bounds, Fault, files, Unlock,
     End, library, RequestsOK, SessionsOK, TypeOK, ConstantsAssumption,
     Owning, Creating, Waiting, FindPC, Uploads
<1>17. ASSUME NEW r \in Requests, CopyFail(r)
     PROVE  RequestsOK'
  BY <1>17 DEF CopyFail, Truncate, bounds, Fault, files, Unlock, End,
     sessions, library, RequestsOK, SessionsOK, TypeOK, ConstantsAssumption,
     Owning, Creating, Waiting, FindPC, Uploads
<1>18. ASSUME NEW r \in Requests, SpoolByte(r)
     PROVE  RequestsOK'
  BY <1>18 DEF SpoolByte, PutByte, sessions, locks, requests, library, bounds,
     RequestsOK, SessionsOK, TypeOK, ConstantsAssumption, Owning, Creating,
     Waiting, FindPC, Uploads
<1>19. ASSUME NEW r \in Requests, SpoolDone(r)
     PROVE  RequestsOK'
  BY <1>19 DEF SpoolDone, Goto, sessions, files, locks, library, bounds,
     RequestsOK, SessionsOK, TypeOK, ConstantsAssumption, Owning, Creating,
     Waiting, FindPC, Uploads
<1>20. ASSUME NEW r \in Requests, SpoolFail(r)
     PROVE  RequestsOK'
  BY <1>20 DEF SpoolFail, Goto, sessions, files, locks, library, bounds,
     RequestsOK, SessionsOK, TypeOK, ConstantsAssumption, Owning, Creating,
     Waiting, FindPC, Uploads
<1>21. ASSUME NEW i \in Uploads, Age(i)
     PROVE  RequestsOK'
  BY <1>21 DEF Age, Pruning, locks, requests, library, bounds, RequestsOK,
     SessionsOK, TypeOK, ConstantsAssumption, Owning, Creating, Waiting,
     FindPC, Uploads
<1>22. CASE Restart
  BY <1>22 DEF Restart, files, library, RequestsOK, SessionsOK, TypeOK,
     ConstantsAssumption, Owning, Creating, Waiting, FindPC, Uploads
<1>23. CASE UNCHANGED vars
  BY <1>23 DEF vars, sessions, files, locks, requests, library, bounds,
     RequestsOK, SessionsOK, TypeOK, ConstantsAssumption, Owning, Creating,
     Waiting, FindPC, Uploads
<1> QED
  BY Steps, <1>1, <1>2, <1>3, <1>4, <1>5, <1>6, <1>7, <1>8, <1>9, <1>10,
     <1>11, <1>12, <1>13, <1>14, <1>15, <1>16, <1>17, <1>18, <1>19, <1>20,
     <1>21, <1>22, <1>23 DEF Server, Body

(* The sessions stay where the requests about them expect them.            *)
LEMMA SessionsPreserved ==
    ASSUME ConstantsAssumption, TypeOK, LocksOK, RequestsOK, SessionsOK, PartOK, [Next]_vars
    PROVE  SessionsOK'
<1>1. ASSUME NEW r \in Requests, NEW i \in Sessions, StartUpload(r, i)
     PROVE  SessionsOK'
  BY <1>1 DEF StartUpload, Begin, NewFile, locks, library, bounds, SessionsOK,
     RequestsOK, LocksOK, TypeOK, ConstantsAssumption, Owning, Creating,
     Waiting, Uploads
<1>2. ASSUME NEW r \in Requests, NEW i \in Sessions, Find(r, i)
     PROVE  SessionsOK'
  BY <1>2 DEF Find, Request, Begin, sessions, files, locks, library, bounds,
     FindPC, SessionsOK, RequestsOK, LocksOK, TypeOK, ConstantsAssumption,
     Owning, Creating, Waiting, Uploads
<1>3. ASSUME NEW r \in Requests, NEW i \in Spools, SpoolBegin(r, i)
     PROVE  SessionsOK'
  BY <1>3 DEF SpoolBegin, Begin, NewFile, locks, library, bounds, SessionsOK,
     RequestsOK, LocksOK, TypeOK, ConstantsAssumption, Owning, Creating,
     Waiting, Uploads
<1>4. ASSUME NEW r \in Requests, CreateLock(r)
     PROVE  SessionsOK'
  BY <1>4 DEF CreateLock, sessions, files, library, bounds, SessionsOK,
     RequestsOK, LocksOK, TypeOK, ConstantsAssumption, Owning, Creating,
     Waiting, Uploads
<1>5. ASSUME NEW r \in Requests, PruneSession(r)
     PROVE  SessionsOK'
  BY <1>5 DEF PruneSession, locks, library, bounds, SessionsOK, RequestsOK,
     LocksOK, TypeOK, ConstantsAssumption, Owning, Creating, Waiting, Uploads,
     PartOK
<1>6. ASSUME NEW r \in Requests, PruneFiles(r)
     PROVE  SessionsOK'
  BY <1>6 DEF PruneFiles, End, library, bounds, SessionsOK, RequestsOK,
     LocksOK, TypeOK, ConstantsAssumption, Owning, Creating, Waiting, Uploads
<1>7. ASSUME NEW r \in Requests, Lookup(r)
     PROVE  SessionsOK'
  <2>1. CASE Visible(r)
    <3>1. Lock(rpc[r]) \in Waiting
      BY <1>7 DEF Lookup, Lock, FindPC, Waiting
    <3> QED
      BY <1>7, <2>1, <3>1 DEF Lookup, FindPC, Visible, Goto, End, sessions,
         files, locks, library, bounds, SessionsOK, RequestsOK, LocksOK,
         TypeOK, ConstantsAssumption, Owning, Creating, Waiting, Uploads
  <2>2. CASE ~Visible(r)
    <3>1. End(r) /\ UNCHANGED <<sessions, files, locks, library, left, bounds>>
      BY <1>7, <2>2 DEF Lookup, Goto, sessions
    <3>2. rpc[r] \notin Owning
      BY <1>7 DEF Lookup, Owning, FindPC
    <3> QED
      BY <3>1, <3>2 DEF End, sessions, files, locks, library, bounds,
         SessionsOK, RequestsOK, LocksOK, TypeOK, ConstantsAssumption, Owning,
         Creating, Waiting, Uploads
  <2> QED
    BY <2>1, <2>2
<1>8. ASSUME NEW r \in Requests, WriteBegin(r)
     PROVE  SessionsOK'
  <2>1. CASE Accepts(r)
    BY <1>8, <2>1 DEF WriteBegin, Goto, End, sessions, files, library, bounds,
       SessionsOK, RequestsOK, LocksOK, TypeOK, ConstantsAssumption, Owning,
       Creating, Waiting, Uploads
  <2>2. CASE ~Accepts(r)
    <3>1. End(r) /\ UNCHANGED <<smu, sessions, files, mmu, library, left, bounds>>
      BY <1>8, <2>2 DEF WriteBegin, Goto, sessions
    <3>2. rpc[r] \notin Owning
      BY <1>8 DEF WriteBegin, Owning, FindPC
    <3> QED
      BY <3>1, <3>2 DEF End, sessions, files, locks, library, bounds,
         SessionsOK, RequestsOK, LocksOK, TypeOK, ConstantsAssumption, Owning,
         Creating, Waiting, Uploads
  <2> QED
    BY <2>1, <2>2
<1>9. ASSUME NEW r \in Requests, DetachLock(r)
     PROVE  SessionsOK'
  <2>1. CASE rid[r] \notin done
    BY <1>9, <2>1 DEF DetachLock, Goto, End, files, locks, library, bounds,
       SessionsOK, RequestsOK, LocksOK, TypeOK, ConstantsAssumption, Owning,
       Creating, Waiting, Uploads
  <2>2. CASE rid[r] \in done
    <3>1. End(r) /\ UNCHANGED <<sessions, files, locks, library, left, bounds>>
      BY <1>9, <2>2 DEF DetachLock, Goto, sessions
    <3>2. rpc[r] \notin Owning
      BY <1>9 DEF DetachLock, Owning, FindPC
    <3> QED
      BY <3>1, <3>2 DEF End, sessions, files, locks, library, bounds,
         SessionsOK, RequestsOK, LocksOK, TypeOK, ConstantsAssumption, Owning,
         Creating, Waiting, Uploads
  <2> QED
    BY <2>1, <2>2
<1>10. ASSUME NEW r \in Requests, DetachMap(r)
     PROVE  SessionsOK'
  BY <1>10 DEF DetachMap, Goto, files, locks, library, bounds, SessionsOK,
     RequestsOK, LocksOK, TypeOK, ConstantsAssumption, Owning, Creating,
     Waiting, Uploads
<1>11. ASSUME NEW r \in Requests, StoreOpen(r)
     PROVE  SessionsOK'
  BY <1>11 DEF StoreOpen, Goto, sessions, files, locks, library, bounds,
     SessionsOK, RequestsOK, LocksOK, TypeOK, ConstantsAssumption, Owning,
     Creating, Waiting, Uploads
<1>12. ASSUME NEW r \in Requests, Store(r)
     PROVE  SessionsOK'
  BY <1>12 DEF Store, Goto, sessions, files, locks, bounds, SessionsOK,
     RequestsOK, LocksOK, TypeOK, ConstantsAssumption, Owning, Creating,
     Waiting, Uploads
<1>13. ASSUME NEW r \in Requests, StoreFail(r)
     PROVE  SessionsOK'
  BY <1>13 DEF StoreFail, Goto, sessions, files, locks, library, bounds,
     SessionsOK, RequestsOK, LocksOK, TypeOK, ConstantsAssumption, Owning,
     Creating, Waiting, Uploads
<1>14. ASSUME NEW r \in Requests, Unlink(r)
     PROVE  SessionsOK'
  BY <1>14 DEF Unlink, End, sessions, locks, library, bounds, SessionsOK,
     RequestsOK, LocksOK, TypeOK, ConstantsAssumption, Owning, Creating,
     Waiting, Uploads
<1>15. ASSUME NEW r \in Requests, CopyByte(r)
     PROVE  SessionsOK'
  BY <1>15 DEF CopyByte, Remaining, PutByte, sessions, locks, library, bounds,
     SessionsOK, RequestsOK, LocksOK, TypeOK, ConstantsAssumption, Owning,
     Creating, Waiting, Uploads
<1>16. ASSUME NEW r \in Requests, CopyDone(r)
     PROVE  SessionsOK'
  BY <1>16 DEF CopyDone, Remaining, Truncate, bounds, Fault, files, Unlock,
     End, library, SessionsOK, RequestsOK, LocksOK, TypeOK,
     ConstantsAssumption, Owning, Creating, Waiting, Uploads
<1>17. ASSUME NEW r \in Requests, CopyFail(r)
     PROVE  SessionsOK'
  BY <1>17 DEF CopyFail, Truncate, bounds, Fault, files, Unlock, End,
     sessions, library, SessionsOK, RequestsOK, LocksOK, TypeOK,
     ConstantsAssumption, Owning, Creating, Waiting, Uploads
<1>18. ASSUME NEW r \in Requests, SpoolByte(r)
     PROVE  SessionsOK'
  BY <1>18 DEF SpoolByte, PutByte, sessions, locks, requests, library, bounds,
     SessionsOK, RequestsOK, LocksOK, TypeOK, ConstantsAssumption, Owning,
     Creating, Waiting, Uploads
<1>19. ASSUME NEW r \in Requests, SpoolDone(r)
     PROVE  SessionsOK'
  BY <1>19 DEF SpoolDone, Goto, sessions, files, locks, library, bounds,
     SessionsOK, RequestsOK, LocksOK, TypeOK, ConstantsAssumption, Owning,
     Creating, Waiting, Uploads
<1>20. ASSUME NEW r \in Requests, SpoolFail(r)
     PROVE  SessionsOK'
  BY <1>20 DEF SpoolFail, Goto, sessions, files, locks, library, bounds,
     SessionsOK, RequestsOK, LocksOK, TypeOK, ConstantsAssumption, Owning,
     Creating, Waiting, Uploads
<1>21. ASSUME NEW i \in Uploads, Age(i)
     PROVE  SessionsOK'
  BY <1>21 DEF Age, Pruning, locks, requests, library, bounds, SessionsOK,
     RequestsOK, LocksOK, TypeOK, ConstantsAssumption, Owning, Creating,
     Waiting, Uploads
<1>22. CASE Restart
  BY <1>22 DEF Restart, files, library, SessionsOK, RequestsOK, LocksOK,
     TypeOK, ConstantsAssumption, Owning, Creating, Waiting, Uploads
<1>23. CASE UNCHANGED vars
  BY <1>23 DEF vars, sessions, files, locks, requests, library, bounds,
     SessionsOK, RequestsOK, LocksOK, TypeOK, ConstantsAssumption, Owning,
     Creating, Waiting, Uploads
<1> QED
  BY Steps, <1>1, <1>2, <1>3, <1>4, <1>5, <1>6, <1>7, <1>8, <1>9, <1>10,
     <1>11, <1>12, <1>13, <1>14, <1>15, <1>16, <1>17, <1>18, <1>19, <1>20,
     <1>21, <1>22, <1>23 DEF Server, Body

(* A session waits for the chunk that is copied into its file.             *)
LEMMA CopyingPreserved ==
    ASSUME ConstantsAssumption, TypeOK, LocksOK, RequestsOK, SessionsOK,
           CopyingOK, FilesOK, PartOK, [Next]_vars
    PROVE  CopyingOK'
<1>1. ASSUME NEW r \in Requests, NEW i \in Sessions, StartUpload(r, i)
     PROVE  CopyingOK'
  BY <1>1 DEF StartUpload, Begin, NewFile, locks, library, bounds, CopyingOK,
     LocksOK, RequestsOK, SessionsOK, TypeOK, ConstantsAssumption, Uploads
<1>2. ASSUME NEW r \in Requests, NEW i \in Sessions, Find(r, i)
     PROVE  CopyingOK'
  BY <1>2 DEF Find, Request, Begin, sessions, files, locks, library, bounds,
     FindPC, CopyingOK, LocksOK, RequestsOK, SessionsOK, TypeOK,
     ConstantsAssumption, Uploads
<1>3. ASSUME NEW r \in Requests, NEW i \in Spools, SpoolBegin(r, i)
     PROVE  CopyingOK'
  BY <1>3 DEF SpoolBegin, Begin, NewFile, locks, library, bounds, CopyingOK,
     LocksOK, RequestsOK, SessionsOK, TypeOK, ConstantsAssumption, Uploads
<1>4. ASSUME NEW r \in Requests, CreateLock(r)
     PROVE  CopyingOK'
  BY <1>4 DEF CreateLock, sessions, files, library, bounds, CopyingOK,
     LocksOK, RequestsOK, SessionsOK, TypeOK, ConstantsAssumption, Uploads
<1>5. ASSUME NEW r \in Requests, PruneSession(r)
     PROVE  CopyingOK'
  BY <1>5 DEF PruneSession, locks, library, bounds, CopyingOK, LocksOK,
     RequestsOK, SessionsOK, TypeOK, ConstantsAssumption, Uploads, PartOK
<1>6. ASSUME NEW r \in Requests, PruneFiles(r)
     PROVE  CopyingOK'
  BY <1>6 DEF PruneFiles, End, library, bounds, CopyingOK, LocksOK,
     RequestsOK, SessionsOK, TypeOK, ConstantsAssumption, Uploads
<1>7. ASSUME NEW r \in Requests, Lookup(r)
     PROVE  CopyingOK'
  <2>1. CASE Visible(r)
    <3>1. Lock(rpc[r]) \in Waiting
      BY <1>7 DEF Lookup, Lock, FindPC, Waiting
    <3> QED
      BY <1>7, <2>1, <3>1 DEF Lookup, FindPC, Visible, Goto, End, sessions,
         files, locks, library, bounds, CopyingOK, LocksOK, RequestsOK,
         SessionsOK, TypeOK, ConstantsAssumption, Uploads, Waiting
  <2>2. CASE ~Visible(r)
    <3>1. End(r) /\ UNCHANGED <<sessions, files, locks, library, left, bounds>>
      BY <1>7, <2>2 DEF Lookup, Goto, sessions
    <3>2. rpc[r] \notin Owning
      BY <1>7 DEF Lookup, Owning, FindPC
    <3> QED
      BY <3>1, <3>2 DEF End, sessions, files, locks, library, bounds,
         CopyingOK, LocksOK, RequestsOK, SessionsOK, TypeOK,
         ConstantsAssumption, Uploads
  <2> QED
    BY <2>1, <2>2
<1>8. ASSUME NEW r \in Requests, WriteBegin(r)
     PROVE  CopyingOK'
  <2>1. CASE Accepts(r)
    <3>1. /\ rid[r] \in open \ done
          /\ roff[r] = received[rid[r]] /\ roff[r] < size[rid[r]]
          /\ rgot[r] = 0 /\ roff[r] <= len[rid[r]] /\ roff[r] \in Nat
          /\ size[rid[r]] \in Nat
      BY <1>8, <2>1 DEF WriteBegin, Accepts, SessionsOK, RequestsOK, FilesOK, Waiting,
         TypeOK, ConstantsAssumption
    <3>2. /\ rgot[r] <= size[rid[r]] - roff[r] + 1
          /\ roff[r] + rgot[r] <= len[rid[r]]
      BY <3>1
    <3>3. UNCHANGED <<rid, roff, rgot, sessions, files>>
      BY <1>8, <2>1 DEF WriteBegin, Accepts, Goto, End
    <3>4. \A q \in Requests \ {r} : rpc'[q] = rpc[q]
      BY <1>8, <2>1 DEF WriteBegin, Accepts, Goto, End, TypeOK
    <3> QED
      BY <3>1, <3>2, <3>3, <3>4 DEF CopyingOK, sessions, files
  <2>2. CASE ~Accepts(r)
    <3>1. End(r) /\ UNCHANGED <<sessions, files>>
      BY <1>8, <2>2 DEF WriteBegin
    <3> QED
      BY <3>1 DEF End, sessions, files, CopyingOK, TypeOK
  <2> QED
    BY <2>1, <2>2
<1>9. ASSUME NEW r \in Requests, DetachLock(r)
     PROVE  CopyingOK'
  <2>1. CASE rid[r] \notin done
    BY <1>9, <2>1 DEF DetachLock, Goto, End, files, locks, library, bounds,
       CopyingOK, LocksOK, RequestsOK, SessionsOK, TypeOK,
       ConstantsAssumption, Uploads
  <2>2. CASE rid[r] \in done
    <3>1. End(r) /\ UNCHANGED <<sessions, files, locks, library, left, bounds>>
      BY <1>9, <2>2 DEF DetachLock, Goto, sessions
    <3>2. rpc[r] \notin Owning
      BY <1>9 DEF DetachLock, Owning, FindPC
    <3> QED
      BY <3>1, <3>2 DEF End, sessions, files, locks, library, bounds,
         CopyingOK, LocksOK, RequestsOK, SessionsOK, TypeOK,
         ConstantsAssumption, Uploads
  <2> QED
    BY <2>1, <2>2
<1>10. ASSUME NEW r \in Requests, DetachMap(r)
     PROVE  CopyingOK'
  BY <1>10 DEF DetachMap, Goto, files, locks, library, bounds, CopyingOK,
     LocksOK, RequestsOK, SessionsOK, TypeOK, ConstantsAssumption, Uploads
<1>11. ASSUME NEW r \in Requests, StoreOpen(r)
     PROVE  CopyingOK'
  BY <1>11 DEF StoreOpen, Goto, sessions, files, locks, library, bounds,
     CopyingOK, LocksOK, RequestsOK, SessionsOK, TypeOK, ConstantsAssumption,
     Uploads
<1>12. ASSUME NEW r \in Requests, Store(r)
     PROVE  CopyingOK'
  BY <1>12 DEF Store, Goto, sessions, files, locks, bounds, CopyingOK,
     LocksOK, RequestsOK, SessionsOK, TypeOK, ConstantsAssumption, Uploads
<1>13. ASSUME NEW r \in Requests, StoreFail(r)
     PROVE  CopyingOK'
  BY <1>13 DEF StoreFail, Goto, sessions, files, locks, library, bounds,
     CopyingOK, LocksOK, RequestsOK, SessionsOK, TypeOK, ConstantsAssumption,
     Uploads
<1>14. ASSUME NEW r \in Requests, Unlink(r)
     PROVE  CopyingOK'
  BY <1>14 DEF Unlink, End, sessions, locks, library, bounds, CopyingOK,
     LocksOK, RequestsOK, SessionsOK, TypeOK, ConstantsAssumption, Uploads
<1>15. ASSUME NEW r \in Requests, CopyByte(r)
     PROVE  CopyingOK'
  BY <1>15 DEF CopyByte, Remaining, PutByte, sessions, locks, library, bounds,
     CopyingOK, LocksOK, RequestsOK, SessionsOK, TypeOK, ConstantsAssumption,
     Uploads
<1>16. ASSUME NEW r \in Requests, CopyDone(r)
     PROVE  CopyingOK'
  BY <1>16 DEF CopyDone, Remaining, Truncate, bounds, Fault, files, Unlock,
     End, library, CopyingOK, LocksOK, RequestsOK, SessionsOK, TypeOK,
     ConstantsAssumption, Uploads
<1>17. ASSUME NEW r \in Requests, CopyFail(r)
     PROVE  CopyingOK'
  BY <1>17 DEF CopyFail, Truncate, bounds, Fault, files, Unlock, End,
     sessions, library, CopyingOK, LocksOK, RequestsOK, SessionsOK, TypeOK,
     ConstantsAssumption, Uploads
<1>18. ASSUME NEW r \in Requests, SpoolByte(r)
     PROVE  CopyingOK'
  BY <1>18 DEF SpoolByte, PutByte, sessions, locks, requests, library, bounds,
     CopyingOK, LocksOK, RequestsOK, SessionsOK, TypeOK, ConstantsAssumption,
     Uploads
<1>19. ASSUME NEW r \in Requests, SpoolDone(r)
     PROVE  CopyingOK'
  BY <1>19 DEF SpoolDone, Goto, sessions, files, locks, library, bounds,
     CopyingOK, LocksOK, RequestsOK, SessionsOK, TypeOK, ConstantsAssumption,
     Uploads
<1>20. ASSUME NEW r \in Requests, SpoolFail(r)
     PROVE  CopyingOK'
  BY <1>20 DEF SpoolFail, Goto, sessions, files, locks, library, bounds,
     CopyingOK, LocksOK, RequestsOK, SessionsOK, TypeOK, ConstantsAssumption,
     Uploads
<1>21. ASSUME NEW i \in Uploads, Age(i)
     PROVE  CopyingOK'
  BY <1>21 DEF Age, Pruning, locks, requests, library, bounds, CopyingOK,
     LocksOK, RequestsOK, SessionsOK, TypeOK, ConstantsAssumption, Uploads
<1>22. CASE Restart
  BY <1>22 DEF Restart, files, library, CopyingOK, LocksOK, RequestsOK,
     SessionsOK, TypeOK, ConstantsAssumption, Uploads
<1>23. CASE UNCHANGED vars
  BY <1>23 DEF vars, sessions, files, locks, requests, library, bounds,
     CopyingOK, LocksOK, RequestsOK, SessionsOK, TypeOK, ConstantsAssumption,
     Uploads
<1> QED
  BY Steps, <1>1, <1>2, <1>3, <1>4, <1>5, <1>6, <1>7, <1>8, <1>9, <1>10,
     <1>11, <1>12, <1>13, <1>14, <1>15, <1>16, <1>17, <1>18, <1>19, <1>20,
     <1>21, <1>22, <1>23 DEF Server, Body

(* A staging file holds the bytes that were taken, without a gap.          *)
LEMMA FilesPreserved ==
    ASSUME ConstantsAssumption, TypeOK, LocksOK, RequestsOK, SessionsOK,
           CopyingOK, FilesOK, [Next]_vars
    PROVE  FilesOK'
<1>1. ASSUME NEW r \in Requests, NEW i \in Sessions, StartUpload(r, i)
     PROVE  FilesOK'
  BY <1>1 DEF StartUpload, Begin, NewFile, locks, library, bounds, FilesOK,
     Contiguous, CopyingOK, RequestsOK, TypeOK, ConstantsAssumption, Uploads
<1>2. ASSUME NEW r \in Requests, NEW i \in Sessions, Find(r, i)
     PROVE  FilesOK'
  BY <1>2 DEF Find, Request, Begin, sessions, files, locks, library, bounds,
     FindPC, FilesOK, Contiguous, CopyingOK, RequestsOK, TypeOK,
     ConstantsAssumption, Uploads
<1>3. ASSUME NEW r \in Requests, NEW i \in Spools, SpoolBegin(r, i)
     PROVE  FilesOK'
  BY <1>3 DEF SpoolBegin, Begin, NewFile, locks, library, bounds, FilesOK,
     Contiguous, CopyingOK, RequestsOK, TypeOK, ConstantsAssumption, Uploads
<1>4. ASSUME NEW r \in Requests, CreateLock(r)
     PROVE  FilesOK'
  BY <1>4 DEF CreateLock, sessions, files, library, bounds, FilesOK,
     Contiguous, CopyingOK, RequestsOK, TypeOK, ConstantsAssumption, Uploads
<1>5. ASSUME NEW r \in Requests, PruneSession(r)
     PROVE  FilesOK'
  BY <1>5 DEF PruneSession, locks, library, bounds, FilesOK, Contiguous,
     CopyingOK, RequestsOK, TypeOK, ConstantsAssumption, Uploads
<1>6. ASSUME NEW r \in Requests, PruneFiles(r)
     PROVE  FilesOK'
  BY <1>6 DEF PruneFiles, End, library, bounds, FilesOK, Contiguous,
     CopyingOK, RequestsOK, TypeOK, ConstantsAssumption, Uploads
<1>7. ASSUME NEW r \in Requests, Lookup(r)
     PROVE  FilesOK'
  BY <1>7 DEF Lookup, FindPC, Visible, Goto, Lock, End, sessions, files,
     locks, library, bounds, FilesOK, Contiguous, CopyingOK, RequestsOK,
     TypeOK, ConstantsAssumption, Uploads
<1>8. ASSUME NEW r \in Requests, WriteBegin(r)
     PROVE  FilesOK'
  BY <1>8 DEF WriteBegin, Accepts, Goto, End, sessions, files, library,
     bounds, FilesOK, Contiguous, CopyingOK, RequestsOK, TypeOK,
     ConstantsAssumption, Uploads
<1>9. ASSUME NEW r \in Requests, DetachLock(r)
     PROVE  FilesOK'
  BY <1>9 DEF DetachLock, Goto, End, files, locks, library, bounds, FilesOK,
     Contiguous, CopyingOK, RequestsOK, TypeOK, ConstantsAssumption, Uploads
<1>10. ASSUME NEW r \in Requests, DetachMap(r)
     PROVE  FilesOK'
  BY <1>10 DEF DetachMap, Goto, files, locks, library, bounds, FilesOK,
     Contiguous, CopyingOK, RequestsOK, TypeOK, ConstantsAssumption, Uploads
<1>11. ASSUME NEW r \in Requests, StoreOpen(r)
     PROVE  FilesOK'
  BY <1>11 DEF StoreOpen, Goto, sessions, files, locks, library, bounds,
     FilesOK, Contiguous, CopyingOK, RequestsOK, TypeOK, ConstantsAssumption,
     Uploads
<1>12. ASSUME NEW r \in Requests, Store(r)
     PROVE  FilesOK'
  BY <1>12 DEF Store, Goto, sessions, files, locks, bounds, FilesOK,
     Contiguous, CopyingOK, RequestsOK, TypeOK, ConstantsAssumption, Uploads
<1>13. ASSUME NEW r \in Requests, StoreFail(r)
     PROVE  FilesOK'
  BY <1>13 DEF StoreFail, Goto, sessions, files, locks, library, bounds,
     FilesOK, Contiguous, CopyingOK, RequestsOK, TypeOK, ConstantsAssumption,
     Uploads
<1>14. ASSUME NEW r \in Requests, Unlink(r)
     PROVE  FilesOK'
  BY <1>14 DEF Unlink, End, sessions, locks, library, bounds, FilesOK,
     Contiguous, CopyingOK, RequestsOK, TypeOK, ConstantsAssumption, Uploads
<1>15. ASSUME NEW r \in Requests, CopyByte(r)
     PROVE  FilesOK'
  <2>1. /\ rid[r] \in Sessions /\ rid[r] \in used
        /\ roff[r] + rgot[r] \in 0 .. len[rid[r]]
        /\ received[rid[r]] < size[rid[r]]
    BY <1>15 DEF CopyByte, CopyingOK, RequestsOK, TypeOK, ConstantsAssumption
  <2>2. /\ Contiguous'
        /\ \A j \in Uploads :
              len'[j] \in Nat /\ len'[j] >= len[j] /\ (j # rid[r] => len'[j] = len[j])
    BY <1>15, <2>1, PutByteFile DEF CopyByte, FilesOK, Uploads
  <2>3. \A j \in Sessions : received[j] <= len'[j]
    <3>1. \A j \in Sessions :
             received[j] \in Nat /\ len[j] \in Nat /\ received[j] <= len[j]
      BY DEF FilesOK, TypeOK, Uploads, ConstantsAssumption
    <3> QED
      BY <2>2, <3>1 DEF Uploads
  <2> QED
    BY <1>15, <2>1, <2>2, <2>3 DEF CopyByte, PutByte, sessions, library, FilesOK, TypeOK,
       Uploads, ConstantsAssumption
<1>16. ASSUME NEW r \in Requests, CopyDone(r)
     PROVE  FilesOK'
  <2>1. /\ rid[r] \in Sessions /\ rid[r] \in used
        /\ roff[r] = received[rid[r]] /\ roff[r] + rgot[r] \in 0 .. len[rid[r]]
        /\ rgot[r] <= size[rid[r]] - roff[r]
    BY <1>16 DEF CopyDone, Remaining, CopyingOK, RequestsOK, TypeOK, ConstantsAssumption
  <2>2. CASE UNCHANGED <<files, received, stale>>
    BY <1>16, <2>2 DEF CopyDone, files, library, FilesOK, Contiguous
  <2>3. CASE /\ Truncate(rid[r], roff[r] + rgot[r])
             /\ received' = [received EXCEPT ![rid[r]] =
                                 received[rid[r]] + rgot[r]]
    <3>1. /\ Contiguous'
          /\ \A j \in Uploads : j # rid[r] => len'[j] = len[j]
          /\ len'[rid[r]] = roff[r] + rgot[r]
      BY <2>1, <2>3, TruncateFile DEF FilesOK, Uploads
    <3>2. /\ received'[rid[r]] = roff[r] + rgot[r]
          /\ \A j \in Sessions : j # rid[r] => received'[j] = received[j]
      BY <2>1, <2>3 DEF TypeOK
    <3>3. \A j \in Sessions :
             /\ received'[j] <= len'[j] /\ received'[j] <= size[j]
             /\ received'[j] = size[j] => len'[j] = size[j]
      BY <2>1, <3>1, <3>2 DEF FilesOK, Uploads, TypeOK, ConstantsAssumption
    <3> QED
      BY <1>16, <2>1, <2>3, <3>1, <3>2, <3>3 DEF CopyDone, Truncate, library, FilesOK,
         TypeOK, Uploads
  <2> QED
    BY <1>16, <2>2, <2>3 DEF CopyDone
<1>17. ASSUME NEW r \in Requests, CopyFail(r)
     PROVE  FilesOK'
  <2>1. /\ rid[r] \in Sessions /\ rid[r] \in used
        /\ roff[r] = received[rid[r]] /\ roff[r] \in 0 .. len[rid[r]]
        /\ received[rid[r]] < size[rid[r]]
    BY <1>17 DEF CopyFail, CopyingOK, RequestsOK, TypeOK, ConstantsAssumption
  <2>2. CASE UNCHANGED files
    BY <1>17, <2>2 DEF CopyFail, files, sessions, library, FilesOK, Contiguous
  <2>3. CASE Truncate(rid[r], roff[r])
    <3>1. /\ Contiguous'
          /\ \A j \in Uploads : j # rid[r] => len'[j] = len[j]
          /\ len'[rid[r]] = roff[r]
      BY <2>1, <2>3, TruncateFile DEF FilesOK, Uploads
    <3>2. \A j \in Sessions :
             received[j] <= len'[j] /\ (received[j] = size[j] => len'[j] = size[j])
      BY SMTT(30), <2>1, <3>1 DEF FilesOK, Uploads, TypeOK, ConstantsAssumption
    <3> QED
      BY <1>17, <2>1, <2>3, <3>1, <3>2 DEF CopyFail, Truncate, sessions, library, FilesOK,
         TypeOK, Uploads
  <2> QED
    BY <1>17, <2>2, <2>3 DEF CopyFail
<1>18. ASSUME NEW r \in Requests, SpoolByte(r)
     PROVE  FilesOK'
  <2>1. rid[r] \in Spools /\ rid[r] \in used /\ rid[r] \notin Sessions
    BY <1>18 DEF SpoolByte, RequestsOK, ConstantsAssumption
  <2>2. len[rid[r]] \in 0 .. len[rid[r]]
    BY <2>1 DEF TypeOK, Uploads, ConstantsAssumption
  <2>3. /\ Contiguous'
        /\ \A j \in Uploads : len'[j] >= len[j] /\ (j # rid[r] => len'[j] = len[j])
    BY <1>18, <2>1, <2>2, PutByteFile DEF SpoolByte, FilesOK, Uploads
  <2> QED
    BY <1>18, <2>1, <2>3 DEF SpoolByte, PutByte, sessions, library, FilesOK, TypeOK,
       Uploads
<1>19. ASSUME NEW r \in Requests, SpoolDone(r)
     PROVE  FilesOK'
  BY <1>19 DEF SpoolDone, Goto, sessions, files, locks, library, bounds,
     FilesOK, Contiguous, CopyingOK, RequestsOK, TypeOK, ConstantsAssumption,
     Uploads
<1>20. ASSUME NEW r \in Requests, SpoolFail(r)
     PROVE  FilesOK'
  BY <1>20 DEF SpoolFail, Goto, sessions, files, locks, library, bounds,
     FilesOK, Contiguous, CopyingOK, RequestsOK, TypeOK, ConstantsAssumption,
     Uploads
<1>21. ASSUME NEW i \in Uploads, Age(i)
     PROVE  FilesOK'
  BY <1>21 DEF Age, Pruning, locks, requests, library, bounds, FilesOK,
     Contiguous, CopyingOK, RequestsOK, TypeOK, ConstantsAssumption, Uploads
<1>22. CASE Restart
  BY <1>22 DEF Restart, files, library, FilesOK, Contiguous, CopyingOK,
     RequestsOK, TypeOK, ConstantsAssumption, Uploads
<1>23. CASE UNCHANGED vars
  BY <1>23 DEF vars, sessions, files, locks, requests, library, bounds,
     FilesOK, Contiguous, CopyingOK, RequestsOK, TypeOK, ConstantsAssumption,
     Uploads
<1> QED
  BY Steps, <1>1, <1>2, <1>3, <1>4, <1>5, <1>6, <1>7, <1>8, <1>9, <1>10,
     <1>11, <1>12, <1>13, <1>14, <1>15, <1>16, <1>17, <1>18, <1>19, <1>20,
     <1>21, <1>22, <1>23 DEF Server, Body

(* Only the files of expired sessions and of restarts are left to pruning. *)
LEMMA PartPreserved ==
    ASSUME ConstantsAssumption, TypeOK, LocksOK, RequestsOK, SessionsOK, CopyingOK,
           FilesOK, PartOK, [Next]_vars
    PROVE  PartOK'
<1>1. ASSUME NEW r \in Requests, NEW i \in Sessions, StartUpload(r, i)
     PROVE  PartOK'
  <2>1. /\ i \in Uploads /\ i \notin used /\ used' = used \cup {i}
        /\ part' = part \cup {i} /\ UNCHANGED <<open, done, stale, old, rtodo, left>>
        /\ rpc[r] = "idle" /\ rpc' = [rpc EXCEPT ![r] = "cr_lock"]
        /\ rid' = [rid EXCEPT ![r] = i]
    BY <1>1 DEF StartUpload, Begin, NewFile, Uploads
  <2>2. \A q \in Requests \ {r} : rpc'[q] = rpc[q] /\ rid'[q] = rid[q]
    BY <2>1 DEF TypeOK
  <2>3. rpc'[r] = "cr_lock" /\ rid'[r] = i
    BY <2>1 DEF TypeOK
  <2>4. \A j \in part' : j \in open' \/ At(j, Owning)' \/ j \in left'
    BY <2>1, <2>2, <2>3 DEF PartOK, At, Owning
  <2>5. \A q \in Requests : rpc'[q] \in Creating => rid'[q] \in part' /\ rid'[q] \notin old'
    BY <2>1, <2>2, <2>3 DEF PartOK, FilesOK
  <2>6. \A q \in Requests : rpc'[q] = "prune" => rpc[q] = "prune"
    BY <2>2, <2>3
  <2> QED
    BY <2>1, <2>4, <2>5, <2>6 DEF PartOK
<1>2. ASSUME NEW r \in Requests, NEW i \in Sessions, Find(r, i)
     PROVE  PartOK'
  BY <1>2 DEF Find, Request, Begin, sessions, files, locks, library, bounds,
     FindPC, PartOK, SessionsOK, RequestsOK, LocksOK, TypeOK,
     ConstantsAssumption, Owning, Creating, At, Uploads
<1>3. ASSUME NEW r \in Requests, NEW i \in Spools, SpoolBegin(r, i)
     PROVE  PartOK'
  BY <1>3 DEF SpoolBegin, Begin, NewFile, locks, library, bounds, PartOK,
     SessionsOK, RequestsOK, LocksOK, TypeOK, ConstantsAssumption, Owning,
     Creating, At, Uploads
<1>4. ASSUME NEW r \in Requests, CreateLock(r)
     PROVE  PartOK'
  BY <1>4 DEF CreateLock, sessions, files, library, bounds, PartOK,
     SessionsOK, RequestsOK, LocksOK, TypeOK, ConstantsAssumption, Owning,
     Creating, At, Uploads
<1>5. ASSUME NEW r \in Requests, PruneSession(r)
     PROVE  PartOK'
  BY <1>5 DEF PruneSession, locks, library, bounds, PartOK, SessionsOK,
     RequestsOK, LocksOK, TypeOK, ConstantsAssumption, Owning, Creating, At,
     Uploads
<1>6. ASSUME NEW r \in Requests, PruneFiles(r)
     PROVE  PartOK'
  BY <1>6 DEF PruneFiles, End, library, bounds, PartOK, SessionsOK,
     RequestsOK, LocksOK, TypeOK, ConstantsAssumption, Owning, Creating, At,
     Uploads
<1>7. ASSUME NEW r \in Requests, Lookup(r)
     PROVE  PartOK'
  <2>1. CASE Visible(r)
    <3>1. Lock(rpc[r]) \in Waiting
      BY <1>7 DEF Lookup, Lock, FindPC, Waiting
    <3> QED
      BY SMTT(30), <1>7, <2>1, <3>1 DEF Lookup, FindPC, Visible, Goto, End, sessions,
         files, locks, library, bounds, PartOK, SessionsOK, RequestsOK,
         LocksOK, TypeOK, ConstantsAssumption, Owning, Creating, At, Uploads,
         Waiting
  <2>2. CASE ~Visible(r)
    <3>1. End(r) /\ UNCHANGED <<sessions, files, locks, library, left, bounds>>
      BY <1>7, <2>2 DEF Lookup, Goto, sessions
    <3>2. rpc[r] \notin Owning
      BY <1>7 DEF Lookup, Owning, FindPC
    <3> QED
      BY <3>1, <3>2 DEF End, sessions, files, locks, library, bounds, PartOK,
         SessionsOK, RequestsOK, LocksOK, TypeOK, ConstantsAssumption, Owning,
         Creating, At, Uploads
  <2> QED
    BY <2>1, <2>2
<1>8. ASSUME NEW r \in Requests, WriteBegin(r)
     PROVE  PartOK'
  <2>1. CASE Accepts(r)
    BY SMTT(30), <1>8, <2>1 DEF WriteBegin, Goto, End, sessions, files, library, bounds,
       PartOK, SessionsOK, RequestsOK, LocksOK, TypeOK, ConstantsAssumption,
       Owning, Creating, At, Uploads
  <2>2. CASE ~Accepts(r)
    <3>1. End(r) /\ UNCHANGED <<smu, sessions, files, mmu, library, left, bounds>>
      BY <1>8, <2>2 DEF WriteBegin, Goto, sessions
    <3>2. rpc[r] \notin Owning
      BY <1>8 DEF WriteBegin, Owning, FindPC
    <3> QED
      BY <3>1, <3>2 DEF End, sessions, files, locks, library, bounds, PartOK,
         SessionsOK, RequestsOK, LocksOK, TypeOK, ConstantsAssumption, Owning,
         Creating, At, Uploads
  <2> QED
    BY <2>1, <2>2
<1>9. ASSUME NEW r \in Requests, DetachLock(r)
     PROVE  PartOK'
  <2>1. /\ UNCHANGED <<rtodo, open, stale, part, old, left>> /\ done \subseteq done'
        /\ rpc[r] \notin Owning
        /\ \A q \in Requests \ {r} : rpc'[q] = rpc[q] /\ rid'[q] = rid[q]
        /\ rpc'[r] \in {"idle", "cp_map", "cn_map"}
    BY <1>9 DEF DetachLock, Goto, End, files, TypeOK, Owning
  <2>2. \A j : At(j, Owning) => At(j, Owning)'
    BY <2>1 DEF At
  <2>3. \A q \in Requests :
           /\ rpc'[q] \in Creating => rpc[q] \in Creating /\ rid'[q] = rid[q]
           /\ rpc'[q] = "prune" => rpc[q] = "prune"
    BY <2>1 DEF Creating
  <2> QED
    BY <2>1, <2>2, <2>3 DEF PartOK
<1>10. ASSUME NEW r \in Requests, DetachMap(r)
     PROVE  PartOK'
  BY <1>10 DEF DetachMap, Goto, files, locks, library, bounds, PartOK,
     SessionsOK, RequestsOK, LocksOK, TypeOK, ConstantsAssumption, Owning,
     Creating, At, Uploads
<1>11. ASSUME NEW r \in Requests, StoreOpen(r)
     PROVE  PartOK'
  BY SMTT(30), <1>11 DEF StoreOpen, Goto, sessions, files, locks, library, bounds,
     PartOK, SessionsOK, RequestsOK, LocksOK, TypeOK, ConstantsAssumption,
     Owning, Creating, At, Uploads
<1>12. ASSUME NEW r \in Requests, Store(r)
     PROVE  PartOK'
  BY <1>12 DEF Store, Goto, sessions, files, locks, bounds, PartOK,
     SessionsOK, RequestsOK, LocksOK, TypeOK, ConstantsAssumption, Owning,
     Creating, At, Uploads
<1>13. ASSUME NEW r \in Requests, StoreFail(r)
     PROVE  PartOK'
  BY <1>13 DEF StoreFail, Goto, sessions, files, locks, library, bounds,
     PartOK, SessionsOK, RequestsOK, LocksOK, TypeOK, ConstantsAssumption,
     Owning, Creating, At, Uploads
<1>14. ASSUME NEW r \in Requests, Unlink(r)
     PROVE  PartOK'
  BY <1>14 DEF Unlink, End, sessions, locks, library, bounds, PartOK,
     SessionsOK, RequestsOK, LocksOK, TypeOK, ConstantsAssumption, Owning,
     Creating, At, Uploads
<1>15. ASSUME NEW r \in Requests, CopyByte(r)
     PROVE  PartOK'
  BY <1>15 DEF CopyByte, Remaining, PutByte, sessions, locks, library, bounds,
     PartOK, SessionsOK, RequestsOK, LocksOK, TypeOK, ConstantsAssumption,
     Owning, Creating, At, Uploads
<1>16. ASSUME NEW r \in Requests, CopyDone(r)
     PROVE  PartOK'
  BY SMTT(30), <1>16 DEF CopyDone, Remaining, Truncate, bounds, Fault, files, Unlock,
     End, library, PartOK, SessionsOK, RequestsOK, LocksOK, TypeOK,
     ConstantsAssumption, Owning, Creating, At, Uploads
<1>17. ASSUME NEW r \in Requests, CopyFail(r)
     PROVE  PartOK'
  BY SMTT(30), <1>17 DEF CopyFail, Truncate, bounds, Fault, files, Unlock, End,
     sessions, library, PartOK, SessionsOK, RequestsOK, LocksOK, TypeOK,
     ConstantsAssumption, Owning, Creating, At, Uploads
<1>18. ASSUME NEW r \in Requests, SpoolByte(r)
     PROVE  PartOK'
  BY <1>18 DEF SpoolByte, PutByte, sessions, locks, requests, library, bounds,
     PartOK, SessionsOK, RequestsOK, LocksOK, TypeOK, ConstantsAssumption,
     Owning, Creating, At, Uploads
<1>19. ASSUME NEW r \in Requests, SpoolDone(r)
     PROVE  PartOK'
  BY <1>19 DEF SpoolDone, Goto, sessions, files, locks, library, bounds,
     PartOK, SessionsOK, RequestsOK, LocksOK, TypeOK, ConstantsAssumption,
     Owning, Creating, At, Uploads
<1>20. ASSUME NEW r \in Requests, SpoolFail(r)
     PROVE  PartOK'
  BY <1>20 DEF SpoolFail, Goto, sessions, files, locks, library, bounds,
     PartOK, SessionsOK, RequestsOK, LocksOK, TypeOK, ConstantsAssumption,
     Owning, Creating, At, Uploads
<1>21. ASSUME NEW i \in Uploads, Age(i)
     PROVE  PartOK'
  BY <1>21 DEF Age, Pruning, locks, requests, library, bounds, PartOK,
     SessionsOK, RequestsOK, LocksOK, TypeOK, ConstantsAssumption, Owning,
     Creating, At, Uploads
<1>22. CASE Restart
  BY <1>22 DEF Restart, files, library, PartOK, SessionsOK, RequestsOK,
     LocksOK, TypeOK, ConstantsAssumption, Owning, Creating, At, Uploads
<1>23. CASE UNCHANGED vars
  BY <1>23 DEF vars, sessions, files, locks, requests, library, bounds,
     PartOK, SessionsOK, RequestsOK, LocksOK, TypeOK, ConstantsAssumption,
     Owning, Creating, At, Uploads
<1> QED
  BY Steps, <1>1, <1>2, <1>3, <1>4, <1>5, <1>6, <1>7, <1>8, <1>9, <1>10,
     <1>11, <1>12, <1>13, <1>14, <1>15, <1>16, <1>17, <1>18, <1>19, <1>20,
     <1>21, <1>22, <1>23 DEF Server, Body

(* A session is stored once, and with all its bytes.                       *)
LEMMA StoredPreserved ==
    ASSUME ConstantsAssumption, TypeOK, RequestsOK, SessionsOK, CopyingOK, FilesOK,
           StoredOK, StoredIsWhole, [Next]_vars
    PROVE  (StoredOK /\ StoredIsWhole)'
<1>1. ASSUME NEW r \in Requests, NEW i \in Sessions, StartUpload(r, i)
     PROVE  (StoredOK /\ StoredIsWhole)'
  BY <1>1 DEF StartUpload, Begin, NewFile, locks, library, bounds, StoredOK,
     StoredIsWhole, SessionsOK, RequestsOK, FilesOK, TypeOK,
     ConstantsAssumption, Owning, Creating, Sealed, Uploads
<1>2. ASSUME NEW r \in Requests, NEW i \in Sessions, Find(r, i)
     PROVE  (StoredOK /\ StoredIsWhole)'
  BY <1>2 DEF Find, Request, Begin, sessions, files, locks, library, bounds,
     FindPC, StoredOK, StoredIsWhole, SessionsOK, RequestsOK, FilesOK, TypeOK,
     ConstantsAssumption, Owning, Creating, Sealed, Uploads
<1>3. ASSUME NEW r \in Requests, NEW i \in Spools, SpoolBegin(r, i)
     PROVE  (StoredOK /\ StoredIsWhole)'
  BY <1>3 DEF SpoolBegin, Begin, NewFile, locks, library, bounds, StoredOK,
     StoredIsWhole, SessionsOK, RequestsOK, FilesOK, TypeOK,
     ConstantsAssumption, Owning, Creating, Sealed, Uploads
<1>4. ASSUME NEW r \in Requests, CreateLock(r)
     PROVE  (StoredOK /\ StoredIsWhole)'
  BY <1>4 DEF CreateLock, sessions, files, library, bounds, StoredOK,
     StoredIsWhole, SessionsOK, RequestsOK, FilesOK, TypeOK,
     ConstantsAssumption, Owning, Creating, Sealed, Uploads
<1>5. ASSUME NEW r \in Requests, PruneSession(r)
     PROVE  (StoredOK /\ StoredIsWhole)'
  BY <1>5 DEF PruneSession, locks, library, bounds, StoredOK, StoredIsWhole,
     SessionsOK, RequestsOK, FilesOK, TypeOK, ConstantsAssumption, Owning,
     Creating, Sealed, Uploads
<1>6. ASSUME NEW r \in Requests, PruneFiles(r)
     PROVE  (StoredOK /\ StoredIsWhole)'
  BY <1>6 DEF PruneFiles, End, library, bounds, StoredOK, StoredIsWhole,
     SessionsOK, RequestsOK, FilesOK, TypeOK, ConstantsAssumption, Owning,
     Creating, Sealed, Uploads
<1>7. ASSUME NEW r \in Requests, Lookup(r)
     PROVE  (StoredOK /\ StoredIsWhole)'
  <2>1. CASE Visible(r)
    <3>1. Lock(rpc[r]) \in Waiting
      BY <1>7 DEF Lookup, Lock, FindPC, Waiting
    <3> QED
      BY SMTT(30), <1>7, <2>1, <3>1 DEF Lookup, FindPC, Visible, Goto, End, sessions,
         files, locks, library, bounds, StoredOK, StoredIsWhole, SessionsOK,
         RequestsOK, FilesOK, TypeOK, ConstantsAssumption, Owning, Creating,
         Sealed, Uploads, Waiting
  <2>2. CASE ~Visible(r)
    <3>1. End(r) /\ UNCHANGED <<sessions, files, locks, library, left, bounds>>
      BY <1>7, <2>2 DEF Lookup, Goto, sessions
    <3>2. rpc[r] \notin Owning
      BY <1>7 DEF Lookup, Owning, FindPC
    <3> QED
      BY <3>1, <3>2 DEF End, sessions, files, locks, library, bounds,
         StoredOK, StoredIsWhole, SessionsOK, RequestsOK, FilesOK, TypeOK,
         ConstantsAssumption, Owning, Creating, Sealed, Uploads
  <2> QED
    BY <2>1, <2>2
<1>8. ASSUME NEW r \in Requests, WriteBegin(r)
     PROVE  (StoredOK /\ StoredIsWhole)'
  <2>1. CASE Accepts(r)
    BY <1>8, <2>1 DEF WriteBegin, Goto, End, sessions, files, library, bounds,
       StoredOK, StoredIsWhole, SessionsOK, RequestsOK, FilesOK, TypeOK,
       ConstantsAssumption, Owning, Creating, Sealed, Uploads
  <2>2. CASE ~Accepts(r)
    <3>1. End(r) /\ UNCHANGED <<smu, sessions, files, mmu, library, left, bounds>>
      BY <1>8, <2>2 DEF WriteBegin, Goto, sessions
    <3>2. rpc[r] \notin Owning
      BY <1>8 DEF WriteBegin, Owning, FindPC
    <3> QED
      BY <3>1, <3>2 DEF End, sessions, files, locks, library, bounds,
         StoredOK, StoredIsWhole, SessionsOK, RequestsOK, FilesOK, TypeOK,
         ConstantsAssumption, Owning, Creating, Sealed, Uploads
  <2> QED
    BY <2>1, <2>2
<1>9. ASSUME NEW r \in Requests, DetachLock(r)
     PROVE  (StoredOK /\ StoredIsWhole)'
  <2>1. /\ UNCHANGED <<size, received, len, bytes, stored, content>> /\ done \subseteq done'
        /\ \A q \in Requests \ {r} : rpc'[q] = rpc[q] /\ rid'[q] = rid[q]
        /\ rpc'[r] \in {"idle", "cp_map", "cn_map"}
    BY <1>9 DEF DetachLock, Goto, End, files, library, TypeOK
  <2>2. rpc'[r] = "cp_map" => rid'[r] = rid[r] /\ rid[r] \in Sessions \ done
    BY <1>9 DEF DetachLock, Goto, End, TypeOK, RequestsOK, Waiting
  <2>3. \A i \in Sessions \ done : stored[i] = 0
    BY DEF StoredOK, TypeOK, Uploads
  <2> QED
    BY <2>1, <2>2, <2>3 DEF StoredOK, StoredIsWhole, Sealed, Creating
<1>10. ASSUME NEW r \in Requests, DetachMap(r)
     PROVE  (StoredOK /\ StoredIsWhole)'
  BY SMTT(30), <1>10 DEF DetachMap, Goto, files, locks, library, bounds, StoredOK,
     StoredIsWhole, SessionsOK, RequestsOK, FilesOK, TypeOK,
     ConstantsAssumption, Owning, Creating, Sealed, Uploads
<1>11. ASSUME NEW r \in Requests, StoreOpen(r)
     PROVE  (StoredOK /\ StoredIsWhole)'
  BY <1>11 DEF StoreOpen, Goto, sessions, files, locks, library, bounds,
     StoredOK, StoredIsWhole, SessionsOK, RequestsOK, FilesOK, TypeOK,
     ConstantsAssumption, Owning, Creating, Sealed, Uploads
<1>12. ASSUME NEW r \in Requests, Store(r)
     PROVE  (StoredOK /\ StoredIsWhole)'
  <2>1. /\ rpc[r] = "store" /\ rid[r] \in Uploads
        /\ UNCHANGED <<size, received, done, len, bytes, rid>>
        /\ \A q \in Requests \ {r} : rpc'[q] = rpc[q]
        /\ rpc'[r] = "unlink"
    BY <1>12 DEF Store, Goto, sessions, files, TypeOK, RequestsOK
  <2>2. \A i \in Uploads \ {rid[r]} : stored'[i] = stored[i] /\ content'[i] = content[i]
    BY <1>12 DEF Store, TypeOK
  <2>3. content'[rid[r]] = [len |-> len[rid[r]], bytes |-> 0 .. len[rid[r]] - 1]
    BY <1>12, <2>1 DEF Store, TypeOK, FilesOK, Contiguous
  <2>4. rid[r] \in Sessions =>
           rid[r] \in done /\ received[rid[r]] = size[rid[r]] /\ len[rid[r]] = size[rid[r]]
    BY <2>1 DEF SessionsOK, StoredOK, FilesOK
  <2>5. \A q \in Requests \ {r} :
           rpc[q] \in Sealed \cup Creating \cup {"sp_copy"} =>
               rid[q] \in Uploads /\ rid[q] # rid[r]
    BY <2>1 DEF RequestsOK, Sealed, Creating, Owning, TypeOK
  <2>6. StoredIsWhole'
    BY <2>1, <2>2, <2>3, <2>4 DEF StoredIsWhole, Uploads
  <2>7. \A i \in Sessions : stored'[i] > 0 => i \in done /\ received[i] = size[i]
    BY <2>2, <2>4 DEF StoredOK, Uploads
  <2> QED
    BY <2>1, <2>2, <2>5, <2>6, <2>7 DEF StoredOK, Sealed, Creating
<1>13. ASSUME NEW r \in Requests, StoreFail(r)
     PROVE  (StoredOK /\ StoredIsWhole)'
  BY <1>13 DEF StoreFail, Goto, sessions, files, locks, library, bounds,
     StoredOK, StoredIsWhole, SessionsOK, RequestsOK, FilesOK, TypeOK,
     ConstantsAssumption, Owning, Creating, Sealed, Uploads
<1>14. ASSUME NEW r \in Requests, Unlink(r)
     PROVE  (StoredOK /\ StoredIsWhole)'
  BY <1>14 DEF Unlink, End, sessions, locks, library, bounds, StoredOK,
     StoredIsWhole, SessionsOK, RequestsOK, FilesOK, TypeOK,
     ConstantsAssumption, Owning, Creating, Sealed, Uploads
<1>15. ASSUME NEW r \in Requests, CopyByte(r)
     PROVE  (StoredOK /\ StoredIsWhole)'
  BY <1>15 DEF CopyByte, Remaining, PutByte, sessions, locks, library, bounds,
     StoredOK, StoredIsWhole, SessionsOK, RequestsOK, FilesOK, TypeOK,
     ConstantsAssumption, Owning, Creating, Sealed, Uploads
<1>16. ASSUME NEW r \in Requests, CopyDone(r)
     PROVE  (StoredOK /\ StoredIsWhole)'
  <2>1. /\ UNCHANGED <<size, done, stored, content>>
        /\ rid[r] \in Sessions \ done
        /\ \A q \in Requests \ {r} : rpc'[q] = rpc[q] /\ rid'[q] = rid[q]
        /\ rpc'[r] = "idle"
    BY <1>16 DEF CopyDone, End, library, TypeOK, CopyingOK
  <2>2. \A i \in Sessions : i # rid[r] => received'[i] = received[i]
    BY <1>16 DEF CopyDone, TypeOK
  <2>3. \A q \in Requests \ {r} :
           rpc[q] \in {"st_open", "store"} /\ rid[q] \in Sessions => rid[q] # rid[r]
    BY <2>1 DEF SessionsOK
  <2> QED
    BY <2>1, <2>2, <2>3 DEF StoredOK, StoredIsWhole, Sealed, Creating
<1>17. ASSUME NEW r \in Requests, CopyFail(r)
     PROVE  (StoredOK /\ StoredIsWhole)'
  BY SMTT(30), <1>17 DEF CopyFail, Truncate, bounds, Fault, files, Unlock, End,
     sessions, library, StoredOK, StoredIsWhole, SessionsOK, RequestsOK,
     FilesOK, TypeOK, ConstantsAssumption, Owning, Creating, Sealed, Uploads
<1>18. ASSUME NEW r \in Requests, SpoolByte(r)
     PROVE  (StoredOK /\ StoredIsWhole)'
  BY <1>18 DEF SpoolByte, PutByte, sessions, locks, requests, library, bounds,
     StoredOK, StoredIsWhole, SessionsOK, RequestsOK, FilesOK, TypeOK,
     ConstantsAssumption, Owning, Creating, Sealed, Uploads
<1>19. ASSUME NEW r \in Requests, SpoolDone(r)
     PROVE  (StoredOK /\ StoredIsWhole)'
  BY <1>19 DEF SpoolDone, Goto, sessions, files, locks, library, bounds,
     StoredOK, StoredIsWhole, SessionsOK, RequestsOK, FilesOK, TypeOK,
     ConstantsAssumption, Owning, Creating, Sealed, Uploads
<1>20. ASSUME NEW r \in Requests, SpoolFail(r)
     PROVE  (StoredOK /\ StoredIsWhole)'
  BY <1>20 DEF SpoolFail, Goto, sessions, files, locks, library, bounds,
     StoredOK, StoredIsWhole, SessionsOK, RequestsOK, FilesOK, TypeOK,
     ConstantsAssumption, Owning, Creating, Sealed, Uploads
<1>21. ASSUME NEW i \in Uploads, Age(i)
     PROVE  (StoredOK /\ StoredIsWhole)'
  BY <1>21 DEF Age, Pruning, locks, requests, library, bounds, StoredOK,
     StoredIsWhole, SessionsOK, RequestsOK, FilesOK, TypeOK,
     ConstantsAssumption, Owning, Creating, Sealed, Uploads
<1>22. CASE Restart
  BY <1>22 DEF Restart, files, library, StoredOK, StoredIsWhole, SessionsOK,
     RequestsOK, FilesOK, TypeOK, ConstantsAssumption, Owning, Creating,
     Sealed, Uploads
<1>23. CASE UNCHANGED vars
  BY <1>23 DEF vars, sessions, files, locks, requests, library, bounds,
     StoredOK, StoredIsWhole, SessionsOK, RequestsOK, FilesOK, TypeOK,
     ConstantsAssumption, Owning, Creating, Sealed, Uploads
<1> QED
  BY Steps, <1>1, <1>2, <1>3, <1>4, <1>5, <1>6, <1>7, <1>8, <1>9, <1>10,
     <1>11, <1>12, <1>13, <1>14, <1>15, <1>16, <1>17, <1>18, <1>19, <1>20,
     <1>21, <1>22, <1>23 DEF Server, Body
(* The first state satisfies the invariant.                                *)
LEMMA Initially == ASSUME ConstantsAssumption, Init PROVE IInv
<1>1. TypeOK
  BY DEF Init, TypeOK, Nothing, Content, RequestPC, ConstantsAssumption
<1>2. FilesOK
  <2>1. 0 .. 0 - 1 = {}
    OBVIOUS
  <2> QED
    BY <2>1 DEF Init, FilesOK, Contiguous, Uploads
<1>3. LocksOK /\ RequestsOK /\ SessionsOK /\ CopyingOK
  BY DEF Init, LocksOK, RequestsOK, SessionsOK, CopyingOK, Owning, Creating, Waiting,
     FindPC, ConstantsAssumption
<1>4. PartOK /\ StoredOK /\ StoredIsWhole
  BY DEF Init, PartOK, StoredOK, StoredIsWhole, Creating, Sealed, Uploads
<1> QED
  BY <1>1, <1>2, <1>3, <1>4 DEF IInv

(* Every reachable state satisfies the inductive invariant.                *)
THEOREM Invariance == Spec => []IInv
<1>1. ASSUME IInv, [Next]_vars PROVE IInv'
  BY <1>1, ConstantsAssumption, TypePreserved, LocksPreserved, RequestsPreserved,
     SessionsPreserved, CopyingPreserved, FilesPreserved, PartPreserved,
     StoredPreserved DEF IInv
<1>2. Init => IInv
  BY ConstantsAssumption, Initially
<1> QED
  BY <1>1, <1>2, PTL DEF Spec

(* Every variable keeps its type, the file lengths and positions their     *)
(* limits.                                                                 *)
THEOREM TypeCorrect == Spec => []TypeOK
  BY Invariance, PTL DEF IInv

(* An asset made of a session has every byte that was announced.           *)
THEOREM WholeAssets == Spec => []StoredIsWhole
  BY Invariance, PTL DEF IInv

(* A session that accepts chunks has its staging file.                     *)
THEOREM LiveFiles == Spec => []LiveSessionHasFile
<1>1. IInv => LiveSessionHasFile
  BY DEF IInv, PartOK, LiveSessionHasFile
<1> QED
  BY <1>1, Invariance, PTL

(* No staging file is left without a session or request, but by restarts.  *)
THEOREM NoLeak == Spec => []NoStagingLeak
<1>1. Owning \subseteq RequestPC \ FindPC
  BY DEF Owning, RequestPC, FindPC
<1>2. IInv => NoStagingLeak
  BY <1>1 DEF IInv, PartOK, NoStagingLeak, At
<1> QED
  BY <1>2, Invariance, PTL

-----------------------------------------------------------------------------
(* Every session behaves as one transfer.                                  *)

\* Only request r moves.
Only(r) == \A q \in Requests \ {r} : rpc'[q] = rpc[q] /\ rid'[q] = rid[q]

\* Request r stays in, or out of, the steps pcs of session i.
Keeps(r, i, pcs) == rid'[r] = i /\ rpc'[r] \in pcs <=> rid[r] = i /\ rpc[r] \in pcs

(* The status of a session that a step leaves alone.                       *)
LEMMA SameStatus ==
    ASSUME TypeOK, NEW r \in Requests, Only(r), NEW i \in Sessions,
           i \in used' <=> i \in used, stored'[i] = stored[i],
           i \in open' \ done' <=> i \in open \ done,
           Keeps(r, i, Sealed), Keeps(r, i, Creating)
    PROVE  Status'[i] = Status[i]
<1>1. At(i, Sealed)' <=> At(i, Sealed)
  BY DEF Only, Keeps, At
<1>2. At(i, Creating)' <=> At(i, Creating)
  BY DEF Only, Keeps, At
<1> QED
  BY <1>1, <1>2 DEF Status, Sealed, Creating

(* A session that accepts chunks is an open transfer.                      *)
LEMMA OpenStatus ==
    ASSUME IInv, NEW i \in open \ done PROVE Status[i] = "open" /\ i \in Sessions
<1>1. i \in Sessions /\ i \in used
  BY DEF IInv, TypeOK, SessionsOK
<1>2. ~At(i, Sealed)
  BY <1>1 DEF IInv, SessionsOK, At, Sealed
<1>3. ~(stored[i] > 0)
  BY <1>1 DEF IInv, StoredOK
<1> QED
  BY <1>1, <1>2, <1>3 DEF Status, Sealed

(* A session on its way into the library is a sealed one.                  *)
LEMMA SealedStatus ==
    ASSUME IInv, NEW r \in Requests, rpc[r] \in Sealed, rid[r] \in Sessions
    PROVE  Status[rid[r]] = "sealed"
<1>1. rid[r] \in used /\ stored[rid[r]] = 0
  BY DEF IInv, RequestsOK, StoredOK, Sealed
<1>2. At(rid[r], Sealed)
  BY DEF At
<1> QED
  BY <1>1, <1>2 DEF Status, Sealed

(* When its request gives up, it is lost.                                  *)
LEMMA GivenUp ==
    ASSUME IInv, NEW r \in Requests, rpc[r] \in Sealed, rid[r] \in Sessions,
           Only(r), rpc'[r] = "unlink", rid' = rid,
           UNCHANGED <<used, done, stored>>
    PROVE  Status'[rid[r]] = "lost"
<1>1. rid[r] \in used' /\ stored'[rid[r]] = 0 /\ rid[r] \in done'
  BY DEF IInv, RequestsOK, StoredOK, SessionsOK, Sealed
<1>2. \A q \in Requests \ {r} :
         rid[q] = rid[r] => rpc[q] \notin Sealed \cup Creating
  BY DEF IInv, RequestsOK, Owning, Sealed, Creating
<1>3. ~At(rid[r], Sealed)' /\ ~At(rid[r], Creating)'
  BY <1>2 DEF Only, At, Sealed, Creating
<1> QED
  BY <1>1, <1>3 DEF Status, Sealed, Creating

(* Changing the status of one session, or of none.                         *)
LEMMA OneStatus ==
    ASSUME NEW i \in Sessions, NEW s, Status'[i] = s,
           \A j \in Sessions \ {i} : Status'[j] = Status[j]
    PROVE  T!Become(i, s)
<1>1. Status' = [j \in Sessions |-> Status'[j]] /\ Status = [j \in Sessions |-> Status[j]]
  BY DEF Status
<1>2. Status' = [Status EXCEPT ![i] = s]
  <2>1. [Status EXCEPT ![i] = s] = [j \in Sessions |-> IF j = i THEN s ELSE Status[j]]
    BY <1>1
  <2> QED
    BY <1>1, <2>1
<1> QED
  BY <1>2 DEF T!Become

LEMMA NoStatus ==
    ASSUME \A j \in Sessions : Status'[j] = Status[j], UNCHANGED <<size, received>>
    PROVE  UNCHANGED T!vars
<1>1. Status' = [j \in Sessions |-> Status'[j]] /\ Status = [j \in Sessions |-> Status[j]]
  BY DEF Status
<1>2. Status' = Status
  BY <1>1
<1> QED
  BY <1>2 DEF T!vars

(* Starting a session starts its transfer.                                 *)
LEMMA StartRefines ==
    ASSUME ConstantsAssumption, IInv, NEW r \in Requests, NEW i \in Sessions,
           StartUpload(r, i)
    PROVE  T!Start(i)
<1>1. /\ i \notin used /\ i \in used' /\ stored'[i] = 0
      /\ rpc[r] = "idle" /\ rpc'[r] = "cr_lock" /\ rid'[r] = i
      /\ \A j \in Sessions \ {i} : j \in used' <=> j \in used
      /\ UNCHANGED <<open, done, stored>>
  BY DEF StartUpload, Begin, NewFile, library, IInv, TypeOK, FilesOK, Uploads
<1>2. Only(r)
  BY DEF StartUpload, Begin, Only, IInv, TypeOK
<1>3. Status[i] = "new"
  BY <1>1 DEF Status
<1>4. Status'[i] = "open"
  <2>1. \A q \in Requests \ {r} : rid'[q] = i => rpc'[q] = "idle"
    BY <1>1, <1>2 DEF Only, IInv, RequestsOK
  <2>2. ~At(i, Sealed)' /\ At(i, Creating)'
    BY <1>1, <2>1 DEF At, Sealed, Creating
  <2> QED
    BY <1>1, <2>2 DEF Status, Sealed, Creating
<1>5. \A j \in Sessions \ {i} : Status'[j] = Status[j]
  <2> TAKE j \in Sessions \ {i}
  <2>1. Keeps(r, j, Sealed) /\ Keeps(r, j, Creating)
    BY <1>1 DEF Keeps, Sealed, Creating
  <2> QED
    BY <1>1, <1>2, <2>1, SameStatus DEF IInv
<1>6. \E n \in 0 .. MaxSize : size' = [size EXCEPT ![i] = n]
  <2>1. PICK n \in Sizes : n <= MaxSize /\ size' = [size EXCEPT ![i] = n]
    BY DEF StartUpload
  <2>2. n \in 0 .. MaxSize
    BY <2>1 DEF ConstantsAssumption
  <2> QED
    BY <2>1, <2>2
<1>7. UNCHANGED received
  BY DEF StartUpload
<1> QED
  BY <1>3, <1>4, <1>5, <1>6, <1>7, OneStatus DEF T!Start

(* Adding the session to the map leaves its transfer open.                 *)
LEMMA CreatedRefines ==
    ASSUME IInv, NEW r \in Requests, PruneFiles(r)
    PROVE  UNCHANGED T!vars
<1>1. PICK i \in Sessions : i = rid[r]
  BY DEF PruneFiles, IInv, RequestsOK, Creating
<1>2. /\ rpc[r] = "prune" /\ i \in used /\ i \notin done /\ stored[i] = 0
      /\ rpc'[r] = "idle" /\ open' = open \cup {i}
      /\ UNCHANGED <<used, done, stored, size, received>>
  BY <1>1 DEF PruneFiles, End, library, IInv, TypeOK, RequestsOK, SessionsOK,
     StoredOK, Creating
<1>3. Only(r)
  BY DEF PruneFiles, End, Only, IInv, TypeOK
<1>4. \A q \in Requests \ {r} : rid[q] = i => rpc[q] \notin Sealed
  BY <1>1, <1>2 DEF IInv, RequestsOK, Owning, Sealed
<1>5. ~At(i, Sealed) /\ At(i, Creating) /\ ~At(i, Sealed)'
  BY <1>1, <1>2, <1>3, <1>4 DEF At, Only, Sealed, Creating
<1>6. Status'[i] = Status[i]
  BY <1>2, <1>5 DEF Status, Sealed, Creating
<1>7. \A j \in Sessions \ {i} : Status'[j] = Status[j]
  <2> TAKE j \in Sessions \ {i}
  <2>1. Keeps(r, j, Sealed) /\ Keeps(r, j, Creating)
    BY <1>1, <1>2 DEF Keeps, Sealed, Creating
  <2> QED
    BY <1>2, <1>3, <2>1, SameStatus DEF IInv
<1> QED
  BY <1>2, <1>6, <1>7, NoStatus

(* An expired session loses its transfer, unless it is sealed already.     *)
LEMMA PrunedRefines ==
    ASSUME IInv, NEW r \in Requests, PruneSession(r)
    PROVE  UNCHANGED T!vars \/ \E i \in Sessions : T!Lose(i)
<1>1. /\ UNCHANGED <<used, stored, size, received, rpc, rid>>
      /\ rpc[r] = "prune"
  BY DEF PruneSession, library
<1>2. \A j \in Sessions :
         (j \in open' \ done' <=> j \in open \ done) => Status'[j] = Status[j]
  <2> TAKE j \in Sessions
  <2>1. Keeps(r, j, Sealed) /\ Keeps(r, j, Creating) /\ Only(r)
    BY <1>1 DEF Keeps, Only
  <2> QED
    BY <1>1, <2>1, SameStatus DEF IInv
<1>3. PICK i \in rtodo[r] :
         \/ i \in stale /\ done' = done \cup {i} /\ open' = open \ {i}
         \/ UNCHANGED <<done, open>>
  BY DEF PruneSession
<1>4. i \in Sessions /\ i \in open \cup done
  BY <1>1, <1>3 DEF IInv, PartOK, TypeOK
<1>5. CASE i \in open \ done /\ done' = done \cup {i} /\ open' = open \ {i}
  <2>1. Status[i] = "open"
    BY <1>5, OpenStatus
  <2>2. i \in used /\ ~(stored[i] > 0)
    BY <1>4, <1>5 DEF IInv, SessionsOK, StoredOK
  <2>3. ~At(i, Sealed)' /\ ~At(i, Creating)'
    BY <1>1, <1>4, <1>5 DEF IInv, SessionsOK, At, Sealed, Creating
  <2>4. Status'[i] = "lost"
    BY <1>1, <1>4, <1>5, <2>2, <2>3 DEF Status, Sealed, Creating
  <2>5. \A j \in Sessions \ {i} : Status'[j] = Status[j]
    BY <1>2, <1>5
  <2> QED
    BY <1>1, <1>4, <2>1, <2>4, <2>5, OneStatus DEF T!Lose
<1>6. CASE i \notin open \ done \/ UNCHANGED <<done, open>>
  <2>1. \A j \in Sessions : j \in open' \ done' <=> j \in open \ done
    BY <1>3, <1>4, <1>6
  <2> QED
    BY <1>1, <1>2, <2>1, NoStatus
<1> QED
  BY <1>3, <1>5, <1>6

(* A chunk that was copied is received by an open transfer.                *)
LEMMA ChunkRefines ==
    ASSUME ConstantsAssumption, IInv, NEW r \in Requests, CopyDone(r)
    PROVE  UNCHANGED T!vars \/ \E i \in Sessions : T!Receive(i)
<1>1. /\ rpc[r] = "copy" /\ rpc'[r] = "idle"
      /\ UNCHANGED <<used, open, done, stored, size>>
      /\ rid[r] \in open \ done
  BY DEF CopyDone, End, library, IInv, TypeOK, CopyingOK
<1>2. Only(r)
  BY DEF CopyDone, End, Only, IInv, TypeOK
<1>3. \A j \in Sessions : Status'[j] = Status[j]
  <2> TAKE j \in Sessions
  <2>1. Keeps(r, j, Sealed) /\ Keeps(r, j, Creating)
    BY <1>1 DEF Keeps, Sealed, Creating
  <2> QED
    BY <1>1, <1>2, <2>1, SameStatus DEF IInv
<1>4. CASE UNCHANGED received
  BY <1>1, <1>3, <1>4, NoStatus
<1>5. CASE received' = [received EXCEPT ![rid[r]] = received[rid[r]] + rgot[r]]
  <2>1. Status[rid[r]] = "open" /\ rid[r] \in Sessions
    BY <1>1, OpenStatus
  <2>2. received[rid[r]] + rgot[r] \in received[rid[r]] .. size[rid[r]]
    <3>1. rgot[r] <= size[rid[r]] - received[rid[r]]
      BY <1>1 DEF CopyDone, Remaining, IInv, CopyingOK
    <3>2. /\ received[rid[r]] \in Nat /\ size[rid[r]] \in Nat /\ rgot[r] \in Nat
      BY <2>1 DEF IInv, TypeOK, ConstantsAssumption
    <3> QED
      BY <3>1, <3>2
  <2>3. Status' = Status
    BY <1>1, <1>3 DEF Status
  <2> QED
    BY <1>1, <1>5, <2>1, <2>2, <2>3 DEF T!Receive
<1> QED
  BY <1>4, <1>5 DEF CopyDone

(* detach seals the transfer, or gives it up.                              *)
LEMMA DetachRefines ==
    ASSUME IInv, NEW r \in Requests, DetachLock(r)
    PROVE  UNCHANGED T!vars \/ \E i \in Sessions : T!Seal(i) \/ T!Lose(i)
<1>1. /\ rpc[r] \in {"cp_lock", "cn_lock"} /\ rid[r] \in Sessions
      /\ rid[r] \in open \cup done /\ rid[r] \in used
      /\ UNCHANGED <<used, open, stored, size, received>>
  BY DEF DetachLock, library, IInv, RequestsOK, SessionsOK, Waiting
<1>2. Only(r)
  BY DEF DetachLock, Goto, End, Only, IInv, TypeOK
<1>3. \A j \in Sessions :
         j # rid[r] /\ done' \subseteq done \cup {rid[r]} /\ done \subseteq done'
             /\ (rid'[r] # j \/ rpc'[r] = "idle") => Status'[j] = Status[j]
  <2> TAKE j \in Sessions
  <2> HAVE /\ j # rid[r] /\ done' \subseteq done \cup {rid[r]} /\ done \subseteq done'
           /\ (rid'[r] # j \/ rpc'[r] = "idle")
  <2>1. Keeps(r, j, Sealed) /\ Keeps(r, j, Creating)
    BY <1>1 DEF Keeps, Sealed, Creating
  <2> QED
    BY <1>1, <1>2, <2>1, SameStatus DEF IInv
<1>4. CASE rid[r] \in done
  <2>1. UNCHANGED done /\ rpc'[r] = "idle"
    BY <1>4 DEF DetachLock, End, IInv, TypeOK
  <2>2. Keeps(r, rid[r], Sealed) /\ Keeps(r, rid[r], Creating)
    BY <1>1, <2>1 DEF Keeps, Sealed, Creating
  <2>3. Status'[rid[r]] = Status[rid[r]]
    BY <1>1, <1>2, <2>1, <2>2, SameStatus DEF IInv
  <2> QED
    BY <1>1, <1>3, <2>1, <2>3, NoStatus
<1>5. CASE rid[r] \notin done
  <2>1. /\ done' = done \cup {rid[r]} /\ rid' = rid
        /\ \/ rpc[r] = "cp_lock" /\ rpc'[r] = "cp_map"
           \/ rpc[r] = "cn_lock" /\ rpc'[r] = "cn_map"
    BY <1>5 DEF DetachLock, Goto, IInv, TypeOK
  <2>2. Status[rid[r]] = "open"
    BY <1>1, <1>5, OpenStatus
  <2>3. \A j \in Sessions \ {rid[r]} : Status'[j] = Status[j]
    BY <1>3, <2>1
  <2>4. rid[r] \in used' /\ ~(stored'[rid[r]] > 0)
    BY <1>1, <1>5 DEF IInv, StoredOK
  <2>5. CASE rpc'[r] = "cp_map"
    <3>1. At(rid[r], Sealed)'
      BY <2>1, <2>5 DEF At, Sealed
    <3>2. Status'[rid[r]] = "sealed"
      BY <1>1, <2>1, <2>4, <3>1 DEF Status, Sealed
    <3> QED
      BY <1>1, <2>2, <2>3, <3>2, OneStatus DEF T!Seal
  <2>6. CASE rpc'[r] = "cn_map"
    <3>1. \A q \in Requests \ {r} :
             rid[q] = rid[r] => rpc[q] \notin Sealed \cup Creating
      BY <1>1, <1>5 DEF IInv, SessionsOK, Sealed, Creating
    <3>2. ~At(rid[r], Sealed)' /\ ~At(rid[r], Creating)'
      BY <1>2, <2>1, <2>6, <3>1 DEF Only, At, Sealed, Creating
    <3>3. Status'[rid[r]] = "lost"
      BY <1>1, <2>1, <2>4, <3>2 DEF Status, Sealed, Creating
    <3> QED
      BY <1>1, <2>2, <2>3, <3>3, OneStatus DEF T!Lose
  <2> QED
    BY <2>1, <2>5, <2>6
<1> QED
  BY <1>4, <1>5

(* Steps of a sealed upload: it goes on, or is given up.                   *)
LEMMA SealedRefines ==
    ASSUME IInv, NEW r \in Requests, DetachMap(r) \/ StoreOpen(r) \/ StoreFail(r)
    PROVE  UNCHANGED T!vars \/ \E i \in Sessions : T!Lose(i)
<1>1. /\ rpc[r] \in Sealed \cup {"cn_map"} /\ rid' = rid
      /\ UNCHANGED <<used, done, stored, size, received>>
      /\ \/ rpc'[r] = "unlink"
         \/ rpc[r] \in Sealed /\ rpc'[r] \in Sealed
  BY DEF DetachMap, StoreOpen, StoreFail, Goto, sessions, library, Sealed, IInv, TypeOK
<1>2. Only(r)
  BY DEF DetachMap, StoreOpen, StoreFail, Goto, Only, IInv, TypeOK
<1>3. \A j \in Sessions : j \in open' \ done' <=> j \in open \ done
  <2>1. CASE DetachMap(r)
    <3>1. rid[r] \in done
      BY <2>1 DEF DetachMap, IInv, RequestsOK, SessionsOK
    <3> QED
      BY <2>1, <3>1 DEF DetachMap
  <2>2. CASE StoreOpen(r) \/ StoreFail(r)
    BY <2>2 DEF StoreOpen, StoreFail, sessions
  <2> QED
    BY <2>1, <2>2
<1>4. \A j \in Sessions : Keeps(r, j, Creating)
  BY <1>1 DEF Keeps, Creating, Sealed
<1>5. \A j \in Sessions : Keeps(r, j, Sealed) => Status'[j] = Status[j]
  BY <1>1, <1>2, <1>3, <1>4, SameStatus DEF IInv
<1>6. CASE rid[r] \in Sessions /\ rpc[r] \in Sealed /\ rpc'[r] = "unlink"
  <2>1. \A j \in Sessions \ {rid[r]} : Keeps(r, j, Sealed)
    BY <1>1 DEF Keeps
  <2>2. Status[rid[r]] = "sealed" /\ Status'[rid[r]] = "lost"
    BY <1>1, <1>2, <1>6, SealedStatus, GivenUp
  <2> QED
    BY <1>1, <1>5, <1>6, <2>1, <2>2, OneStatus DEF T!Lose
<1>7. CASE ~(rid[r] \in Sessions /\ rpc[r] \in Sealed /\ rpc'[r] = "unlink")
  <2>1. \A j \in Sessions : Keeps(r, j, Sealed)
    BY <1>1, <1>7 DEF Keeps, Sealed
  <2> QED
    BY <1>1, <1>5, <2>1, NoStatus
<1> QED
  BY <1>6, <1>7

(* Storing a session stores its transfer, all of whose bytes were taken.   *)
LEMMA StoreRefines ==
    ASSUME IInv, NEW r \in Requests, Store(r)
    PROVE  UNCHANGED T!vars \/ \E i \in Sessions : T!Store(i)
<1>1. /\ rpc[r] = "store" /\ rpc'[r] = "unlink" /\ rid' = rid
      /\ UNCHANGED <<used, open, done, size, received>>
      /\ rid[r] \in Uploads /\ rid[r] \in used
      /\ \A j \in Uploads \ {rid[r]} : stored'[j] = stored[j]
      /\ stored[rid[r]] = 0 /\ stored'[rid[r]] = 1
  BY DEF Store, Goto, sessions, IInv, TypeOK, RequestsOK, StoredOK, Sealed
<1>2. Only(r)
  BY DEF Store, Goto, Only, IInv, TypeOK
<1>3. \A j \in Sessions \ {rid[r]} : Status'[j] = Status[j]
  <2> TAKE j \in Sessions \ {rid[r]}
  <2>1. Keeps(r, j, Sealed) /\ Keeps(r, j, Creating)
    BY <1>1 DEF Keeps, Sealed, Creating
  <2> QED
    BY <1>1, <1>2, <2>1, SameStatus DEF IInv, Uploads
<1>4. CASE rid[r] \in Sessions
  <2>1. Status[rid[r]] = "sealed" /\ received[rid[r]] = size[rid[r]]
    BY <1>1, <1>4, SealedStatus DEF IInv, StoredOK, Sealed
  <2>2. Status'[rid[r]] = "stored"
    BY <1>1, <1>4 DEF Status
  <2> QED
    BY <1>1, <1>3, <1>4, <2>1, <2>2, OneStatus DEF T!Store
<1>5. CASE rid[r] \notin Sessions
  BY <1>1, <1>3, <1>5, NoStatus
<1> QED
  BY <1>4, <1>5

(* The steps of requests that no transfer notices.                         *)
LEMMA QuietRefines ==
    ASSUME ConstantsAssumption, IInv, NEW r \in Requests,
           \/ \E i \in Sessions : Find(r, i)
           \/ \E i \in Spools : SpoolBegin(r, i)
           \/ CreateLock(r) \/ Lookup(r) \/ WriteBegin(r) \/ Unlink(r)
           \/ CopyByte(r) \/ CopyFail(r)
           \/ SpoolByte(r) \/ SpoolDone(r) \/ SpoolFail(r)
    PROVE  UNCHANGED T!vars
<1>1. /\ UNCHANGED <<open, done, stored, size, received>>
      /\ \A j \in Sessions : j \in used' <=> j \in used
  BY DEF Find, Request, SpoolBegin, NewFile, CreateLock, Lookup, WriteBegin, Unlink,
     CopyByte, CopyFail, SpoolByte, SpoolDone, SpoolFail, sessions, library,
     ConstantsAssumption
<1>2. Only(r)
  BY DEF Find, Request, SpoolBegin, Begin, CreateLock, Lookup, WriteBegin, Unlink,
     CopyByte, CopyFail, SpoolByte, SpoolDone, SpoolFail, requests, Goto, End,
     Only, IInv, TypeOK
<1>3. \A j \in Sessions : Keeps(r, j, Sealed) /\ Keeps(r, j, Creating)
  <2>1. CASE \E i \in Sessions : Find(r, i)
    BY <2>1 DEF Find, Request, Begin, Keeps, FindPC, Sealed, Creating, IInv, TypeOK
  <2>2. CASE \/ \E i \in Spools : SpoolBegin(r, i)
             \/ SpoolByte(r) \/ SpoolDone(r) \/ SpoolFail(r)
    <3>1. rid'[r] \in Spools /\ (rpc[r] = "idle" \/ rid[r] \in Spools)
      BY <2>2 DEF SpoolBegin, Begin, SpoolByte, SpoolDone, SpoolFail, Goto, requests,
         IInv, TypeOK, RequestsOK
    <3> QED
      BY <3>1 DEF Keeps, Sealed, Creating, ConstantsAssumption
  <2>3. CASE CreateLock(r)
    BY <2>3 DEF CreateLock, Keeps, Sealed, Creating, IInv, TypeOK
  <2>4. CASE Lookup(r)
    BY <2>4 DEF Lookup, Goto, End, Lock, FindPC, Keeps, Sealed, Creating, IInv, TypeOK
  <2>5. CASE WriteBegin(r) \/ CopyFail(r) \/ Unlink(r) \/ CopyByte(r)
    BY <2>5 DEF WriteBegin, CopyFail, Unlink, CopyByte, Goto, End, Keeps, Sealed,
       Creating, IInv, TypeOK
  <2> QED
    BY <2>1, <2>2, <2>3, <2>4, <2>5
<1>4. \A j \in Sessions : Status'[j] = Status[j]
  BY <1>1, <1>2, <1>3, SameStatus DEF IInv
<1> QED
  BY <1>1, <1>4, NoStatus

(* A restart loses every transfer that is not stored.                      *)
LEMMA RestartRefines ==
    ASSUME IInv, Restart PROVE T!LoseAll
<1>1. /\ UNCHANGED <<used, stored, size, received>> /\ open' = {}
      /\ \A q \in Requests : rpc'[q] = "idle"
  BY DEF Restart, library
<1>2. \A i \in Sessions : ~At(i, Sealed)' /\ ~At(i, Creating)'
  BY <1>1 DEF At, Sealed, Creating
<1>3. \A i \in Sessions :
         Status'[i] = IF Status[i] \in {"open", "sealed"} THEN "lost" ELSE Status[i]
  BY <1>1, <1>2 DEF Status, Sealed, Creating
<1>4. Status' = [i \in Sessions |-> Status'[i]]
  BY DEF Status
<1> QED
  BY <1>1, <1>3, <1>4 DEF T!LoseAll

(* Every step of the sessions is a step of the transfers, or none.         *)
LEMMA StepRefines ==
    ASSUME ConstantsAssumption, IInv, [Next]_vars
    PROVE  [T!Next]_(T!vars)
<1>1. CASE UNCHANGED vars
  <2>1. UNCHANGED <<used, open, done, stored, rpc, rid, size, received>>
    BY <1>1 DEF vars, sessions, requests, library
  <2> QED
    BY <2>1 DEF T!vars, Status, At
<1>2. CASE \E i \in Uploads : Age(i)
  <2>1. UNCHANGED <<used, open, done, stored, rpc, rid, size, received>>
    BY <1>2 DEF Age, requests, library
  <2> QED
    BY <2>1 DEF T!vars, Status, At
<1>3. CASE Restart
  BY <1>3, RestartRefines DEF T!Next
<1>4. ASSUME NEW r \in Requests,
             \/ \E i \in Sessions : StartUpload(r, i) \/ Find(r, i)
             \/ \E i \in Spools : SpoolBegin(r, i)
             \/ Server(r) \/ Body(r)
      PROVE  [T!Next]_(T!vars)
  <2>1. CASE \E i \in Sessions : StartUpload(r, i)
    BY <2>1, StartRefines DEF T!Next
  <2>2. CASE PruneFiles(r)
    BY <2>2, CreatedRefines
  <2>3. CASE PruneSession(r)
    BY <2>3, PrunedRefines DEF T!Next
  <2>4. CASE CopyDone(r)
    BY <2>4, ChunkRefines DEF T!Next
  <2>5. CASE DetachLock(r)
    BY <2>5, DetachRefines DEF T!Next
  <2>6. CASE DetachMap(r) \/ StoreOpen(r) \/ StoreFail(r)
    BY <2>6, SealedRefines DEF T!Next
  <2>7. CASE Store(r)
    BY <2>7, StoreRefines DEF T!Next
  <2>8. CASE \/ \E i \in Sessions : Find(r, i)
             \/ \E i \in Spools : SpoolBegin(r, i)
             \/ CreateLock(r) \/ Lookup(r) \/ WriteBegin(r) \/ Unlink(r)
             \/ CopyByte(r) \/ CopyFail(r)
             \/ SpoolByte(r) \/ SpoolDone(r) \/ SpoolFail(r)
    BY <2>8, QuietRefines
  <2> QED
    BY <1>4, <2>1, <2>2, <2>3, <2>4, <2>5, <2>6, <2>7, <2>8 DEF Server, Body
<1> QED
  BY <1>1, <1>2, <1>3, <1>4, Steps

(* Each session is one transfer: no byte after sealing, one asset at most, *)
(* and none before every byte was taken.                                   *)
THEOREM Refinement == Spec => ImplementsTransfer
<1>1. Init => T!Init
  <2>1. ASSUME Init PROVE Status = [i \in Sessions |-> "new"]
    BY <2>1 DEF Init, Status
  <2> QED
    BY <2>1 DEF Init, T!Init
<1>2. IInv /\ [Next]_vars => [T!Next]_(T!vars)
  BY ConstantsAssumption, StepRefines
<1> QED
  BY <1>1, <1>2, Invariance, PTL DEF Spec, ImplementsTransfer, T!Spec
=============================================================================
