---------------------------- MODULE UploadSession ---------------------------
(***************************************************************************)
(* Uploads of godam on their way into the library: the resumable sessions  *)
(* (create, chunk, complete, cancel), whose bytes are assembled in staging *)
(* files, and the single-request uploads that spool their body to the same *)
(* directory.                                                              *)
(*                                                                         *)
(*   service/upload_session.go   the session map, its locks, pruning       *)
(*   service/asset_service.go    CompleteUpload, spoolUpload, the store    *)
(*   api/assets.go               handleUploadChunk's limit on the body     *)
(*                                                                         *)
(* An action is a critical section, or a stretch of code between two of    *)
(* them.  The manager's mutex m.mu guards the map; the mutex of a session  *)
(* is held while a chunk is copied from the client, however long that      *)
(* takes.  Names, types, drivers and attributes are left out.              *)
(***************************************************************************)
EXTENDS Naturals, FiniteSets

CONSTANTS
    Sessions,   \* ids of resumable uploads (UUIDs: used once)
    Spools,     \* names of the staging files of single-request uploads
    Requests,   \* HTTP requests that can be in flight at the same time
    Actors,     \* token actors
    Owner,      \* the actor who starts each session
    Actor,      \* the actor of each request
    None,       \* no request holds the mutex; the request has no upload
    ChunkSize,  \* UploadChunkSize
    MaxSize,    \* the stream limit of the upload policy
    Sizes,      \* sizes that clients announce
    MaxFaults,  \* bound: ftruncate calls that fail
    MaxStops    \* bound: restarts of the process

Uploads == Sessions \cup Spools

ASSUME ConstantsAssumption ==
    /\ Sessions \cap Spools = {}
    /\ None \notin Requests \cup Uploads
    /\ Owner \in [Sessions -> Actors]
    /\ Actor \in [Requests -> Actors]
    /\ ChunkSize \in Nat \ {0} /\ MaxSize \in Nat
    /\ Sizes \subseteq Nat
    /\ MaxFaults \in Nat /\ MaxStops \in Nat

VARIABLES
    used,      \* ids that have been handed out
    size,      \* bytes announced for each session
    received,  \* session.Received
    open,      \* m.sessions
    done,      \* sessions marked Done
    stale,     \* sessions whose LastActivity is older than the TTL
    part,      \* staging files that exist
    len,       \* their lengths
    bytes,     \* positions of a file that hold the client's byte for them
    old,       \* files whose ModTime is older than the TTL
    mmu,       \* who holds the manager's mutex
    smu,       \* who holds the mutex of each session
    rpc,       \* what each request is about to do
    rid,       \* the upload it is about
    roff,      \* the offset of its chunk
    rgot,      \* bytes of the chunk copied so far
    rtodo,     \* sessions its prune has yet to look at
    stored,    \* how many assets came out of each upload
    content,   \* length and bytes of what was stored last
    left,      \* history: files that a restart left behind
    faults, stops  \* how much of the bounds is used

sessions == <<used, size, received, open, done, stale>>
files    == <<part, len, bytes, old>>
locks    == <<mmu, smu>>
requests == <<rpc, rid, roff, rgot, rtodo>>
library  == <<stored, content>>
bounds   == <<faults, stops>>
vars     == <<sessions, files, locks, requests, library, left, bounds>>

FindPC == {"wr_find", "cp_find", "cn_find"}

RequestPC == {"idle", "cr_lock", "prune", "wr_lock", "copy",
              "cp_lock", "cp_map", "cn_lock", "cn_map",
              "sp_copy", "st_open", "store", "unlink"} \cup FindPC

Content == [len : 0 .. MaxSize + 1, bytes : SUBSET (0 .. MaxSize)]

TypeOK ==
    /\ used \subseteq Uploads
    /\ size \in [Sessions -> 0 .. MaxSize]
    /\ received \in [Sessions -> 0 .. MaxSize]
    /\ open \subseteq Sessions /\ done \subseteq Sessions /\ stale \subseteq Sessions
    /\ part \subseteq Uploads /\ old \subseteq Uploads
    /\ len \in [Uploads -> 0 .. MaxSize + 1]
    /\ bytes \in [Uploads -> SUBSET (0 .. MaxSize)]
    /\ mmu \in Requests \cup {None}
    /\ smu \in [Sessions -> Requests \cup {None}]
    /\ rpc \in [Requests -> RequestPC]
    /\ rid \in [Requests -> Uploads \cup {None}]
    /\ roff \in [Requests -> 0 .. MaxSize]
    /\ rgot \in [Requests -> 0 .. MaxSize + 1]
    /\ rtodo \in [Requests -> SUBSET Sessions]
    /\ stored \in [Uploads -> Nat]
    /\ content \in [Uploads -> Content]
    /\ left \subseteq Uploads
    /\ faults \in 0 .. MaxFaults /\ stops \in 0 .. MaxStops

Nothing == [len |-> 0, bytes |-> {}]

Init ==
    /\ used = {} /\ open = {} /\ done = {} /\ stale = {}
    /\ size = [i \in Sessions |-> 0]
    /\ received = [i \in Sessions |-> 0]
    /\ part = {} /\ old = {}
    /\ len = [i \in Uploads |-> 0]
    /\ bytes = [i \in Uploads |-> {}]
    /\ mmu = None
    /\ smu = [i \in Sessions |-> None]
    /\ rpc = [r \in Requests |-> "idle"]
    /\ rid = [r \in Requests |-> None]
    /\ roff = [r \in Requests |-> 0]
    /\ rgot = [r \in Requests |-> 0]
    /\ rtodo = [r \in Requests |-> {}]
    /\ stored = [i \in Uploads |-> 0]
    /\ content = [i \in Uploads |-> Nothing]
    /\ left = {}
    /\ faults = 0 /\ stops = 0

-----------------------------------------------------------------------------
(* Requests and files.                                                     *)

Goto(r, pc) == rpc' = [rpc EXCEPT ![r] = pc] /\ UNCHANGED <<rid, roff, rgot, rtodo>>

Begin(r, pc, i) ==
    /\ rpc[r] = "idle"
    /\ rpc' = [rpc EXCEPT ![r] = pc]
    /\ rid' = [rid EXCEPT ![r] = i]
    /\ UNCHANGED <<rgot, rtodo>>

End(r) ==
    /\ rpc' = [rpc EXCEPT ![r] = "idle"]
    /\ rid' = [rid EXCEPT ![r] = None]
    /\ roff' = [roff EXCEPT ![r] = 0]
    /\ rgot' = [rgot EXCEPT ![r] = 0]
    /\ UNCHANGED rtodo

NewFile(i) ==
    /\ i \notin used
    /\ used' = used \cup {i}
    /\ part' = part \cup {i}
    /\ UNCHANGED <<len, bytes, old>>

\* One more byte of a body goes to position p of a file.
PutByte(i, p) ==
    /\ bytes' = [bytes EXCEPT ![i] = @ \cup {p}]
    /\ len' = [len EXCEPT ![i] = IF @ > p THEN @ ELSE p + 1]
    /\ old' = old \ {i}
    /\ UNCHANGED part

Truncate(i, n) ==
    /\ len' = [len EXCEPT ![i] = n]
    /\ bytes' = [bytes EXCEPT ![i] = {p \in @ : p < n}]
    /\ old' = old \ {i}
    /\ UNCHANGED part

Fault == faults < MaxFaults /\ faults' = faults + 1 /\ UNCHANGED stops

-----------------------------------------------------------------------------
(* StartUpload and uploadManager.create.                                   *)

StartUpload(r, i) ==
    /\ Owner[i] = Actor[r]
    /\ Begin(r, "cr_lock", i)
    /\ NewFile(i)
    /\ \E n \in Sizes : n <= MaxSize /\ size' = [size EXCEPT ![i] = n]
    /\ UNCHANGED <<received, open, done, stale, locks, roff, library, left, bounds>>

CreateLock(r) ==
    /\ rpc[r] = "cr_lock"
    /\ mmu = None
    /\ mmu' = r
    /\ rpc' = [rpc EXCEPT ![r] = "prune"]
    /\ rtodo' = [rtodo EXCEPT ![r] = open]
    /\ UNCHANGED <<sessions, files, smu, rid, roff, rgot, library, left, bounds>>

\* Slip: an expired session loses its file and stays in the map.
PruneSessionKept(r) ==
    /\ rpc[r] = "prune"
    /\ \E i \in rtodo[r] :
         /\ smu[i] = None
         /\ rtodo' = [rtodo EXCEPT ![r] = @ \ {i}]
         /\ part' = IF i \in stale THEN part \ {i} ELSE part
    /\ UNCHANGED <<sessions, len, bytes, old, locks, rpc, rid, roff, rgot,
                   library, left, bounds>>

\* pruneLocked takes the mutex of every session while it holds the manager's.
PruneSession(r) ==
    /\ rpc[r] = "prune"
    /\ \E i \in rtodo[r] :
         /\ smu[i] = None
         /\ rtodo' = [rtodo EXCEPT ![r] = @ \ {i}]
         /\ \/ /\ i \in stale
               /\ done' = done \cup {i}
               /\ open' = open \ {i}
               /\ part' = part \ {i}
            \/ i \notin stale /\ UNCHANGED <<done, open, part>>
    /\ UNCHANGED <<used, size, received, stale, len, bytes, old, locks,
                   rpc, rid, roff, rgot, library, left, bounds>>

\* Then it removes what is old in the directory, and create adds the session.
PruneFiles(r) ==
    /\ rpc[r] = "prune"
    /\ rtodo[r] = {}
    /\ part' = part \ old
    /\ open' = open \cup {rid[r]}
    /\ mmu' = None
    /\ End(r)
    /\ UNCHANGED <<used, size, received, done, stale, len, bytes, old, smu,
                   library, left, bounds>>

-----------------------------------------------------------------------------
(* lookup, for the requests that name a session.                           *)

Request(r, pc, i, offset) ==
    /\ i \in used
    /\ Begin(r, pc, i)
    /\ roff' = [roff EXCEPT ![r] = offset]
    /\ UNCHANGED <<sessions, files, locks, library, left, bounds>>

WriteUploadChunk(r, i, offset) == Request(r, "wr_find", i, offset)
CompleteUpload(r, i) == Request(r, "cp_find", i, 0)
CancelUpload(r, i) == Request(r, "cn_find", i, 0)

Lock(pc) ==
    CASE pc = "wr_find" -> "wr_lock"
      [] pc = "cp_find" -> "cp_lock"
      [] pc = "cn_find" -> "cn_lock"

\* To other actors the session does not exist.
Visible(r) == rid[r] \in open /\ Owner[rid[r]] = Actor[r]

Lookup(r) ==
    /\ rpc[r] \in FindPC
    /\ mmu = None
    /\ \/ Visible(r) /\ Goto(r, Lock(rpc[r]))
       \/ ~Visible(r) /\ End(r)
    /\ UNCHANGED <<sessions, files, locks, library, left, bounds>>

-----------------------------------------------------------------------------
(* uploadManager.write.                                                    *)

\* Slip: the offset of the chunk is not compared with what was received.
AcceptsAnyOffset(r) ==
    /\ rid[r] \notin done
    /\ roff[r] < size[rid[r]]
    /\ rid[r] \in part

Accepts(r) ==
    /\ rid[r] \notin done
    /\ roff[r] = received[rid[r]]
    /\ roff[r] < size[rid[r]]
    /\ rid[r] \in part

\* Slip: write without session.mu.
WriteBeginUnlocked(r) ==
    /\ rpc[r] = "wr_lock"
    /\ \/ Accepts(r) /\ smu' = [smu EXCEPT ![rid[r]] = r] /\ Goto(r, "copy")
       \/ ~Accepts(r) /\ UNCHANGED smu /\ End(r)
    /\ UNCHANGED <<sessions, files, mmu, library, left, bounds>>

WriteBegin(r) ==
    /\ rpc[r] = "wr_lock"
    /\ smu[rid[r]] = None
    /\ \/ Accepts(r) /\ smu' = [smu EXCEPT ![rid[r]] = r] /\ Goto(r, "copy")
       \/ ~Accepts(r) /\ UNCHANGED smu /\ End(r)
    /\ UNCHANGED <<sessions, files, mmu, library, left, bounds>>

\* Slip: the bytes received before are forgotten.
RemainingAll(r) == size[rid[r]]

Remaining(r) == size[rid[r]] - roff[r]

\* io.Copy takes one byte more than remains, so that it sees a surplus, and
\* MaxBytesReader lets one byte more than ChunkSize through.
CopyByte(r) ==
    /\ rpc[r] = "copy"
    /\ rgot[r] <= Remaining(r) /\ rgot[r] <= ChunkSize
    /\ PutByte(rid[r], roff[r] + rgot[r])
    /\ rgot' = [rgot EXCEPT ![r] = @ + 1]
    /\ UNCHANGED <<sessions, locks, rpc, rid, roff, rtodo, library, left, bounds>>

Unlock(i) == smu' = [smu EXCEPT ![i] = None] /\ UNCHANGED mmu

\* The body has ended and fits.
CopyDone(r) ==
    /\ rpc[r] = "copy"
    /\ rgot[r] <= Remaining(r)
    /\ \/ /\ Truncate(rid[r], roff[r] + rgot[r])
          /\ received' = [received EXCEPT ![rid[r]] = @ + rgot[r]]
          /\ stale' = stale \ {rid[r]}
          /\ UNCHANGED bounds
       \/ Fault /\ UNCHANGED <<files, received, stale>>
    /\ Unlock(rid[r])
    /\ End(r)
    /\ UNCHANGED <<used, size, open, done, library, left>>

\* The body breaks off, or there is too much of it.
CopyFail(r) ==
    /\ rpc[r] = "copy"
    /\ \/ Truncate(rid[r], roff[r]) /\ UNCHANGED bounds
       \/ Fault /\ UNCHANGED files
    /\ Unlock(rid[r])
    /\ End(r)
    /\ UNCHANGED <<sessions, library, left>>

-----------------------------------------------------------------------------
(* detach, for CompleteUpload ("cp") and CancelUpload ("cn").              *)

\* Slip: detach without looking at Done.
DetachLockAgain(r) ==
    /\ rpc[r] \in {"cp_lock", "cn_lock"}
    /\ smu[rid[r]] = None
    /\ done' = done \cup {rid[r]}
    /\ \/ rpc[r] = "cp_lock" /\ Goto(r, "cp_map")
       \/ rpc[r] = "cn_lock" /\ Goto(r, "cn_map")
    /\ UNCHANGED <<used, size, received, open, stale, files, locks, library, left, bounds>>

DetachLock(r) ==
    /\ rpc[r] \in {"cp_lock", "cn_lock"}
    /\ smu[rid[r]] = None
    /\ \/ /\ rid[r] \notin done
          /\ done' = done \cup {rid[r]}
          /\ \/ rpc[r] = "cp_lock" /\ Goto(r, "cp_map")
             \/ rpc[r] = "cn_lock" /\ Goto(r, "cn_map")
       \/ rid[r] \in done /\ UNCHANGED done /\ End(r)
    /\ UNCHANGED <<used, size, received, open, stale, files, locks, library, left, bounds>>

\* Slip: an incomplete upload is refused and its file stays.
DetachMapKeepsFile(r) ==
    /\ rpc[r] \in {"cp_map", "cn_map"}
    /\ mmu = None
    /\ open' = open \ {rid[r]}
    /\ \/ rpc[r] = "cp_map" /\ received[rid[r]] = size[rid[r]] /\ Goto(r, "st_open")
       \/ rpc[r] = "cp_map" /\ received[rid[r]] # size[rid[r]] /\ End(r)
       \/ rpc[r] = "cn_map" /\ Goto(r, "unlink")
    /\ UNCHANGED <<used, size, received, done, stale, files, locks, library, left, bounds>>

\* Slip: CompleteUpload does not compare received with the size.
DetachMapUnchecked(r) ==
    /\ rpc[r] \in {"cp_map", "cn_map"}
    /\ mmu = None
    /\ open' = open \ {rid[r]}
    /\ \/ rpc[r] = "cp_map" /\ Goto(r, "st_open")
       \/ rpc[r] = "cn_map" /\ Goto(r, "unlink")
    /\ UNCHANGED <<used, size, received, done, stale, files, locks, library, left, bounds>>

\* Slip: a completion that comes early waits for the rest of the bytes,
\* which a session marked Done does not take any more.
DetachMapWaits(r) ==
    /\ rpc[r] \in {"cp_map", "cn_map"}
    /\ mmu = None
    /\ open' = open \ {rid[r]}
    /\ \/ rpc[r] = "cp_map" /\ received[rid[r]] = size[rid[r]] /\ Goto(r, "st_open")
       \/ rpc[r] = "cn_map" /\ Goto(r, "unlink")
    /\ UNCHANGED <<used, size, received, done, stale, files, locks, library, left, bounds>>

DetachMap(r) ==
    /\ rpc[r] \in {"cp_map", "cn_map"}
    /\ mmu = None
    /\ open' = open \ {rid[r]}
    /\ \/ rpc[r] = "cp_map" /\ received[rid[r]] = size[rid[r]] /\ Goto(r, "st_open")
       \/ (rpc[r] = "cp_map" => received[rid[r]] # size[rid[r]]) /\ Goto(r, "unlink")
    /\ UNCHANGED <<used, size, received, done, stale, files, locks, library, left, bounds>>

-----------------------------------------------------------------------------
(* spoolUpload, for Upload (and ReplaceContent).                           *)

SpoolBegin(r, i) ==
    /\ Begin(r, "sp_copy", i)
    /\ NewFile(i)
    /\ UNCHANGED <<size, received, open, done, stale, locks, roff, library, left, bounds>>

SpoolByte(r) ==
    /\ rpc[r] = "sp_copy"
    /\ len[rid[r]] <= MaxSize
    /\ PutByte(rid[r], len[rid[r]])
    /\ UNCHANGED <<sessions, locks, requests, library, left, bounds>>

SpoolDone(r) ==
    /\ rpc[r] = "sp_copy"
    /\ len[rid[r]] <= MaxSize
    /\ Goto(r, "st_open")
    /\ UNCHANGED <<sessions, files, locks, library, left, bounds>>

\* Slip: the staging file of a body that breaks off stays.
SpoolFailKeepsFile(r) ==
    /\ rpc[r] = "sp_copy"
    /\ End(r)
    /\ UNCHANGED <<sessions, files, locks, library, left, bounds>>

\* The body breaks off, or is over the limit.
SpoolFail(r) ==
    /\ rpc[r] = "sp_copy"
    /\ Goto(r, "unlink")
    /\ UNCHANGED <<sessions, files, locks, library, left, bounds>>

-----------------------------------------------------------------------------
(* storeUploadFile, seen from the staging file.  The open file outlives    *)
(* its name.                                                               *)

StoreOpen(r) ==
    /\ rpc[r] = "st_open"
    /\ \/ rid[r] \in part /\ Goto(r, "store")
       \/ rid[r] \notin part /\ Goto(r, "unlink")
    /\ UNCHANGED <<sessions, files, locks, library, left, bounds>>

Store(r) ==
    /\ rpc[r] = "store"
    /\ stored' = [stored EXCEPT ![rid[r]] = @ + 1]
    /\ content' = [content EXCEPT ![rid[r]] =
                     [len |-> len[rid[r]], bytes |-> bytes[rid[r]]]]
    /\ Goto(r, "unlink")
    /\ UNCHANGED <<sessions, files, locks, left, bounds>>

\* The policy refuses the file, or a driver or a statement fails.
StoreFail(r) ==
    /\ rpc[r] = "store"
    /\ Goto(r, "unlink")
    /\ UNCHANGED <<sessions, files, locks, library, left, bounds>>

Unlink(r) ==
    /\ rpc[r] = "unlink"
    /\ part' = part \ {rid[r]}
    /\ End(r)
    /\ UNCHANGED <<sessions, len, bytes, old, locks, library, left, bounds>>

-----------------------------------------------------------------------------
(* Time and restarts.                                                      *)

Pruning == \E r \in Requests : rpc[r] \in {"cr_lock", "prune"}

\* 24 hours pass for an upload.  A file is touched no earlier than its
\* session (the instant between the two is left out), and no create takes
\* that long: pruneLocked works with the time at which create began.
Age(i) ==
    /\ i \in used
    /\ ~Pruning
    /\ \/ i \in Sessions /\ stale' = stale \cup {i} /\ old' \in {old, old \cup {i}}
       \/ i \in Spools /\ old' = old \cup {i} /\ UNCHANGED stale
    /\ UNCHANGED <<used, size, received, open, done, part, len, bytes, locks,
                   requests, library, left, bounds>>

\* The process starts again: only the files and the library are left.
Restart ==
    /\ stops < MaxStops
    /\ stops' = stops + 1
    /\ open' = {} /\ mmu' = None
    /\ smu' = [i \in Sessions |-> None]
    /\ rpc' = [r \in Requests |-> "idle"]
    /\ rid' = [r \in Requests |-> None]
    /\ roff' = [r \in Requests |-> 0]
    /\ rgot' = [r \in Requests |-> 0]
    /\ rtodo' = [r \in Requests |-> {}]
    /\ left' = part
    /\ UNCHANGED <<used, size, received, done, stale, files, library, faults>>

-----------------------------------------------------------------------------
(* Specification.                                                          *)

\* What the server does for a request without waiting for the client.
Server(r) ==
    \/ CreateLock(r) \/ PruneSession(r) \/ PruneFiles(r)
    \/ Lookup(r) \/ WriteBegin(r)
    \/ DetachLock(r) \/ DetachMap(r)
    \/ StoreOpen(r) \/ Store(r) \/ StoreFail(r) \/ Unlink(r)

\* What depends on the client's body.
Body(r) ==
    \/ CopyByte(r) \/ CopyDone(r) \/ CopyFail(r)
    \/ SpoolByte(r) \/ SpoolDone(r) \/ SpoolFail(r)

Arrive(r) ==
    \/ \E i \in Sessions :
         \/ StartUpload(r, i) \/ CompleteUpload(r, i) \/ CancelUpload(r, i)
         \/ \E offset \in 0 .. MaxSize : WriteUploadChunk(r, i, offset)
    \/ \E i \in Spools : SpoolBegin(r, i)

Next ==
    \/ \E r \in Requests : Arrive(r) \/ Server(r) \/ Body(r)
    \/ \E i \in Uploads : Age(i)
    \/ Restart

Spec == Init /\ [][Next]_vars

(* A goroutine goes on, and Go's mutexes let every waiter in eventually    *)
(* (they hand over to one that has waited for a millisecond).  Bodies end: *)
(* they arrive, or the connection breaks.  The server sets no read         *)
(* timeout, so this much is assumed of clients.                            *)
Fairness ==
    \A r \in Requests : SF_vars(Server(r)) /\ WF_vars(Body(r))

FairSpec == Spec /\ Fairness

-----------------------------------------------------------------------------
(* Properties.                                                             *)

At(i, pcs) == \E r \in Requests : rid[r] = i /\ rpc[r] \in pcs

\* Where each session stands for its client.
Status ==
    [i \in Sessions |->
        IF i \notin used THEN "new"
        ELSE IF stored[i] > 0 THEN "stored"
        ELSE IF At(i, {"cp_map", "st_open", "store"}) THEN "sealed"
        ELSE IF At(i, {"cr_lock", "prune"}) \/ i \in open \ done THEN "open"
        ELSE "lost"]

T == INSTANCE Transfer WITH status <- Status

(* Whatever chunks, completions, cancels and prunes race, each session     *)
(* behaves as one transfer: no byte is taken once it is sealed, it becomes *)
(* one asset at most, and not before all its bytes were taken.             *)
ImplementsTransfer == T!Spec

(* The asset made of a session has every byte the client announced, each   *)
(* in its place, however chunks were repeated, raced or broken off.        *)
StoredIsWhole ==
    \A i \in Sessions :
        stored[i] > 0 =>
            content[i] = [len |-> size[i], bytes |-> 0 .. size[i] - 1]

(* Pruning and the requests that end never take the staging file from a    *)
(* session that still accepts chunks.                                      *)
LiveSessionHasFile ==
    \A i \in open \ done : i \in part

(* Every staging file belongs to a session or to a request that will       *)
(* remove it; only a restart leaves files to pruning by age.               *)
NoStagingLeak ==
    \A i \in part : i \in open \/ At(i, RequestPC \ FindPC) \/ i \in left

(* No request waits for ever on the manager's mutex and those of the       *)
(* sessions, although pruning holds the one while it waits for the others  *)
(* and a detach needs both.                                                *)
RequestsEnd ==
    \A r \in Requests : (rpc[r] # "idle") ~> (rpc[r] = "idle")

(* "pruneLocked removes expired sessions and orphan staging files": not    *)
(* the file of an upload that a request is about to store.                 *)
PrunedFilesAreOrphans ==
    [][\A i \in part \ part' :
         \A r \in Requests :
            ~(rid[r] = i /\ rpc[r] \in {"sp_copy", "st_open"} /\ UNCHANGED rpc[r])]_part
=============================================================================
