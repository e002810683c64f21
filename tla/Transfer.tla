------------------------------ MODULE Transfer ------------------------------
(***************************************************************************)
(* What the resumable uploads of godam promise, without files, locks or    *)
(* requests (service/upload_session.go, CompleteUpload): a transfer takes  *)
(* bytes until it is sealed, becomes one asset at most, and only when      *)
(* every byte announced for it was taken.                                  *)
(***************************************************************************)
EXTENDS Naturals

CONSTANTS Sessions, MaxSize

VARIABLES
    status,    \* of each transfer
    size,      \* bytes announced
    received   \* bytes taken

vars == <<status, size, received>>

Statuses == {"new", "open", "sealed", "stored", "lost"}

Init ==
    /\ status = [i \in Sessions |-> "new"]
    /\ size = [i \in Sessions |-> 0]
    /\ received = [i \in Sessions |-> 0]

Become(i, s) == status' = [status EXCEPT ![i] = s]

Start(i) ==
    /\ status[i] = "new"
    /\ Become(i, "open")
    /\ \E n \in 0 .. MaxSize : size' = [size EXCEPT ![i] = n]
    /\ UNCHANGED received

Receive(i) ==
    /\ status[i] = "open"
    /\ \E n \in received[i] .. size[i] : received' = [received EXCEPT ![i] = n]
    /\ UNCHANGED <<status, size>>

Seal(i) ==
    /\ status[i] = "open"
    /\ Become(i, "sealed")
    /\ UNCHANGED <<size, received>>

Store(i) ==
    /\ status[i] = "sealed"
    /\ received[i] = size[i]
    /\ Become(i, "stored")
    /\ UNCHANGED <<size, received>>

\* Cancelled, expired, refused, or failed on the way into the library.
Lose(i) ==
    /\ status[i] \in {"open", "sealed"}
    /\ Become(i, "lost")
    /\ UNCHANGED <<size, received>>

\* The process restarts: what is not stored is lost.
LoseAll ==
    /\ status' = [i \in Sessions |->
                    IF status[i] \in {"open", "sealed"} THEN "lost" ELSE status[i]]
    /\ UNCHANGED <<size, received>>

Next ==
    \/ \E i \in Sessions : Start(i) \/ Receive(i) \/ Seal(i) \/ Store(i) \/ Lose(i)
    \/ LoseAll

Spec == Init /\ [][Next]_vars
=============================================================================
