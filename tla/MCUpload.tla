------------------------------ MODULE MCUpload ------------------------------
(* Small instances of UploadSession for TLC, with the requests of one actor. *)
EXTENDS UploadSessionProofs, TLC

CONSTANTS a1

SameOwner == [i \in Sessions |-> a1]
SameActor == [r \in Requests |-> a1]
Symmetry == Permutations(Requests) \cup Permutations(Sessions)
=============================================================================
