----------------------------- MODULE MCLifecycle -----------------------------
(* Small instances of AssetLifecycle for TLC.                              *)
EXTENDS AssetLifecycle, TLC

CONSTANTS clip, song, photo

Files == {clip, song, photo}
FileType == (clip :> "video") @@ (song :> "audio") @@ (photo :> "image")
Symmetry == Permutations(Requests)
=============================================================================
