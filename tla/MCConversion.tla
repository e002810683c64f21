---------------------------- MODULE MCConversion ----------------------------
(* Small instances of ConversionCache for TLC.                             *)
EXTENDS ConversionCacheProofs, TLC

Symmetry == Permutations(Requests)
=============================================================================
