------------------------------ MODULE MCBackup ------------------------------
(* A small instance of BackupReplication for TLC.                          *)
EXTENDS BackupReplicationProofs, TLC
=============================================================================
