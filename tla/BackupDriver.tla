----------------------------- MODULE BackupDriver -----------------------------
(***************************************************************************)
(* The settings of the backup destination and the connection that the      *)
(* worker keeps to it.                                                     *)
(*                                                                         *)
(*   service/backup_service.go  SetSettings, processJob, sftp              *)
(*   storage/sftp.go            ensureConnection, Close                    *)
(*                                                                         *)
(* The worker is one goroutine.  It makes a driver from the settings it    *)
(* reads and keeps it for later jobs; a request that saves settings closes *)
(* it and takes it away, whether a job uses it or not.  driverMu guards    *)
(* the pointer alone.  Users, ports, fingerprints belong to a place, and   *)
(* what is copied is in BackupReplication.                                 *)
(***************************************************************************)
CONSTANTS
    Places,     \* hosts and paths
    Keyed,      \* those whose settings name a key file
    Passwords,
    Setters,   \* requests that save settings
    None        \* no place, no password, no driver

VARIABLES
    saved,    \* the row: enabled, and the configuration
    driver,   \* the configuration of the driver that is kept, or none
    wpc,      \* what the worker is about to do
    using,    \* the configuration it has read, or that of its driver
    client,   \* that driver has a connection
    rpc,      \* what each request is about to do
    rrow,     \* the row it is about to save
    missed    \* history: an invalidation came while a driver was being made

backupDriver == <<saved, driver, wpc, using, client, rpc, rrow, missed>>

Config == [place : Places \cup {None}, password : Passwords \cup {None}]
Row    == [on : BOOLEAN, config : Config]
NoRow  == [on |-> FALSE, config |-> [place |-> None, password |-> None]]

\* validateBackupConfig
Usable(config) ==
    config.place # None /\ (config.password # None \/ config.place \in Keyed)

DriverTypeOK ==
    /\ saved \in Row /\ driver \in Config \cup {None}
    /\ wpc \in {"idle", "driver", "dial", "ensure", "copy"}
    /\ using \in Config \cup {None} /\ client \in BOOLEAN
    /\ rpc \in [Setters -> {"idle", "save", "invalidate"}]
    /\ rrow \in [Setters -> Row] /\ missed \in BOOLEAN

DriverInit ==
    /\ saved = NoRow /\ driver = None
    /\ wpc = "idle" /\ using = None /\ client = FALSE
    /\ rpc = [r \in Setters |-> "idle"] /\ rrow = [r \in Setters |-> NoRow]
    /\ missed = FALSE

-----------------------------------------------------------------------------
(* SetSettings.                                                            *)

\* A password that is neither given nor cleared is the one of the row read.
Merge(existing, place, password, clear) ==
    [place |-> place,
     password |-> IF clear THEN None
                  ELSE IF password # None THEN password ELSE existing.password]

\* Slip: what is there before the password is cleared is validated.
SetSettingsUncleared(r, on, place, password, clear) ==
    LET config == Merge(saved.config, place, password, clear) IN
    /\ rpc[r] = "idle" /\ (on => Usable(Merge(saved.config, place, password, FALSE)))
    /\ rrow' = [rrow EXCEPT ![r] = [on |-> on, config |-> config]]
    /\ rpc' = [rpc EXCEPT ![r] = "save"]
    /\ UNCHANGED <<saved, driver, wpc, using, client, missed>>

SetSettings(r, on, place, password, clear) ==
    LET config == Merge(saved.config, place, password, clear) IN
    /\ rpc[r] = "idle" /\ (on => Usable(config))
    /\ rrow' = [rrow EXCEPT ![r] = [on |-> on, config |-> config]]
    /\ rpc' = [rpc EXCEPT ![r] = "save"]
    /\ UNCHANGED <<saved, driver, wpc, using, client, missed>>

\* The whole row, or a failure.
Save(r) ==
    /\ rpc[r] = "save"
    /\ \/ saved' = rrow[r] /\ rpc' = [rpc EXCEPT ![r] = "invalidate"]
       \/ UNCHANGED saved /\ rpc' = [rpc EXCEPT ![r] = "idle"]
    /\ UNCHANGED <<driver, wpc, using, client, rrow, missed>>

\* Slip: a driver that a job uses is left to it, and in its place.
InvalidateIdle(r) ==
    /\ rpc[r] = "invalidate" /\ rpc' = [rpc EXCEPT ![r] = "idle"]
    /\ driver' = IF wpc \in {"ensure", "copy"} THEN driver ELSE None
    /\ missed' = (wpc = "dial")
    /\ UNCHANGED <<saved, wpc, using, client, rrow>>

\* A job that uses the driver goes on without a connection.
InvalidateDriver(r) ==
    /\ rpc[r] = "invalidate" /\ rpc' = [rpc EXCEPT ![r] = "idle"]
    /\ driver' = None
    /\ client' = (client /\ driver = None)
    /\ missed' = (wpc = "dial")
    /\ UNCHANGED <<saved, wpc, using, rrow>>

-----------------------------------------------------------------------------
(* A job of the worker, as far as it is about the driver.                  *)

ProcessJob ==
    /\ wpc = "idle" /\ saved.on /\ wpc' = "driver"
    /\ UNCHANGED <<saved, driver, using, client, rpc, rrow, missed>>

\* The driver that is kept, or else the settings, read once more.
TakeDriver ==
    /\ wpc = "driver"
    /\ IF driver # None THEN wpc' = "ensure" /\ using' = driver /\ UNCHANGED missed
       ELSE wpc' = "dial" /\ using' = saved.config /\ missed' = FALSE
    /\ UNCHANGED <<saved, driver, client, rpc, rrow>>

\* NewSFTP; a connection that fails ends the job.
Dial ==
    /\ wpc = "dial"
    /\ \/ Usable(using) /\ wpc' = "ensure" /\ driver' = using /\ client' = TRUE
          /\ UNCHANGED using
       \/ wpc' = "idle" /\ using' = None /\ UNCHANGED <<driver, client>>
    /\ UNCHANGED <<saved, rpc, rrow, missed>>

\* A driver that was closed meanwhile connects again, as it was configured.
EnsureConnection ==
    /\ wpc = "ensure"
    /\ \/ wpc' = "copy" /\ client' = TRUE /\ UNCHANGED using
       \/ wpc' = "idle" /\ using' = None /\ UNCHANGED client
    /\ UNCHANGED <<saved, driver, rpc, rrow, missed>>

\* The end of Save or Delete, well or not.
EndJob ==
    /\ wpc = "copy" /\ client
    /\ wpc' = "idle" /\ using' = None /\ client' = (driver # None)
    /\ UNCHANGED <<saved, driver, rpc, rrow, missed>>

\* The process is stopped, or ended by a job that has lost its client: the
\* pointer that Save and Delete use is nil after Close.
Restart ==
    /\ driver' = None /\ client' = FALSE
    /\ wpc' = "idle" /\ using' = None /\ missed' = FALSE
    /\ rpc' = [r \in Setters |-> "idle"]
    /\ UNCHANGED <<saved, rrow>>

DriverNext ==
    \/ \E r \in Setters :
          \/ Save(r) \/ InvalidateDriver(r)
          \/ \E on, clear \in BOOLEAN, place \in Places \cup {None},
                password \in Passwords \cup {None} :
                SetSettings(r, on, place, password, clear)
    \/ ProcessJob \/ TakeDriver \/ Dial \/ EnsureConnection \/ EndJob \/ Restart

DriverSpec == DriverInit /\ [][DriverNext]_backupDriver

-----------------------------------------------------------------------------

\* Settings that have been saved but have not reached the driver yet.
Changing == \E r \in Setters : rpc[r] = "invalidate"

\* The driver that is kept for the next job is for the destination that is
\* saved, however many requests save settings and whatever the worker does
\* meanwhile, unless the invalidation of a change came between the worker's
\* reading the settings for this driver and its keeping it.
DriverIsSaved == driver \in {None, saved.config} \/ Changing \/ missed

\* Backups that are on have a place and a way to log in, even when requests
\* merged their settings with rows that others have replaced since.
EnabledIsUsable == saved.on => Usable(saved.config)
=============================================================================
