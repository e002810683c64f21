-------------------------- MODULE BackupDriverProofs --------------------------
(* The kept driver is the saved one, for any places, passwords, requests.  *)
EXTENDS BackupDriver, TLAPS

\* A driver is made only while none is kept, from the row as it is, unless
\* that row has changed and the change is on its way or was missed.
MadeFromSaved ==
    /\ wpc = "dial" => driver = None /\ using \in Config
    /\ wpc = "dial" => using = saved.config \/ Changing \/ missed

\* What a request is about to save has been validated as a whole.
Validated == \A r \in Setters : rrow[r].on => Usable(rrow[r].config)

DriverInv == DriverTypeOK /\ MadeFromSaved /\ Validated /\ DriverIsSaved /\ EnabledIsUsable

-----------------------------------------------------------------------------

LEMMA DriverInitInv == DriverInit => DriverInv
<1>1. SUFFICES ASSUME DriverInit PROVE DriverInv
  OBVIOUS
<1>2. NoRow \in Row
  BY DEF NoRow, Row, Config
<1>3. DriverTypeOK
  BY <1>1, <1>2 DEF DriverInit, DriverTypeOK
<1>4. MadeFromSaved /\ Validated /\ DriverIsSaved /\ EnabledIsUsable
  BY <1>1 DEF DriverInit, MadeFromSaved, Validated, DriverIsSaved, EnabledIsUsable, NoRow
<1>5. QED
  BY <1>3, <1>4 DEF DriverInv

\* A merged configuration is one, whatever it is merged from.
LEMMA MergeType ==
    ASSUME NEW old \in Config, NEW place \in Places \cup {None},
           NEW password \in Passwords \cup {None}, NEW clear \in BOOLEAN
    PROVE  Merge(old, place, password, clear) \in Config
BY DEF Merge, Config

LEMMA SetSettingsInv ==
    ASSUME DriverInv, NEW r \in Setters, NEW on \in BOOLEAN, NEW clear \in BOOLEAN,
           NEW place \in Places \cup {None}, NEW password \in Passwords \cup {None},
           SetSettings(r, on, place, password, clear)
    PROVE  DriverInv'
<1> DEFINE config == Merge(saved.config, place, password, clear)
           new == [on |-> on, config |-> config]
<1>1. saved.config \in Config
  BY DEF DriverInv, DriverTypeOK, Row
<1>2. config \in Config
  BY <1>1, MergeType
<1>3. new \in Row
  BY <1>2 DEF Row
<1>4. on => Usable(config)
  BY DEF SetSettings
<1>5. rrow' = [rrow EXCEPT ![r] = new] /\ rpc' = [rpc EXCEPT ![r] = "save"]
  BY DEF SetSettings
<1>6. UNCHANGED <<saved, driver, wpc, using, client, missed>> /\ rpc[r] = "idle"
  BY DEF SetSettings
<1>. HIDE DEF config
<1>7. DriverTypeOK'
  BY <1>3, <1>5, <1>6 DEF DriverInv, DriverTypeOK
<1>8. Changing => Changing'
  BY <1>5, <1>6 DEF DriverInv, DriverTypeOK, Changing
<1>9. MadeFromSaved' /\ DriverIsSaved' /\ EnabledIsUsable'
  BY <1>6, <1>8 DEF DriverInv, MadeFromSaved, DriverIsSaved, EnabledIsUsable
<1>10. Validated'
  <2>1. SUFFICES ASSUME NEW q \in Setters, rrow'[q].on PROVE Usable(rrow'[q].config)
    BY DEF Validated
  <2>2. CASE q = r
    <3>1. rrow'[q] = new
      BY <1>5, <2>2 DEF DriverInv, DriverTypeOK
    <3>2. QED
      BY <1>4, <2>1, <3>1
  <2>3. CASE q # r
    <3>1. rrow'[q] = rrow[q]
      BY <1>5, <2>3 DEF DriverInv, DriverTypeOK
    <3>2. QED
      BY <2>1, <3>1 DEF DriverInv, Validated
  <2>4. QED
    BY <2>2, <2>3
<1>11. QED
  BY <1>7, <1>9, <1>10 DEF DriverInv

\* The row changes, and the change is on its way to the driver.
LEMMA SaveInv ==
    ASSUME DriverInv, NEW r \in Setters, Save(r)
    PROVE  DriverInv'
<1>1. UNCHANGED <<driver, wpc, using, client, rrow, missed>> /\ rpc[r] = "save"
  BY DEF Save
<1>2. CASE saved' = rrow[r] /\ rpc' = [rpc EXCEPT ![r] = "invalidate"]
  <2>1. DriverTypeOK'
    BY <1>1, <1>2 DEF DriverInv, DriverTypeOK
  <2>2. Changing'
    BY <1>2 DEF DriverInv, DriverTypeOK, Changing
  <2>3. MadeFromSaved' /\ DriverIsSaved'
    BY <1>1, <2>2 DEF DriverInv, MadeFromSaved, DriverIsSaved
  <2>4. EnabledIsUsable' /\ Validated'
    BY <1>1, <1>2 DEF DriverInv, Validated, EnabledIsUsable
  <2>5. QED
    BY <2>1, <2>3, <2>4 DEF DriverInv
<1>3. CASE saved' = saved /\ rpc' = [rpc EXCEPT ![r] = "idle"]
  <2>1. DriverTypeOK'
    BY <1>1, <1>3 DEF DriverInv, DriverTypeOK
  <2>2. Changing => Changing'
    BY <1>1, <1>3 DEF DriverInv, DriverTypeOK, Changing
  <2>3. MadeFromSaved' /\ DriverIsSaved' /\ EnabledIsUsable' /\ Validated'
    BY <1>1, <1>3, <2>2 DEF DriverInv, MadeFromSaved, DriverIsSaved, EnabledIsUsable, Validated
  <2>4. QED
    BY <2>1, <2>3 DEF DriverInv
<1>4. QED
  BY <1>2, <1>3 DEF Save

\* No driver is kept any more; one that is being made has missed the change.
LEMMA InvalidateInv ==
    ASSUME DriverInv, NEW r \in Setters, InvalidateDriver(r)
    PROVE  DriverInv'
<1>1. /\ driver' = None /\ missed' = (wpc = "dial")
      /\ client' = (client /\ driver = None)
      /\ rpc' = [rpc EXCEPT ![r] = "idle"]
      /\ UNCHANGED <<saved, wpc, using, rrow>>
  BY DEF InvalidateDriver
<1>2. DriverTypeOK'
  BY <1>1 DEF DriverInv, DriverTypeOK
<1>3. MadeFromSaved'
  BY <1>1 DEF DriverInv, MadeFromSaved
<1>4. DriverIsSaved' /\ EnabledIsUsable' /\ Validated'
  BY <1>1 DEF DriverInv, DriverIsSaved, EnabledIsUsable, Validated
<1>5. QED
  BY <1>2, <1>3, <1>4 DEF DriverInv

\* The worker changes no settings: only TakeDriver and Dial bring a driver.
LEMMA WorkerInv ==
    ASSUME DriverInv, ProcessJob \/ TakeDriver \/ Dial \/ EnsureConnection \/ EndJob
    PROVE  DriverInv'
<1>1. UNCHANGED <<saved, rpc, rrow>>
  BY DEF ProcessJob, TakeDriver, Dial, EnsureConnection, EndJob
<1>2. Changing' <=> Changing
  BY <1>1 DEF Changing
<1>3. saved.config \in Config
  BY DEF DriverInv, DriverTypeOK, Row
<1>4. EnabledIsUsable' /\ Validated'
  BY <1>1 DEF DriverInv, EnabledIsUsable, Validated
<1>5. CASE ProcessJob
  <2>1. DriverTypeOK'
    BY <1>5 DEF ProcessJob, DriverInv, DriverTypeOK
  <2>2. MadeFromSaved' /\ DriverIsSaved'
    BY <1>2, <1>5 DEF ProcessJob, DriverInv, MadeFromSaved, DriverIsSaved
  <2>3. QED
    BY <1>4, <2>1, <2>2 DEF DriverInv
<1>6. CASE TakeDriver
  <2>1. DriverTypeOK'
    BY <1>3, <1>6 DEF TakeDriver, DriverInv, DriverTypeOK
  <2>2. MadeFromSaved' /\ DriverIsSaved'
    BY <1>1, <1>2, <1>3, <1>6 DEF TakeDriver, DriverInv, MadeFromSaved, DriverIsSaved
  <2>3. QED
    BY <1>4, <2>1, <2>2 DEF DriverInv
<1>7. CASE Dial
  <2>1. DriverTypeOK'
    BY <1>7 DEF Dial, DriverInv, DriverTypeOK, MadeFromSaved
  <2>2. MadeFromSaved' /\ DriverIsSaved'
    BY <1>1, <1>2, <1>7 DEF Dial, DriverInv, MadeFromSaved, DriverIsSaved
  <2>3. QED
    BY <1>4, <2>1, <2>2 DEF DriverInv
<1>8. CASE EnsureConnection \/ EndJob
  <2>1. DriverTypeOK'
    BY <1>8 DEF EnsureConnection, EndJob, DriverInv, DriverTypeOK
  <2>2. MadeFromSaved' /\ DriverIsSaved'
    BY <1>1, <1>2, <1>8 DEF EnsureConnection, EndJob, DriverInv, MadeFromSaved, DriverIsSaved
  <2>3. QED
    BY <1>4, <2>1, <2>2 DEF DriverInv
<1>9. QED
  BY <1>5, <1>6, <1>7, <1>8

LEMMA DriverNextInv == DriverInv /\ [DriverNext]_backupDriver => DriverInv'
<1>1. SUFFICES ASSUME DriverInv, [DriverNext]_backupDriver PROVE DriverInv'
  OBVIOUS
<1>2. CASE Restart
  <2>1. DriverTypeOK'
    BY <1>1, <1>2 DEF Restart, DriverInv, DriverTypeOK
  <2>2. MadeFromSaved' /\ DriverIsSaved' /\ EnabledIsUsable' /\ Validated'
    BY <1>1, <1>2 DEF Restart, DriverInv, MadeFromSaved, DriverIsSaved, EnabledIsUsable, Validated
  <2>3. QED
    BY <2>1, <2>2 DEF DriverInv
<1>3. CASE UNCHANGED backupDriver
  <2>1. DriverTypeOK' /\ Changing' = Changing
    BY <1>1, <1>3 DEF backupDriver, DriverInv, DriverTypeOK, Changing
  <2>2. MadeFromSaved' /\ DriverIsSaved' /\ EnabledIsUsable' /\ Validated'
    BY <1>1, <1>3, <2>1
    DEF backupDriver, DriverInv, MadeFromSaved, DriverIsSaved, EnabledIsUsable, Validated
  <2>3. QED
    BY <2>1, <2>2 DEF DriverInv
<1>4. QED
  BY <1>1, <1>2, <1>3, SetSettingsInv, SaveInv, InvalidateInv, WorkerInv DEF DriverNext

LEMMA DriverInvariance == DriverSpec => []DriverInv
<1>1. QED
  BY DriverInitInv, DriverNextInv, PTL DEF DriverSpec

-----------------------------------------------------------------------------

\* Every reachable state of the driver and its settings is well typed.
THEOREM DriverTypes == DriverSpec => []DriverTypeOK
<1>1. DriverInv => DriverTypeOK
  BY DEF DriverInv
<1>2. QED
  BY <1>1, DriverInvariance, PTL

\* The driver that SetSettings leaves for the next job is for the settings
\* that are saved, unless the worker made it across the change.
THEOREM KeptDriverIsSaved == DriverSpec => []DriverIsSaved
<1>1. DriverInv => DriverIsSaved
  BY DEF DriverInv
<1>2. QED
  BY <1>1, DriverInvariance, PTL

\* Backups are never on without a place and a way to log in, whoever saves when.
THEOREM EnabledBackupsUsable == DriverSpec => []EnabledIsUsable
<1>1. DriverInv => EnabledIsUsable
  BY DEF DriverInv
<1>2. QED
  BY <1>1, DriverInvariance, PTL
=============================================================================
