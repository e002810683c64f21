CONSTANTS
    Assets = {a1}
    Requests = {r1}
    JobIds = {1, 2}
    None = None
    MaxVersion = 2
    MaxToggles = 1
    MaxFaults = 1
    MaxStops = 1
SPECIFICATION FairSpec
INVARIANT TypeOK
INVARIANT SyncedIsCurrent
INVARIANT OrphanHasDelete
INVARIANT IInv
PROPERTY RemoteNeverRegresses
PROPERTY ReplacementsAreCopied
PROPERTY ReconcileRepairs
PROPERTY DeletionsAreMirrored
