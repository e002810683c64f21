CONSTANTS
    Sessions = {s1}
    Spools = {f1}
    Requests = {r1, r2}
    Actors = {a1}
    Owner <- SameOwner
    Actor <- SameActor
    None = None
    ChunkSize = 1
    MaxSize = 2
    Sizes = {0, 2}
    MaxFaults = 1
    MaxStops = 1
    a1 = a1
SPECIFICATION Spec
SYMMETRY Symmetry
INVARIANT TypeOK
INVARIANT IInv
INVARIANT StoredIsWhole
INVARIANT NoStagingLeak
PROPERTY ImplementsTransfer
