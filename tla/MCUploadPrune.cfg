CONSTANTS
    Sessions = {s1, s2}
    Spools = {}
    Requests = {r1, r2}
    Actors = {a1}
    Owner <- SameOwner
    Actor <- SameActor
    None = None
    ChunkSize = 1
    MaxSize = 1
    Sizes = {0, 1}
    MaxFaults = 0
    MaxStops = 0
    a1 = a1
SPECIFICATION Spec
PROPERTY PrunedFilesAreOrphans
