CONSTANTS
    Assets = {a1}
    Names = {preview}
    Presets = {}
    Requests = {r1, r2}
    None = None
    MaxChanges = 1
    MaxFaults = 0
    MaxStops = 0
SPECIFICATION Spec
INVARIANT CachedIsCurrent
