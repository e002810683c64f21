CONSTANTS
    Assets = {a1}
    Names = {thumb, cover}
    Presets = {thumb, cover}
    Requests = {r1, r2}
    None = None
    MaxChanges = 2
    MaxFaults = 1
    MaxStops = 0
SPECIFICATION Spec
SYMMETRY Symmetry
INVARIANT TypeOK
INVARIANT WrongIsHandled
