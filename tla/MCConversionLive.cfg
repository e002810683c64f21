CONSTANTS
    Assets = {a1}
    Names = {thumb}
    Presets = {thumb}
    Requests = {r1, r2}
    None = None
    MaxChanges = 2
    MaxFaults = 1
    MaxStops = 1
SPECIFICATION FairSpec
PROPERTY WrongIsMended
