CONSTANTS
    Assets = {a1}
    Requests = {r1, r2}
    JobIds = {1, 2}
    None = None
    MaxVersion = 1
    MaxToggles = 0
    MaxFaults = 0
    MaxStops = 0
SPECIFICATION Spec
INVARIANT DeletesRemoveTheCopy
