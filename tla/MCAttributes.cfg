CONSTANTS
    Assets = {a1}
    Keys = {k1}
    Values = {v1, v2}
    Requests = {r1, r2}
    None = None
    MaxAsks = 2
    MaxSettings = 1
SPECIFICATION SmallSpec
SYMMETRY Symmetry
INVARIANT TypeOK
INVARIANT LockedVocabulary
INVARIANT SingleValued
