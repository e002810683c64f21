CONSTANTS
    clip = clip
    song = song
    photo = photo
    Assets = {a1}
    Visuals = {1, 2}
    Contents <- Files
    MediaType <- FileType
    Requests = {r1, r2}
    None = None
    MaxAsks = 3
SPECIFICATION Spec
SYMMETRY Symmetry
INVARIANT TypeOK
INVARIANT OneVisual
INVARIANT NothingLeft
INVARIANT CoverExists
INVARIANT DerivedAgrees
