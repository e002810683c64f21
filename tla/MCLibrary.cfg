SPECIFICATION LibrarySpec
CONSTANTS
    Rows = {1, 2, 3}
    SortValues = {1, 2}
    Descending = TRUE
    Keys = {t1, t2, t3}
    Requests = {r1, r2}
    Setters = {r1, r2}
    Places = {p1, p2}
    Keyed = {p2}
    Passwords = {w1}
    None = None
    a1 = a1
    a2 = a2
    k1 = k1
    k2 = k2
    k3 = k3
    v1 = v1
    v2 = v2
    image = image
    video = video
    Assets = {a1, a2}
    AllKeys = {k1, k2, k3}
    Values = {v1, v2}
    Unassigned = Unassigned
    Star = Star
    Types = {image, video}
    Media <- MCMedia
    Queries <- MCQueries
    Actors <- MCActors
    Catalogs <- MCCatalogs
    Mimes <- MCMimes
    Sizes = {1, 2, 3}
    Rules <- MCRules
    Limits <- MCLimits
    Tokens <- MCTokens
SYMMETRY Alike
CONSTRAINT Unraced
INVARIANT LibraryTypes
INVARIANT PagesPartition
INVARIANT Acyclic
INVARIANT ListingsAreVisible
INVARIANT CountsAreListings
INVARIANT TreesEnd
INVARIANT TokensNarrow
INVARIANT DriverIsSaved
INVARIANT EnabledIsUsable
