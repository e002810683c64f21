------------------------------ MODULE MCLibrary ------------------------------
(***************************************************************************)
(* Parts of the program that keep to themselves, checked in one run: a     *)
(* behaviour moves one of them, and the others rest in a state of theirs.  *)
(***************************************************************************)
EXTENDS AssetListing, AttributeHierarchy, BackupDriver, LibraryViews, UploadPolicy, TLC

CONSTANTS a1, a2, k1, k2, k3, v1, v2, image, video

VARIABLE part    \* the part that moves

-----------------------------------------------------------------------------
(* Values of the constants.                                                *)

\* Two assets, an image and a video.
MCMedia == (a1 :> image) @@ (a2 :> video)

Claim(k, mode, vs) == [key |-> k, mode |-> mode, values |-> vs]
TypeClaim(mode, ts) == {[mode |-> mode, values |-> ts]}

\* Without a token; tokens that grant all keys, some of them, or one that is
\* enforced; with types fixed, denied or left out; with and without editing.
Admin == [token |-> FALSE, all |-> FALSE, claims |-> {}, allFilters |-> FALSE,
          type |-> {}, edits |-> TRUE]
Picker == [Admin EXCEPT !.token = TRUE, !.edits = FALSE, !.all = TRUE,
                        !.allFilters = TRUE]
MCActors ==
    {Admin, Picker,
     [Picker EXCEPT !.claims = {Claim(k3, "locked", {v1})}],
     [Picker EXCEPT !.claims = {Claim(k3, "hidden", {v1, v2}), Claim(k1, "active", {v2})},
                    !.type = TypeClaim("locked", {image})],
     [Picker EXCEPT !.claims = {Claim(k1, "locked", {v1, v2}), Claim(k2, "active", {v1})},
                    !.all = FALSE, !.allFilters = FALSE],
     [Picker EXCEPT !.claims = {Claim(k1, "active", {v1}), Claim(k2, "active", {Star})},
                    !.all = FALSE, !.type = TypeClaim("denied", {})],
     [Picker EXCEPT !.claims = {Claim(k1, "hidden", {v1}), Claim(k2, "locked", {v2})},
                    !.all = FALSE, !.edits = TRUE]}

\* Queries about at most two keys, with and without a type.
MCQueries ==
    [attributes : {q \in [AllKeys -> SUBSET (Values \cup {Unassigned})] :
                     \E k \in AllKeys : q[k] = {}},
     types : {{}, {image}}]

\* Nothing described, keys or values described, a parent, a cycle of parents.
Described(keyed, valued, unassigned, above) ==
    [keyed |-> keyed, valued |-> valued, unassigned |-> unassigned, parent |-> above]
MCCatalogs ==
    {Described({}, {<<k1, v1>>}, {}, {}),
     Described({k2}, {<<k2, v2>>}, {}, {<<k2, k1>>}),
     Described(AllKeys, {<<k2, v1>>, <<k2, Unassigned>>}, {k2}, {<<k2, k1>>, <<k3, k2>>}),
     Described(AllKeys, {<<k1, Unassigned>>, <<k1, v2>>}, AllKeys, {<<k2, k1>>, <<k1, k2>>})}

\* One asset has two values at most and the other one, in all combinations.
Few ==
    /\ a1 \in originals
    /\ attrs[a1] = {} \/ \E p, q \in attrs[a1] : attrs[a1] = {p, q}
    /\ \A p, q \in attrs[a2] : p = q

Png == <<"image", "png">>
Pdf == <<"application", "pdf">>
MCMimes == {Png, <<"image", "jpeg">>, <<"video", "mp4">>, Pdf, <<"text", "plain">>}

\* Allow-lists of exact types, of kinds, of both, and of everything.
MCRules ==
    {{Anything}, {Png, Pdf}, {<<"image", "*">>, <<"video", "mp4">>},
     {Png, <<"text", "plain">>, <<"video", "*">>}}

\* Two limits, or none, for images and videos; one, or none, for documents.
MCLimits ==
    {l \in [Categories -> {0, 1, 2}] : l["audio"] = 0 /\ l["pdf"] # 1}

\* Tokens without upload settings, with one, and with two in either order.
General == [format : {"*"}, types : {{}, {Png}, {Anything}, {<<"text", "plain">>}},
            max : {0, 1}]
Particular == [format : {"image"}, types : {{}, {Png, <<"image", "jpeg">>}}, max : {1, 2}]
                 \cup [format : {"pdf"}, types : {{Pdf}}, max : {0}]
MCTokens ==
    {<<>>} \cup {<<s>> : s \in General \cup Particular}
       \cup {<<s, t>> : s \in {u \in General : u.max = 1}, t \in Particular}
       \cup {<<t, s>> : s \in {u \in General : u.types = {}}, t \in Particular}

NoToken == {<<>>}

-----------------------------------------------------------------------------
(* The parts side by side.                                                 *)

RestListing == present = {} /\ sortBy \in [Rows -> {CHOOSE v \in SortValues : TRUE}]

RestViews ==
    /\ attrs = [a \in Assets |-> {}] /\ originals = {}
    /\ metadata = Described({}, {}, {}, {}) /\ actor = Admin

RestPolicy ==
    /\ rules = {Anything} /\ limits = [c \in Categories |-> 0]
    /\ settings = <<>>

LibraryInit ==
    /\ part \in {"listing", "hierarchy", "views", "policy", "driver"}
    /\ Init /\ (part = "listing" \/ RestListing)
    /\ HierarchyInit /\ DriverInit
    /\ IF part = "views" THEN ViewsInit /\ actor = Admin /\ Few ELSE RestViews
    /\ IF part = "policy" THEN PolicyInit /\ settings = <<>> ELSE RestPolicy

MoveListing ==
    /\ part = "listing" /\ Next
    /\ UNCHANGED <<part, hierarchy, views, policy, backupDriver>>

MoveHierarchy ==
    /\ part = "hierarchy" /\ HierarchyNext
    /\ UNCHANGED <<part, listing, views, policy, backupDriver>>

MoveViews ==
    /\ part = "views" /\ AskViews
    /\ UNCHANGED <<part, listing, hierarchy, policy, backupDriver>>

MovePolicy ==
    /\ part = "policy" /\ PolicyNext
    /\ UNCHANGED <<part, listing, hierarchy, views, backupDriver>>

MoveDriver ==
    /\ part = "driver" /\ DriverNext
    /\ UNCHANGED <<part, listing, hierarchy, views, policy>>

LibraryNext == MoveListing \/ MoveHierarchy \/ MoveViews \/ MovePolicy \/ MoveDriver

LibrarySpec ==
    LibraryInit /\ [][LibraryNext]_<<part, listing, hierarchy, views, policy, backupDriver>>

\* Acyclic says nothing once requests have raced: such a state is not left.
Unraced == ~ raced

\* The order of the keys of the tree and of the requests means nothing.
Alike == Permutations(Keys) \cup Permutations(Requests)

-----------------------------------------------------------------------------

\* The types of the part that moves.  PagesPartition, Acyclic, DriverIsSaved
\* and EnabledIsUsable are properties of the modules extended here, and so is
\* what is said below of the part it is about.
LibraryTypes ==
    CASE part = "listing"   -> TypeOK
      [] part = "hierarchy" -> HierarchyTypeOK
      [] part = "views"     -> ViewsTypeOK
      [] part = "policy"    -> PolicyTypeOK
      [] part = "driver"    -> DriverTypeOK

\* What a listing shows is what can be opened by its id.
ListingsAreVisible == part = "views" => ListingIsVisibility

\* The numbers beside values are the lengths of the listings behind them.
CountsAreListings == part = "views" => CountsMatchListing

\* Trees end, whatever the parents of keys are.
TreesEnd == part = "views" => TreeEnds

\* A token makes uploads stricter and never broader.
TokensNarrow == part = "policy" => PolicyNarrows
=============================================================================
