----------------------------- MODULE LibraryViews -----------------------------
(***************************************************************************)
(* What a client with a token sees of the library, in several places that  *)
(* each apply the token's attributes in a way of their own.                *)
(*                                                                         *)
(*   service/jwt.go, domain/scope.go  the token's grants                   *)
(*   api/assets.go                    the filter of a listing              *)
(*   api/server.go                    access to an asset by its id         *)
(*   api/stats.go, stats_service.go   the statistics                       *)
(*   service/asset_service.go         facets, catalog, trees, listings     *)
(*                                                                         *)
(* The library stands still while it is looked at, and each request brings *)
(* its own actor.  The filter "type" stands for the filters a token can    *)
(* grant; orders, labels and colors are left out, and so are filters that  *)
(* no token decides about.                                                 *)
(***************************************************************************)
EXTENDS Naturals, Sequences, FiniteSets

CONSTANTS
    Assets,
    AllKeys,      \* keys of attributes
    Values,
    Unassigned,   \* stands for "no value" in filters and facets
    Star,         \* the wildcard in a token
    Types,        \* media types
    Media,        \* the type of each asset
    Queries,      \* what a listing may be asked for
    Actors,       \* who may ask
    Catalogs      \* what attributes_metadata may hold

VARIABLES
    attrs,      \* attributes of each asset
    originals,  \* assets that are not a visual of another one
    metadata,   \* rows of keys and of values, include_unassigned, parents
    actor       \* who asks

views == <<attrs, originals, metadata, actor>>

Pairs == AllKeys \X Values
Modes == {"active", "locked", "hidden"}

\* A claim is an entry of scope.attributes; "type" is [mode, values] or none.
ActorType ==
    [token : BOOLEAN, all : BOOLEAN,
     claims : SUBSET [key : AllKeys, mode : Modes,
                      values : SUBSET (Values \cup {Unassigned, Star})],
     allFilters : BOOLEAN,
     type : SUBSET [mode : Modes \cup {"allowed", "denied"}, values : SUBSET Types],
     edits : BOOLEAN]

QueryType == [attributes : [AllKeys -> SUBSET (Values \cup {Unassigned})],
              types : SUBSET Types]

\* A key has one row, and a parent, include_unassigned only with one.
Metadata(m) ==
    /\ m.keyed \subseteq AllKeys
    /\ m.valued \subseteq AllKeys \X (Values \cup {Unassigned})
    /\ m.unassigned \subseteq m.keyed
    /\ m.parent \subseteq m.keyed \X AllKeys
    /\ \A p, q \in m.parent : p[1] = q[1] => p = q

\* The attributes of a scope are a map: a key has one claim.
ASSUME ViewsAssumption ==
    /\ IsFiniteSet(AllKeys)
    /\ Actors \subseteq ActorType /\ Queries \subseteq QueryType
    /\ \A x \in Actors : \A g, h \in x.claims : g.key = h.key => g = h
    /\ \A m \in Catalogs : Metadata(m)

ViewsTypeOK ==
    /\ attrs \in [Assets -> SUBSET Pairs] /\ originals \subseteq Assets
    /\ Metadata(metadata)
    /\ actor \in Actors \cap ActorType

ViewsInit ==
    /\ attrs \in [Assets -> SUBSET Pairs] /\ originals \in SUBSET Assets
    /\ metadata \in Catalogs /\ actor \in Actors

\* The next request.
AskViews ==
    /\ actor' \in Actors
    /\ UNCHANGED <<attrs, originals, metadata>>

ViewsSpec == ViewsInit /\ [][AskViews]_views

-----------------------------------------------------------------------------
(* The token.                                                              *)

\* A claim without values, or with the wildcard, grants nothing.
Grants == {g \in actor.claims : g.values # {} /\ Star \notin g.values}

Enforced == {g \in Grants : g.mode \in {"locked", "hidden"}}

Granted(k) == \E g \in Grants : g.key = k

HasValue(a, k) == \E v \in Values : <<k, v>> \in attrs[a]

\* assetVisibleToActor; the aggregates have the same condition in SQL.
Visible(a) ==
    actor.token => \A g \in Enforced : \E v \in g.values : <<g.key, v>> \in attrs[a]

-----------------------------------------------------------------------------
(* Listings.  A query has values for some keys and a set of types.         *)

NoQuery == [attributes |-> [k \in AllKeys |-> {}], types |-> {}]

TypeDenied ==
    IF actor.type # {} THEN \E f \in actor.type : f.mode = "denied"
    ELSE ~ actor.allFilters

Refused(q) == actor.token /\ TypeDenied /\ q.types # {}

TypesOf(q) ==
    LET fixed == {f \in actor.type : f.mode \in {"locked", "hidden"}}
    IN  IF actor.token /\ fixed # {} THEN UNION {f.values : f \in fixed} ELSE q.types

\* Slip: enforced values are added to those that the query asks for.
FilterMerged(q) == [k \in AllKeys |->
    LET fixed == {g \in Enforced : g.key = k}
        asked == IF ~ actor.token \/ actor.all \/ Granted(k) THEN q.attributes[k] ELSE {}
    IN  IF actor.token THEN asked \cup UNION {g.values : g \in fixed} ELSE asked]

\* AllKeys the token does not know are dropped, enforced ones cannot be changed.
Filter(q) == [k \in AllKeys |->
    LET fixed == {g \in Enforced : g.key = k}
    IN  IF actor.token /\ fixed # {} THEN UNION {g.values : g \in fixed}
        ELSE IF ~ actor.token \/ actor.all \/ Granted(k) THEN q.attributes[k]
        ELSE {}]

Matches(a, f) ==
    \A k \in AllKeys : f[k] # {} =>
       \/ \E v \in f[k] \ {Unassigned} : <<k, v>> \in attrs[a]
       \/ Unassigned \in f[k] /\ ~ HasValue(a, k)

Listed(q) ==
    LET f == Filter(q)  types == TypesOf(q)
    IN  {a \in originals : Matches(a, f) /\ (types # {} => Media[a] \in types)}

-----------------------------------------------------------------------------
(* Facets, the catalog and the trees.                                      *)

\* AllKeys whose facets the actor may see.
FacetKey(k) ==
    IF ~ actor.token THEN TRUE
    ELSE IF actor.all THEN \A g \in Enforced : g.key # k
    ELSE \E g \in Grants : g.key = k /\ g.mode = "active"

FacetValues(k) ==
    IF FacetKey(k)
    THEN {v \in Values : \E a \in originals : Visible(a) /\ <<k, v>> \in attrs[a]}
    ELSE {}

Facets == {k \in AllKeys : FacetValues(k) # {}}

\* Assets that a node of a tree counts: each step is a key and a value.
Under(a, path) ==
    \A i \in 1 .. Len(path) :
       IF path[i][2] = Unassigned THEN ~ HasValue(a, path[i][1])
       ELSE path[i] \in attrs[a]

\* Slip: the statement for nodes below the first level forgets the token.
NodeCountUnscoped(path) ==
    Cardinality({a \in originals : (Len(path) = 1 => Visible(a)) /\ Under(a, path)})

NodeCount(path) == Cardinality({a \in originals : Visible(a) /\ Under(a, path)})

\* attributeKeyVisible, for keys that have only metadata.
KeyVisible(k) ==
    \/ ~ actor.token \/ actor.edits
    \/ \E g \in Grants : g.key = k /\ g.mode = "active"
    \/ actor.all /\ ~ Granted(k)

Catalog == Facets \cup {k \in metadata.keyed : KeyVisible(k)}

\* Values in use, "unassigned", and values that only the metadata has.
CatalogValues(k) ==
    FacetValues(k)
       \cup (IF k \in Facets THEN {Unassigned} ELSE {})
       \cup {v \in Values \cup {Unassigned} :
               /\ <<k, v>> \in metadata.valued
               /\ v = Unassigned => k \in metadata.unassigned}

\* What only the metadata has is shown with a count of zero.
CatalogCount(k, v) == IF k \in Facets THEN NodeCount(<<<<k, v>>>>) ELSE 0

Roots == {<<<<k, v>>>> : k \in Catalog, v \in Values \cup {Unassigned}}

RootShown(step) ==
    /\ step[2] \in CatalogValues(step[1])
    /\ step[2] = Unassigned => step[1] \in metadata.unassigned

\* Slip: keys that are already on the path are taken again.
MayFollowAny(path, c) == TRUE

\* The first key is not among the visited ones: it can come back once.
MayFollow(path, c) == \A i \in 2 .. Len(path) : path[i][1] # c

Children(path) ==
    LET last == path[Len(path)]
        keys == {c \in Catalog : /\ <<c, last[1]>> \in metadata.parent
                                 /\ c # last[1] /\ MayFollow(path, c)}
    IN  IF last[2] = Unassigned THEN {}
        ELSE {Append(path, <<c, v>>) : c \in keys, v \in Values \cup {Unassigned}}

ChildShown(path) ==
    LET step == path[Len(path)]
    IN  IF step[2] = Unassigned THEN step[1] \in metadata.unassigned
        ELSE NodeCount(path) > 0

\* The nodes at each depth of the trees, by the path that leads to them.
Nodes[depth \in 1 .. Cardinality(AllKeys) + 2] ==
    IF depth = 1 THEN {path \in Roots : RootShown(path[1])}
    ELSE {path \in UNION {Children(p) : p \in Nodes[depth - 1]} : ChildShown(path)}

Statistics == Cardinality({a \in originals : Visible(a)})

-----------------------------------------------------------------------------

\* Enforced values are values: "unassigned" means nothing outside of filters.
Plain == \A g \in Enforced : Unassigned \notin g.values

\* "locked and hidden attributes are enforced for listing, counts, and
\* asset-by-ID access" (CONSUMING.md:177): no query lists an asset that the
\* actor could not open by its id, and the empty one lists all of those that
\* the token's types leave.
ListingIsVisibility ==
    Plain =>
       /\ \A q \in Queries : Refused(q) \/ \A a \in Listed(q) : Visible(a)
       /\ Listed(NoQuery) =
             {a \in originals : /\ Visible(a)
                                /\ TypesOf(NoQuery) # {} => Media[a] \in TypesOf(NoQuery)}

\* The query that selecting a node of a tree makes.
Selecting(path) ==
    [NoQuery EXCEPT !.attributes =
       [k \in AllKeys |-> {path[i][2] : i \in {j \in 1 .. Len(path) : path[j][1] = k}}]]

Shown(path) ==
    IF Len(path) = 1 THEN CatalogCount(path[1][1], path[1][2]) ELSE NodeCount(path)

\* A number beside a value, in a facet, the catalog or a tree, and the total
\* of the statistics, is the length of the listing that selecting it gives.
\* Not so where the code says something else: for who may edit keys that the
\* token does not grant, for "unassigned" of a key that no asset uses, for
\* a key that occurs twice on a path, and under types fixed by the token.
CountsMatchListing ==
    Plain /\ TypesOf(NoQuery) = {} =>
       /\ Statistics = Cardinality(Listed(NoQuery))
       /\ ~ (actor.token /\ actor.edits) =>
             \A depth \in 1 .. Cardinality(AllKeys) : \A path \in Nodes[depth] :
                \/ Shown(path) = Cardinality(Listed(Selecting(path)))
                \/ path[1][1] \notin Facets /\ path[1][2] = Unassigned
                \/ \E i, j \in 1 .. Len(path) : i # j /\ path[i][1] = path[j][1]

\* The trees are finite even when the parents of keys form a cycle, which
\* requests that overlap can make.
TreeEnds == Nodes[Cardinality(AllKeys) + 2] = {}
=============================================================================
