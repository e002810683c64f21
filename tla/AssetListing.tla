----------------------------- MODULE AssetListing -----------------------------
(***************************************************************************)
(* A client that reads a listing page by page.                             *)
(*                                                                         *)
(*   api/assets.go             handleListAssets                            *)
(*   service/asset_service.go  List, assetSort, applyAssetCursor           *)
(*                                                                         *)
(* The rows that match the filter are ordered by a value (a time, a size,  *)
(* a name) and then by id, both in the same direction.  A page says where  *)
(* it ended with a cursor: the value and the id of its last row.  Nothing  *)
(* is kept between pages, and rows come, go and move meanwhile.  Rows are  *)
(* numbered in the order of their ids, values are numbers in their order;  *)
(* names that differ in case alone have the same value.                    *)
(***************************************************************************)
EXTENDS Integers

CONSTANTS
    Rows,     \* ids of assets that match the filter, when they exist
    SortValues,
    Descending

ASSUME ListingAssumption ==
    Rows \subseteq Int /\ SortValues \subseteq Int /\ Descending \in BOOLEAN

VARIABLES
    present,  \* assets with a row
    sortBy,   \* the value of each
    reading,  \* the client is between two pages
    cursor,   \* the cursor it was given, if any
    listed,   \* rows it was given
    twice,    \* rows it was given more than once
    moved     \* rows that came, went or changed since it began

listing == <<present, sortBy, reading, cursor, listed, twice, moved>>

TypeOK ==
    /\ present \subseteq Rows /\ sortBy \in [Rows -> SortValues]
    /\ reading \in BOOLEAN
    /\ cursor \in {{}} \cup {{c} : c \in SortValues \X Rows}
    /\ listed \subseteq Rows /\ twice \subseteq listed /\ moved \subseteq Rows

Init ==
    /\ present \in SUBSET Rows /\ sortBy \in [Rows -> SortValues]
    /\ reading = FALSE /\ cursor = {}
    /\ listed = {} /\ twice = {} /\ moved = {}

-----------------------------------------------------------------------------

Key(x) == <<sortBy[x], x>>

Precedes(a, b) == IF Descending THEN b < a ELSE a < b

\* Slip: the cursor compares the sort value alone.
BeforeByValue(p, q) == Precedes(p[1], q[1])

\* The order of the listing, which is also how a cursor is compared.
Before(p, q) == Precedes(p[1], q[1]) \/ (p[1] = q[1] /\ Precedes(p[2], q[2]))

\* Rows that a page with this cursor takes from.
Rest(c) == {x \in present : \A p \in c : Before(p, Key(x))}

\* The first rows of the rest, as many as the client asks for (at least one,
\* if there are any; not more than 200).  The cursor is empty after the last.
Page(page, c, next) ==
    /\ page \subseteq Rest(c) /\ (page = {} => Rest(c) = {})
    /\ \A x \in page, y \in Rest(c) \ page : ~ Before(Key(y), Key(x))
    /\ IF page = Rest(c) THEN next = {}
       ELSE \E last \in page :
              /\ \A x \in page : ~ Before(Key(last), Key(x))
              /\ next = {Key(last)}

List ==
    /\ IF reading THEN UNCHANGED moved ELSE moved' = {}
    /\ \E page \in SUBSET present,
          next \in {{}} \cup {{Key(x)} : x \in present} :
          /\ Page(page, cursor, next)
          /\ cursor' = next /\ reading' = (next # {})
          /\ listed' = IF reading THEN listed \cup page ELSE page
          /\ twice' = IF reading THEN twice \cup (listed \cap page) ELSE {}
    /\ UNCHANGED <<present, sortBy>>

\* An upload, an edit that brings a row into the filter, or a rename, a new
\* file, a change of the time of modification.
Put(x, v) ==
    /\ sortBy' = [sortBy EXCEPT ![x] = v] /\ present' = present \cup {x}
    /\ moved' = moved \cup {x}
    /\ UNCHANGED <<reading, cursor, listed, twice>>

\* A deletion, or an edit that takes the row out of the filter.
Remove(x) ==
    /\ present' = present \ {x} /\ moved' = moved \cup {x}
    /\ UNCHANGED <<sortBy, reading, cursor, listed, twice>>

Next ==
    \/ List
    \/ \E x \in Rows : Remove(x) \/ \E v \in SortValues : Put(x, v)

Spec == Init /\ [][Next]_listing

-----------------------------------------------------------------------------

\* Whatever comes, goes and moves between the pages, a row that stays as it
\* is appears once in a listing that is read to its end, and never twice.
PagesPartition ==
    /\ twice \subseteq moved
    /\ ~ reading /\ listed # {} => present \ moved \subseteq listed
=============================================================================
