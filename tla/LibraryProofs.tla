----------------------------- MODULE LibraryProofs -----------------------------
(***************************************************************************)
(* Proofs about listings, views and the upload policy, for any library,    *)
(* any tokens and any settings: pages that are read while rows move, what  *)
(* a token leaves of listings, counts and trees, and what it leaves of the *)
(* limits.  Where a definition is recursive (the nodes of the trees, the   *)
(* limits of a token's settings) a lemma first proves that the equation it *)
(* is written as has a solution, by induction over sets of numbers.        *)
(***************************************************************************)
EXTENDS MCLibrary, AttributeHierarchyProofs, BackupDriverProofs,
        FiniteSetTheorems, WellFoundedInduction, TLAPS

-----------------------------------------------------------------------------
(* Listings of any length, in both directions.                             *)

\* Between two pages, the rows that stay as they are have been listed up to
\* the cursor and not beyond.
UpToCursor ==
    /\ reading <=> cursor # {}
    /\ reading => \A x \in present \ moved : x \in listed <=> x \notin Rest(cursor)

ListingInv == TypeOK /\ UpToCursor /\ PagesPartition

Cursors == SortValues \X Rows

\* The order of a listing is strict and total on keys.
LEMMA BeforeTransitive ==
    ASSUME NEW p \in Cursors, NEW q \in Cursors, NEW r \in Cursors, Before(p, q), Before(q, r)
    PROVE  Before(p, r)
<1>1. \A k \in Cursors : k[1] \in Int /\ k[2] \in Int
  BY ListingAssumption DEF Cursors
<1>2. QED
  BY <1>1 DEF Before, Precedes

LEMMA BeforeTotal ==
    ASSUME NEW p \in Cursors, NEW q \in Cursors, ~ Before(p, q), ~ Before(q, p)
    PROVE  p = q
<1>1. \A k \in Cursors : k[1] \in Int /\ k[2] \in Int
  BY ListingAssumption DEF Cursors
<1>2. p[1] = q[1] /\ p[2] = q[2]
  BY <1>1 DEF Before, Precedes
<1>3. QED
  BY <1>2 DEF Cursors

LEMMA KeyType == TypeOK => \A x \in Rows : Key(x) \in Cursors
BY DEF TypeOK, Key, Cursors

LEMMA ListingInitInv == Init => ListingInv
BY DEF Init, ListingInv, TypeOK, UpToCursor, PagesPartition

\* A page that ends with a cursor ends exactly where the cursor says.
LEMMA PageEnds ==
    ASSUME TypeOK, NEW page, NEW next, page # Rest(cursor), Page(page, cursor, next),
           NEW x \in present
    PROVE  /\ x \in page => x \notin Rest(next)
           /\ x \notin Rest(cursor) => x \notin Rest(next)
           /\ x \in Rest(cursor) \ page => x \in Rest(next)
<1>1. PICK last \in page :
         /\ \A y \in page : ~ Before(Key(last), Key(y))
         /\ next = {Key(last)}
  BY DEF Page
<1>2. last \in Rest(cursor) /\ last \in present /\ present \subseteq Rows
  BY DEF Page, Rest, TypeOK
<1>3. Key(last) \in Cursors /\ Key(x) \in Cursors
  BY <1>2, KeyType
<1>4. x \in Rest(next) <=> Before(Key(last), Key(x))
  BY <1>1 DEF Rest
<1>5. x \in page => x \notin Rest(next)
  BY <1>1, <1>4
<1>6. ASSUME x \notin Rest(cursor) PROVE x \notin Rest(next)
  <2>1. PICK c \in cursor : ~ Before(c, Key(x))
    BY <1>6 DEF Rest
  <2>2. Before(c, Key(last)) /\ c \in Cursors
    BY <1>2 DEF Rest, TypeOK, Cursors
  <2>3. ~ Before(Key(last), Key(x))
    BY <1>3, <2>1, <2>2, BeforeTransitive
  <2>4. QED
    BY <1>4, <2>3
<1>7. ASSUME x \in Rest(cursor) \ page PROVE x \in Rest(next)
  <2>1. ~ Before(Key(x), Key(last))
    BY <1>7 DEF Page
  <2>2. Key(x) # Key(last)
    BY <1>7 DEF Key
  <2>3. Before(Key(last), Key(x))
    BY <1>3, <2>1, <2>2, BeforeTotal
  <2>4. QED
    BY <1>4, <2>3
<1>8. QED
  BY <1>5, <1>6, <1>7

LEMMA ListInv == ASSUME ListingInv, List PROVE ListingInv'
<1> USE DEF ListingInv
<1>1. PICK page \in SUBSET present, next \in {{}} \cup {{Key(x)} : x \in present} :
         /\ Page(page, cursor, next)
         /\ cursor' = next /\ reading' = (next # {})
         /\ listed' = IF reading THEN listed \cup page ELSE page
         /\ twice' = IF reading THEN twice \cup (listed \cap page) ELSE {}
  BY DEF List
<1>2. /\ present' = present /\ sortBy' = sortBy
      /\ moved' = IF reading THEN moved ELSE {}
  BY DEF List
<1>3. page \subseteq Rest(cursor) /\ present \subseteq Rows
  BY <1>1 DEF Page, TypeOK
<1>4. TypeOK'
  <2>1. next \in {{}} \cup {{c} : c \in SortValues \X Rows}
    BY <1>1, <1>3, KeyType DEF Cursors
  <2>2. listed' \subseteq Rows /\ twice' \subseteq listed'
    BY <1>1, <1>3 DEF TypeOK
  <2>3. QED
    BY <1>1, <1>2, <2>1, <2>2 DEF TypeOK
<1>5. \A x \in present \ moved' :
         /\ reading => (x \in listed <=> x \notin Rest(cursor))
         /\ ~ reading => x \in Rest(cursor)
  BY <1>2 DEF UpToCursor, Rest
<1>6. \A x \in present \ moved' : x \in listed' <=> x \in page \/ x \notin Rest(cursor)
  BY <1>1, <1>5
<1>7. twice' \subseteq moved'
  BY <1>1, <1>2, <1>3, <1>5 DEF PagesPartition, TypeOK
<1>8. Rest(next)' = Rest(next)
  BY <1>2 DEF Rest, Key
<1>9. CASE page = Rest(cursor)
  <2>1. next = {}
    BY <1>1, <1>9 DEF Page
  <2>2. present' \ moved' \subseteq listed'
    BY <1>2, <1>6, <1>9
  <2>3. QED
    BY <1>1, <1>4, <1>7, <2>1, <2>2 DEF UpToCursor, PagesPartition
<1>10. CASE page # Rest(cursor)
  <2>1. next # {}
    BY <1>1, <1>10 DEF Page
  <2>2. \A x \in present \ moved' : x \in listed' <=> x \notin Rest(next)
    BY <1>1, <1>6, <1>10, PageEnds
  <2>3. \A x \in present' \ moved' : x \in listed' <=> x \notin Rest(cursor)'
    BY <1>1, <1>2, <1>8, <2>2 DEF Rest, Key
  <2>4. QED
    BY <1>1, <1>4, <1>7, <2>1, <2>3 DEF UpToCursor, PagesPartition
<1>11. QED
  BY <1>9, <1>10

\* A row that comes, goes or moves is marked; the others keep their keys.
LEMMA MoveInv ==
    ASSUME ListingInv, NEW x \in Rows,
           Remove(x) \/ \E v \in SortValues : Put(x, v)
    PROVE  ListingInv'
<1> USE DEF ListingInv
<1>1. /\ moved' = moved \cup {x} /\ reading' = reading /\ cursor' = cursor
      /\ listed' = listed /\ twice' = twice
  BY DEF Remove, Put
<1>2. present' \subseteq present \cup {x} /\ sortBy' \in [Rows -> SortValues]
      /\ \A y \in Rows \ {x} : sortBy'[y] = sortBy[y] /\ (y \in present' <=> y \in present)
  BY DEF Remove, Put, TypeOK
<1>3. TypeOK'
  BY <1>1, <1>2 DEF TypeOK
<1>4. \A y \in present' \ moved' : y \in present \ moved /\ Key(y)' = Key(y)
  BY <1>1, <1>2 DEF TypeOK, Key
<1>5. \A y \in present' \ moved' : y \in Rest(cursor)' <=> y \in Rest(cursor)
  BY <1>1, <1>4 DEF Rest
<1>6. UpToCursor'
  BY <1>1, <1>4, <1>5 DEF UpToCursor
<1>7. PagesPartition'
  BY <1>1, <1>4 DEF PagesPartition
<1>8. QED
  BY <1>3, <1>6, <1>7

LEMMA ListingNextInv == ListingInv /\ [Next]_listing => ListingInv'
<1>1. SUFFICES ASSUME ListingInv, [Next]_listing PROVE ListingInv'
  OBVIOUS
<1>2. CASE List
  BY <1>1, <1>2, ListInv
<1>3. CASE \E x \in Rows : Remove(x) \/ \E v \in SortValues : Put(x, v)
  BY <1>1, <1>3, MoveInv
<1>4. CASE UNCHANGED listing
  BY <1>1, <1>4 DEF listing, ListingInv, TypeOK, UpToCursor, PagesPartition, Rest, Key
<1>5. QED
  BY <1>1, <1>2, <1>3, <1>4 DEF Next

LEMMA ListingInvariance == Spec => []ListingInv
<1>1. QED
  BY ListingInitInv, ListingNextInv, PTL DEF Spec

\* The variables keep their types.
THEOREM ListingTypes == Spec => []TypeOK
<1>1. ListingInv => TypeOK
  BY DEF ListingInv
<1>2. QED
  BY <1>1, ListingInvariance, PTL

\* For any rows, values, page sizes and direction: a row that stays as it is
\* while a client reads a listing page by page is listed exactly once.
THEOREM EachRowOnce == Spec => []PagesPartition
<1>1. ListingInv => PagesPartition
  BY DEF ListingInv
<1>2. QED
  BY <1>1, ListingInvariance, PTL

-----------------------------------------------------------------------------
(* The parts side by side.                                                 *)

Parts == {"listing", "hierarchy", "views", "policy", "driver"}

\* The invariant of the part that moves.
LibraryInv ==
    /\ part \in Parts
    /\ part = "listing" => ListingInv
    /\ part = "hierarchy" => HierarchyInv
    /\ part = "views" => ViewsTypeOK
    /\ part = "policy" => PolicyTypeOK
    /\ part = "driver" => DriverInv

LEMMA ViewsInitTypes == ViewsInit => ViewsTypeOK
BY ViewsAssumption DEF ViewsInit, ViewsTypeOK

LEMMA AskViewsTypes == ViewsTypeOK /\ AskViews => ViewsTypeOK'
BY ViewsAssumption DEF AskViews, ViewsTypeOK, Metadata

LEMMA PolicyInitTypes == PolicyInit => PolicyTypeOK
BY PolicyAssumption DEF PolicyInit, PolicyTypeOK

LEMMA PolicyNextTypes == PolicyTypeOK /\ PolicyNext => PolicyTypeOK'
<1>1. ASSUME PolicyTypeOK, SetUploadSettings PROVE PolicyTypeOK'
  BY <1>1, PolicyAssumption DEF SetUploadSettings, PolicyTypeOK
<1>2. ASSUME PolicyTypeOK, AskPolicy PROVE PolicyTypeOK'
  BY <1>2, PolicyAssumption DEF AskPolicy, PolicyTypeOK
<1>3. QED
  BY <1>1, <1>2 DEF PolicyNext

LEMMA LibraryInitInv == LibraryInit => LibraryInv
BY ListingInitInv, HierarchyInitInv, DriverInitInv, ViewsInitTypes, PolicyInitTypes
   DEF LibraryInit, LibraryInv, Parts

LEMMA LibraryNextInv ==
    LibraryInv /\ [LibraryNext]_<<part, listing, hierarchy, views, policy, backupDriver>>
       => LibraryInv'
<1>1. ASSUME LibraryInv, MoveListing PROVE LibraryInv'
  BY <1>1, ListingNextInv DEF MoveListing, LibraryInv
<1>2. ASSUME LibraryInv, MoveHierarchy PROVE LibraryInv'
  BY <1>2, HierarchyNextInv DEF MoveHierarchy, LibraryInv
<1>3. ASSUME LibraryInv, MoveViews PROVE LibraryInv'
  BY <1>3, AskViewsTypes DEF MoveViews, LibraryInv
<1>4. ASSUME LibraryInv, MovePolicy PROVE LibraryInv'
  BY <1>4, PolicyNextTypes DEF MovePolicy, LibraryInv
<1>5. ASSUME LibraryInv, MoveDriver PROVE LibraryInv'
  BY <1>5, DriverNextInv DEF MoveDriver, LibraryInv
<1>6. ASSUME LibraryInv,
             UNCHANGED <<part, listing, hierarchy, views, policy, backupDriver>>
      PROVE  LibraryInv'
  <2>1. part' = part /\ UNCHANGED listing /\ UNCHANGED hierarchy /\ UNCHANGED backupDriver
    BY <1>6
  <2>2. ListingInv => ListingInv'
    BY <2>1, ListingNextInv
  <2>3. HierarchyInv => HierarchyInv'
    BY <2>1, HierarchyNextInv
  <2>4. DriverInv => DriverInv'
    BY <2>1, DriverNextInv
  <2>5. ViewsTypeOK => ViewsTypeOK'
    BY <1>6 DEF views, ViewsTypeOK, Metadata
  <2>6. PolicyTypeOK => PolicyTypeOK'
    BY <1>6 DEF policy, PolicyTypeOK
  <2>7. QED
    BY <1>6, <2>1, <2>2, <2>3, <2>4, <2>5, <2>6 DEF LibraryInv
<1>7. QED
  BY <1>1, <1>2, <1>3, <1>4, <1>5, <1>6 DEF LibraryNext

LEMMA LibraryInvariance == LibrarySpec => []LibraryInv
BY LibraryInitInv, LibraryNextInv, PTL DEF LibrarySpec

\* The variables of each part keep their types.
THEOREM LibraryKeepsTypes == LibrarySpec => []LibraryTypes
<1>1. LibraryInv => LibraryTypes
  BY DEF LibraryInv, LibraryTypes, Parts, ListingInv, HierarchyInv, DriverInv
<1>2. QED
  BY <1>1, LibraryInvariance, PTL

-----------------------------------------------------------------------------
(* What a token leaves of listings.                                        *)

\* A key has one claim, and what is enforced is an enforced value of a key.
LEMMA EnforcedClaims ==
    ASSUME ViewsTypeOK, NEW g \in Enforced
    PROVE  /\ g \in Grants /\ g.key \in AllKeys /\ g.values # {}
           /\ \A h \in actor.claims : h.key = g.key => h = g
<1>1. actor \in Actors /\ actor \in ActorType
  BY DEF ViewsTypeOK
<1>2. g \in actor.claims /\ g \in Grants /\ g.values # {}
  BY DEF Enforced, Grants
<1>3. actor.claims \subseteq [key : AllKeys, mode : Modes,
                              values : SUBSET (Values \cup {Unassigned, Star})]
  BY <1>1 DEF ActorType
<1>4. g.key \in AllKeys
  BY <1>2, <1>3
<1>5. \A h \in actor.claims : h.key = g.key => h = g
  BY <1>1, <1>2, ViewsAssumption
<1>6. QED
  BY <1>2, <1>4, <1>5

\* The filter of a key: its enforced values alone, or what is asked for, as
\* far as the token grants the key.
LEMMA FilterOfKey ==
    ASSUME ViewsTypeOK, NEW q, NEW k \in AllKeys
    PROVE  /\ \A g \in Enforced : actor.token /\ g.key = k => Filter(q)[k] = g.values
           /\ ~ actor.token \/ (\A g \in Enforced : g.key # k) =>
                 Filter(q)[k] = IF ~ actor.token \/ actor.all \/ Granted(k)
                                THEN q.attributes[k] ELSE {}
<1> DEFINE fixed == {g \in Enforced : g.key = k}
<1>1. Filter(q)[k] = IF actor.token /\ fixed # {} THEN UNION {g.values : g \in fixed}
                     ELSE IF ~ actor.token \/ actor.all \/ Granted(k) THEN q.attributes[k]
                     ELSE {}
  BY DEF Filter
<1>2. ASSUME NEW g \in Enforced, actor.token, g.key = k PROVE Filter(q)[k] = g.values
  <2>1. fixed = {g}
    BY <1>2, EnforcedClaims DEF Enforced, Grants
  <2>2. UNION {h.values : h \in fixed} = g.values
    BY <2>1
  <2>3. QED
    BY <1>1, <1>2, <2>1, <2>2
<1>3. ASSUME ~ actor.token \/ \A g \in Enforced : g.key # k
      PROVE  Filter(q)[k] = IF ~ actor.token \/ actor.all \/ Granted(k)
                            THEN q.attributes[k] ELSE {}
  BY <1>1, <1>3
<1>4. QED
  BY <1>2, <1>3

\* What passes a filter has the enforced values.
LEMMA MatchesIsVisible ==
    ASSUME ViewsTypeOK, Plain, NEW q, NEW a, Matches(a, Filter(q))
    PROVE  Visible(a)
<1>1. SUFFICES ASSUME actor.token, NEW g \in Enforced
               PROVE  \E v \in g.values : <<g.key, v>> \in attrs[a]
  BY DEF Visible
<1>2. g.key \in AllKeys /\ g.values # {}
  BY EnforcedClaims
<1>3. Filter(q)[g.key] = g.values
  BY <1>1, <1>2, FilterOfKey
<1>4. Unassigned \notin g.values
  BY DEF Plain
<1>5. QED
  BY <1>2, <1>3, <1>4 DEF Matches

\* What has the enforced values passes the filters that are enforced.
LEMMA VisibleMatches ==
    ASSUME ViewsTypeOK, Plain, NEW a, Visible(a), NEW q, NEW k \in AllKeys,
           actor.token, NEW g \in Enforced, g.key = k
    PROVE  \E v \in Filter(q)[k] \ {Unassigned} : <<k, v>> \in attrs[a]
<1>1. Filter(q)[k] = g.values
  BY FilterOfKey
<1>2. PICK v \in g.values : <<k, v>> \in attrs[a]
  BY DEF Visible
<1>3. v # Unassigned
  BY DEF Plain
<1>4. QED
  BY <1>1, <1>2, <1>3

LEMMA VisibleIsListed ==
    ASSUME ViewsTypeOK, Plain, NEW a, Visible(a)
    PROVE  Matches(a, Filter(NoQuery))
<1>1. SUFFICES ASSUME NEW k \in AllKeys, Filter(NoQuery)[k] # {}
               PROVE  \E v \in Filter(NoQuery)[k] \ {Unassigned} : <<k, v>> \in attrs[a]
  BY DEF Matches
<1>2. NoQuery.attributes[k] = {}
  BY DEF NoQuery
<1>3. actor.token /\ \E g \in Enforced : g.key = k
  BY <1>1, <1>2, FilterOfKey
<1>4. QED
  BY <1>3, VisibleMatches

LEMMA ListedIsVisible == ViewsTypeOK => ListingIsVisibility
<1>1. SUFFICES ASSUME ViewsTypeOK, Plain
               PROVE  /\ \A q \in Queries : Refused(q) \/ \A a \in Listed(q) : Visible(a)
                      /\ Listed(NoQuery) =
                            {a \in originals :
                               /\ Visible(a)
                               /\ TypesOf(NoQuery) # {} => Media[a] \in TypesOf(NoQuery)}
  BY DEF ListingIsVisibility
<1>2. \A q \in Queries : \A a \in Listed(q) : Visible(a)
  BY <1>1, MatchesIsVisible DEF Listed
<1>3. \A a \in originals : Matches(a, Filter(NoQuery)) <=> Visible(a)
  BY <1>1, MatchesIsVisible, VisibleIsListed
<1>4. QED
  BY <1>2, <1>3 DEF Listed

\* For any claims, values and assets: what a listing shows can be opened by
\* its id, and the empty query lists all that can.
THEOREM ListedCanBeOpened == LibrarySpec => []ListingsAreVisible
<1>1. LibraryInv => ListingsAreVisible
  BY ListedIsVisible DEF LibraryInv, ListingsAreVisible
<1>2. QED
  BY <1>1, LibraryInvariance, PTL

-----------------------------------------------------------------------------
(* Functions that are defined along the numbers.                           *)

\* Every set of numbers has a smallest one.
LEMMA SmallestNumber ==
    ASSUME NEW T \in SUBSET Nat, T # {}
    PROVE  \E n \in T : \A m \in T : n <= m
<1> DEFINE R == OpToRel(<, Nat)
<1>1. IsWellFoundedOn(R, Nat)
  BY NatLessThanWellFounded
<1>2. \A a, b \in Nat : <<a, b>> \in R <=> a < b
  BY DEF OpToRel
<1> HIDE DEF R
<1>3. \E n \in T : \A m \in T : ~ (<<m, n>> \in R)
  BY <1>1, WFMin
<1>4. PICK n \in T : \A m \in T : ~ (<<m, n>> \in R)
  BY <1>3
<1>5. n \in Nat
  OBVIOUS
<1>6. ASSUME NEW m \in T PROVE n <= m
  <2>1. m \in Nat /\ ~ (<<m, n>> \in R)
    BY <1>4
  <2>2. ~ (m < n)
    BY <1>2, <1>5, <2>1
  <2>3. QED
    BY <1>5, <2>1, <2>2
<1>7. QED
  BY <1>6

\* Induction: a set of numbers that has zero and successors has them all.
LEMMA NumbersInduction ==
    ASSUME NEW S, 0 \in S, \A n \in Nat : n \in S => n + 1 \in S
    PROVE  Nat \subseteq S
<1>1. SUFFICES ASSUME Nat \ S # {} PROVE FALSE
  OBVIOUS
<1>2. PICK n \in Nat \ S : \A m \in Nat \ S : n <= m
  BY <1>1, SmallestNumber
<1>3. n # 0 /\ n - 1 \in Nat /\ n - 1 + 1 = n
  BY <1>2
<1>4. n - 1 \in S
  BY <1>2, <1>3
<1>5. QED
  BY <1>2, <1>3, <1>4

\* Each value from the first one on is made from the one before it.
Steps(f, first, last, x0, step) ==
    \A n \in first .. last : f[n] = IF n = first THEN x0 ELSE step[<<n, f[n - 1]>>]

\* There is such a function.
LEMMA StepsHaveSolution ==
    ASSUME NEW X, NEW x0 \in X, NEW b \in Nat, NEW top \in Nat,
           NEW step \in [Nat \X X -> X]
    PROVE  \E f \in [b .. top -> X] : Steps(f, b, top, x0, step)
<1> USE DEF Steps
<1> DEFINE Solves(f, d) == Steps(f, b, b + d, x0, step)
<1> DEFINE S == {d \in Nat : \E f \in [b .. b + d -> X] : Solves(f, d)}
<1>1. 0 \in S
  <2> DEFINE f == [n \in b .. b + 0 |-> x0]
  <2>1. f \in [b .. b + 0 -> X] /\ \A n \in b .. b + 0 : n = b
    OBVIOUS
  <2>2. Solves(f, 0)
    BY <2>1
  <2>3. QED
    BY <2>1, <2>2
<1>2. ASSUME NEW d \in Nat, d \in S PROVE d + 1 \in S
  <2>1. PICK g \in [b .. b + d -> X] : Solves(g, d)
    BY <1>2
  <2> DEFINE f == [n \in b .. b + (d + 1) |->
                     IF n <= b + d THEN g[n] ELSE step[<<n, g[n - 1]>>]]
  <2>2. \A n \in b .. b + d : n \in b .. b + (d + 1) /\ f[n] = g[n]
    OBVIOUS
  <2>3. \A n \in b .. b + (d + 1) : n # b => n - 1 \in b .. b + d
    OBVIOUS
  <2>4. \A n \in b .. b + (d + 1) : n # b => f[n - 1] = g[n - 1]
    BY <2>2, <2>3
  <2>5. ASSUME NEW n \in b .. b + (d + 1)
        PROVE  f[n] = (IF n = b THEN x0 ELSE step[<<n, f[n - 1]>>]) /\ f[n] \in X
    <3>1. CASE n <= b + d
      <4>1. n \in b .. b + d /\ f[n] = g[n]
        BY <3>1
      <4>2. g[n] = IF n = b THEN x0 ELSE step[<<n, g[n - 1]>>]
        BY <2>1, <4>1
      <4>3. QED
        BY <2>1, <2>4, <4>1, <4>2
    <3>2. CASE ~ (n <= b + d)
      <4>1. n # b /\ n \in Nat /\ f[n] = step[<<n, g[n - 1]>>]
        BY <3>2
      <4>2. g[n - 1] \in X /\ f[n - 1] = g[n - 1]
        BY <2>1, <2>3, <2>4, <4>1
      <4>3. QED
        BY <4>1, <4>2
    <3>3. QED
      BY <3>1, <3>2
  <2>6. f \in [b .. b + (d + 1) -> X]
    BY <2>5
  <2>8. Solves(f, d + 1)
    BY <2>5
  <2> HIDE DEF Solves, f
  <2>9. QED
    BY <2>6, <2>8
<1>3. Nat \subseteq S
  <2> HIDE DEF S
  <2>1. QED
    BY <1>1, <1>2, NumbersInduction
<1>4. CASE b <= top
  <2>1. top - b \in Nat /\ b + (top - b) = top
    BY <1>4
  <2>2. top - b \in S
    BY <1>3, <2>1
  <2>3. QED
    BY <2>1, <2>2
<1>5. CASE ~ (b <= top)
  <2> DEFINE f == [n \in b .. top |-> x0]
  <2>1. b .. top = {}
    BY <1>5
  <2>2. f \in [b .. top -> X]
    BY <2>1
  <2>3. Steps(f, b, top, x0, step)
    BY <2>1
  <2>4. QED
    BY <2>2, <2>3
<1>6. QED
  BY <1>4, <1>5

-----------------------------------------------------------------------------
(* What a token leaves of the limits for uploads.                          *)

LEMMA SettingsTyped ==
    ASSUME PolicyTypeOK, NEW i \in DOMAIN settings
    PROVE  /\ settings[i].max \in Nat /\ SettingCategories(settings[i]) \subseteq Categories
           /\ Len(settings) \in Nat /\ DOMAIN settings = 1 .. Len(settings)
<1>1. settings[i] \in [format : Categories \cup {"*"},
                       types : SUBSET (STRING \X STRING), max : Nat]
  BY DEF PolicyTypeOK, SettingType
<1>2. SettingCategories(settings[i]) \subseteq Categories
  BY DEF SettingCategories
<1>3. QED
  BY <1>1, <1>2, PolicyAssumption DEF PolicyTypeOK

\* The limits that the settings leave are what they are written as.
LEMMA TokenLimitsEquation ==
    ASSUME PolicyTypeOK
    PROVE  TokenLimits = [n \in 0 .. Len(settings) |->
              IF n = 0 THEN [c \in Categories |-> 0]
              ELSE [c \in Categories |->
                      IF c \in SettingCategories(settings[n])
                      THEN Lower(TokenLimits[n - 1][c], settings[n].max)
                      ELSE TokenLimits[n - 1][c]]]
<1> DEFINE X == [Categories -> Nat]
           x0 == [c \in Categories |-> 0]
           Next1(n, x) == [c \in Categories |->
                             IF c \in SettingCategories(settings[n])
                             THEN Lower(x[c], settings[n].max) ELSE x[c]]
           step == [p \in Nat \X X |-> IF p[1] \in DOMAIN settings
                                       THEN Next1(p[1], p[2]) ELSE x0]
<1>1. Len(settings) \in Nat /\ DOMAIN settings = 1 .. Len(settings)
  BY PolicyAssumption DEF PolicyTypeOK
<1>2. x0 \in X
  OBVIOUS
<1>3. ASSUME NEW n \in DOMAIN settings, NEW x \in X PROVE Next1(n, x) \in X
  BY SettingsTyped DEF Lower
<1> HIDE DEF Next1, x0, X
<1>4. \A n \in Nat, x \in X : step[<<n, x>>] = IF n \in DOMAIN settings
                                               THEN Next1(n, x) ELSE x0
  OBVIOUS
<1>5. step \in [Nat \X X -> X]
  BY <1>2, <1>3
<1> HIDE DEF step
<1>6. PICK f \in [0 .. Len(settings) -> X] : Steps(f, 0, Len(settings), x0, step)
  BY <1>1, <1>2, <1>5, StepsHaveSolution
<1>7. ASSUME NEW n \in 0 .. Len(settings), n # 0
      PROVE  f[n] = Next1(n, f[n - 1])
  <2>1. n \in Nat /\ n \in DOMAIN settings /\ n - 1 \in 0 .. Len(settings)
    BY <1>1, <1>7
  <2>2. f[n - 1] \in X
    BY <1>6, <2>1
  <2>3. QED
    BY <1>4, <1>6, <1>7, <2>1, <2>2 DEF Steps
<1>8. f = [n \in 0 .. Len(settings) |-> IF n = 0 THEN x0 ELSE Next1(n, f[n - 1])]
  <2>1. 0 \in 0 .. Len(settings) => f[0] = x0
    BY <1>6 DEF Steps
  <2>2. QED
    BY <1>6, <1>7, <2>1
<1> USE DEF Next1, x0, X
<1>9. \E g \in [0 .. Len(settings) -> X] :
         g = [n \in 0 .. Len(settings) |->
                IF n = 0 THEN [c \in Categories |-> 0]
                ELSE [c \in Categories |->
                        IF c \in SettingCategories(settings[n])
                        THEN Lower(g[n - 1][c], settings[n].max)
                        ELSE g[n - 1][c]]]
  BY <1>8
<1>10. TokenLimits = [n \in 0 .. Len(settings) |->
                        IF n = 0 THEN [c \in Categories |-> 0]
                        ELSE [c \in Categories |->
                                IF c \in SettingCategories(settings[n])
                                THEN Lower(TokenLimits[n - 1][c], settings[n].max)
                                ELSE TokenLimits[n - 1][c]]]
  BY <1>9, Zenon DEF TokenLimits
<1>11. QED
  BY <1>10

\* The limits that the first settings state for a category.
StatedLimits(c, n) == {settings[i].max : i \in {j \in 1 .. n : c \in SettingCategories(settings[j])}}

LEMMA LowerIsBoth ==
    ASSUME NEW b \in Nat, NEW t \in Nat, NEW size \in Nat
    PROVE  Within(size, Lower(b, t)) <=> Within(size, b) /\ Within(size, t)
BY DEF Lower, Within

\* What is left of a limit is not above any that is stated, and one of them.
LEMMA TokenLimitIsLowest ==
    ASSUME PolicyTypeOK, NEW c \in Categories
    PROVE  /\ TokenLimit(c) \in Nat
           /\ TokenLimit(c) = 0 \/ TokenLimit(c) \in StatedLimits(c, Len(settings))
           /\ \A m \in StatedLimits(c, Len(settings)) :
                 m # 0 => TokenLimit(c) # 0 /\ TokenLimit(c) <= m
<1> DEFINE Lowest(n) ==
      /\ TokenLimits[n][c] \in Nat
      /\ TokenLimits[n][c] = 0 \/ TokenLimits[n][c] \in StatedLimits(c, n)
      /\ \A m \in StatedLimits(c, n) : m # 0 => TokenLimits[n][c] # 0 /\ TokenLimits[n][c] <= m
<1> DEFINE S == {n \in Nat : n \in 0 .. Len(settings) => Lowest(n)}
<1>1. Len(settings) \in Nat /\ DOMAIN settings = 1 .. Len(settings)
  BY PolicyAssumption DEF PolicyTypeOK
<1>2. 0 \in S
  <2>1. TokenLimits[0] = [d \in Categories |-> 0]
    BY <1>1, TokenLimitsEquation
  <2>2. StatedLimits(c, 0) = {}
    BY DEF StatedLimits
  <2>3. QED
    BY <2>1, <2>2
<1>3. ASSUME NEW n \in Nat, n \in S PROVE n + 1 \in S
  <2>1. SUFFICES ASSUME n + 1 \in 0 .. Len(settings) PROVE Lowest(n + 1)
    OBVIOUS
  <2>2. Lowest(n) /\ n + 1 \in DOMAIN settings /\ n + 1 # 0 /\ n + 1 - 1 = n
    BY <1>1, <1>3, <2>1
  <2>3. TokenLimits[n + 1][c] = IF c \in SettingCategories(settings[n + 1])
                                THEN Lower(TokenLimits[n][c], settings[n + 1].max)
                                ELSE TokenLimits[n][c]
    BY <2>1, <2>2, TokenLimitsEquation
  <2>4. settings[n + 1].max \in Nat
    BY <2>2, SettingsTyped
  <2>5. 1 .. n + 1 = (1 .. n) \cup {n + 1}
    OBVIOUS
  <2>6. CASE c \in SettingCategories(settings[n + 1])
    <3>1. TokenLimits[n + 1][c] = Lower(TokenLimits[n][c], settings[n + 1].max)
      BY <2>3, <2>6
    <3>2. StatedLimits(c, n + 1) = StatedLimits(c, n) \cup {settings[n + 1].max}
      BY <2>5, <2>6 DEF StatedLimits
    <3> DEFINE t == TokenLimits[n][c]  u == TokenLimits[n + 1][c]
               max == settings[n + 1].max
    <3>3. t \in Nat /\ max \in Nat /\ u = Lower(t, max)
      BY <2>2, <2>4, <3>1
    <3>4. /\ u \in Nat /\ u \in {t, max}
          /\ t # 0 => u # 0 /\ u <= t
          /\ max # 0 => u # 0 /\ u <= max
      <4> HIDE DEF t, u, max
      <4>1. QED
        BY <3>3 DEF Lower
    <3>5. u = 0 \/ u \in StatedLimits(c, n + 1)
      BY <2>2, <3>2, <3>4
    <3>6. ASSUME NEW m \in StatedLimits(c, n), m # 0 PROVE u # 0 /\ u <= m
      <4>1. PICK i \in 1 .. n : m = settings[i].max
        BY DEF StatedLimits
      <4>2. m \in Nat /\ t # 0 /\ t <= m
        BY <1>1, <2>2, <3>6, <4>1, SettingsTyped
      <4>3. QED
        BY <3>3, <3>4, <4>2
    <3>7. QED
      BY <3>2, <3>4, <3>5, <3>6
  <2>7. CASE c \notin SettingCategories(settings[n + 1])
    <3>1. TokenLimits[n + 1][c] = TokenLimits[n][c]
      BY <2>3, <2>7
    <3>2. StatedLimits(c, n + 1) = StatedLimits(c, n)
      BY <2>5, <2>7 DEF StatedLimits
    <3>3. QED
      BY <2>2, <3>1, <3>2
  <2>8. QED
    BY <2>6, <2>7
<1> HIDE DEF Lowest
<1>4. Len(settings) \in S
  <2> HIDE DEF S
  <2>1. QED
    BY <1>1, <1>2, <1>3, NumbersInduction
<1>5. Lowest(Len(settings))
  BY <1>1, <1>4
<1>6. QED
  BY <1>5 DEF Lowest, TokenLimit

\* A file is within the limit of its category when it is within the
\* library's and every one that the token states for it.
LEMMA NarrowedIsAll ==
    ASSUME PolicyTypeOK, NEW size \in Nat, NEW c \in Categories
    PROVE  Within(size, Narrowed[c]) <=>
              /\ Within(size, limits[c])
              /\ \A m \in StatedLimits(c, Len(settings)) : Within(size, m)
<1>1. TokenLimit(c) \in Nat /\ limits[c] \in Nat
  <2>1. TokenLimit(c) \in Nat
    BY TokenLimitIsLowest
  <2>2. limits \in [Categories -> Sizes \cup {0}] /\ Sizes \subseteq Nat
    BY PolicyAssumption DEF PolicyTypeOK
  <2>3. limits[c] \in Sizes \cup {0} /\ Sizes \cup {0} \subseteq Nat
    BY <2>2
  <2>4. QED
    BY <2>1, <2>3
<1>2. Within(size, Narrowed[c]) <=> Within(size, limits[c]) /\ Within(size, TokenLimit(c))
  BY <1>1, LowerIsBoth DEF Narrowed
<1>3. \A m \in StatedLimits(c, Len(settings)) : m \in Nat
  BY SettingsTyped, PolicyAssumption DEF StatedLimits, PolicyTypeOK
<1>4. ASSUME Within(size, TokenLimit(c)), NEW m \in StatedLimits(c, Len(settings))
      PROVE  Within(size, m)
  <2>1. m \in Nat /\ (m # 0 => TokenLimit(c) # 0 /\ TokenLimit(c) <= m)
    BY <1>3, TokenLimitIsLowest
  <2>2. QED
    BY <1>1, <1>4, <2>1 DEF Within
<1>5. ASSUME \A m \in StatedLimits(c, Len(settings)) : Within(size, m)
      PROVE  Within(size, TokenLimit(c))
  <2>1. TokenLimit(c) = 0 \/ TokenLimit(c) \in StatedLimits(c, Len(settings))
    BY TokenLimitIsLowest
  <2>2. QED
    BY <1>5, <2>1 DEF Within
<1>6. QED
  BY <1>2, <1>4, <1>5

\* A type that the library permits and the token covers keeps its pattern.
LEMMA CoveredIsAllowed ==
    ASSUME NEW mime, NEW p \in rules, Permits(p, mime),
           settings = <<>> \/ \E i \in DOMAIN settings : Covers(settings[i], mime)
    PROVE  p \in Allowed
<1>1. CASE settings = <<>>
  BY <1>1 DEF Allowed
<1>2. CASE settings # <<>>
  <2>1. PICK i \in DOMAIN settings : Covers(settings[i], mime)
    BY <1>2
  <2>2. PICK q \in SettingPatterns(settings[i]) : Permits(q, mime)
    BY <2>1 DEF Covers
  <2>3. Intersect(p, q)
    BY <2>2 DEF Intersect, Permits
  <2>4. QED
    BY <1>2, <2>2, <2>3 DEF Allowed
<1>3. QED
  BY <1>1, <1>2

LEMMA TokensNarrowPolicies == PolicyTypeOK => PolicyNarrows
<1>1. SUFFICES ASSUME PolicyTypeOK, NEW mime \in Mimes, NEW size \in Sizes
      PROVE  LET kind == Category(mime)
                 stated == {i \in DOMAIN settings : kind \in SettingCategories(settings[i])}
                 obeyed == \A i \in stated : Within(size, settings[i].max)
             IN  /\ Accepted(mime, size) => Admitted(mime, size) /\ (stated # {} => obeyed)
                 /\ \/ Accepted(mime, size) \/ ~ Admitted(mime, size) \/ ~ obeyed
                    \/ ~ Within(size, StreamLimit)
                    \/ settings # <<>> /\ \A i \in DOMAIN settings : ~ Covers(settings[i], mime)
  BY DEF PolicyNarrows
<1> DEFINE kind == Category(mime)
           stated == {i \in DOMAIN settings : kind \in SettingCategories(settings[i])}
           obeyed == \A i \in stated : Within(size, settings[i].max)
<1>2. size \in Nat /\ DOMAIN settings = 1 .. Len(settings)
  BY <1>1, PolicyAssumption DEF PolicyTypeOK
<1>3. obeyed <=> \A m \in StatedLimits(kind, Len(settings)) : Within(size, m)
  BY <1>2 DEF StatedLimits
<1>4. kind \notin Categories => stated = {}
  BY <1>1, SettingsTyped
<1>5. kind \in Categories =>
         (Within(size, LimitFor(mime)) <=> Within(size, limits[kind]) /\ obeyed)
  BY <1>1, <1>2, <1>3, NarrowedIsAll DEF LimitFor
<1>6. kind \notin Categories => Within(size, LimitFor(mime))
  BY DEF LimitFor, Within
<1> HIDE DEF kind, stated
<1>7. ASSUME Accepted(mime, size) PROVE Admitted(mime, size) /\ (stated # {} => obeyed)
  <2>1. \E p \in rules : Permits(p, mime)
    BY <1>7 DEF Accepted, Allowed
  <2>2. Within(size, LimitFor(mime))
    BY <1>7 DEF Accepted
  <2>3. QED
    BY <1>4, <1>5, <2>1, <2>2 DEF Admitted, kind
<1>8. ASSUME Admitted(mime, size), obeyed, Within(size, StreamLimit),
             settings = <<>> \/ \E i \in DOMAIN settings : Covers(settings[i], mime)
      PROVE  Accepted(mime, size)
  <2>1. PICK p \in rules : Permits(p, mime)
    BY <1>8 DEF Admitted
  <2>2. p \in Allowed
    BY <1>8, <2>1, CoveredIsAllowed
  <2>3. Within(size, LimitFor(mime))
    BY <1>5, <1>6, <1>8 DEF Admitted, kind
  <2>4. QED
    BY <1>8, <2>1, <2>2, <2>3 DEF Accepted
<1> USE DEF kind, stated
<1>9. QED
  BY <1>7, <1>8

\* For any limits, any allow-lists and any number of settings in a token: a
\* token makes uploads stricter and never broader, in whatever order its
\* settings come.
THEOREM TokensOnlyNarrow == LibrarySpec => []TokensNarrow
<1>1. LibraryInv => TokensNarrow
  BY TokensNarrowPolicies DEF LibraryInv, TokensNarrow
<1>2. QED
  BY <1>1, LibraryInvariance, PTL

\* The limit before the type is known is the largest that is left.
LEMMA StreamLimitIsLargest ==
    ASSUME PolicyTypeOK
    PROVE  /\ \A c \in Categories : Narrowed[c] \in Nat /\ Narrowed[c] <= StreamLimit
           /\ \E c \in Categories : StreamLimit = Narrowed[c]
<1> DEFINE S == {Narrowed[c] : c \in Categories}
<1>1. ASSUME NEW c \in Categories PROVE Narrowed[c] \in Nat
  <2>1. TokenLimit(c) \in Nat
    BY TokenLimitIsLowest
  <2>2. limits[c] \in Sizes \cup {0} /\ Sizes \cup {0} \subseteq Nat
    BY PolicyAssumption DEF PolicyTypeOK
  <2>3. Narrowed[c] = Lower(limits[c], TokenLimit(c))
    BY DEF Narrowed
  <2>4. limits[c] \in Nat
    BY <2>2
  <2>5. QED
    BY <2>1, <2>3, <2>4 DEF Lower
<1>2. \E x \in S : \A y \in S : x >= y
  <2> DEFINE a == Narrowed["image"]  b == Narrowed["audio"]
             c == Narrowed["video"]  d == Narrowed["pdf"]
  <2>1. S = {a, b, c, d}
    BY DEF Categories
  <2>2. a \in Nat /\ b \in Nat /\ c \in Nat /\ d \in Nat
    BY <1>1 DEF Categories
  <2> HIDE DEF S, a, b, c, d
  <2>3. \E x \in {a, b, c, d} : x >= a /\ x >= b /\ x >= c /\ x >= d
    BY <2>2
  <2>4. QED
    BY <2>1, <2>3
<1>3. StreamLimit \in S /\ \A y \in S : StreamLimit >= y
  BY <1>2 DEF StreamLimit, Max
<1>4. PICK c \in Categories : StreamLimit = Narrowed[c]
  BY <1>3
<1>5. ASSUME NEW e \in Categories PROVE Narrowed[e] <= StreamLimit
  <2>1. StreamLimit >= Narrowed[e]
    BY <1>3
  <2>2. QED
    BY <1>1, <1>4, <2>1
<1>6. QED
  BY <1>1, <1>4, <1>5

\* For any settings: where every category is limited, or none is, the limit
\* before the type is known refuses nothing that the category's own allows.
\* It is only when some are limited and others not that it does.
THEOREM StreamAdmitsAlike ==
    LibrarySpec =>
       [](part = "policy" /\ ((\A c \in Categories : Narrowed[c] # 0)
                                \/ (\A c \in Categories : Narrowed[c] = 0))
             => StreamAdmits)
<1>1. ASSUME PolicyTypeOK, (\A c \in Categories : Narrowed[c] # 0)
                             \/ (\A c \in Categories : Narrowed[c] = 0)
      PROVE  StreamAdmits
  <2>1. SUFFICES ASSUME NEW mime \in Mimes, NEW size \in Sizes,
                        Category(mime) \in Categories, Within(size, LimitFor(mime))
                 PROVE  Within(size, StreamLimit)
    BY DEF StreamAdmits
  <2> DEFINE kind == Category(mime)
  <2>2. size \in Nat /\ kind \in Categories /\ Within(size, Narrowed[kind])
    BY <2>1, PolicyAssumption DEF LimitFor
  <2> HIDE DEF kind
  <2>3. /\ Narrowed[kind] \in Nat /\ Narrowed[kind] <= StreamLimit
        /\ \E c \in Categories : Narrowed[c] \in Nat /\ StreamLimit = Narrowed[c]
    BY <1>1, <2>2, StreamLimitIsLargest
  <2>4. CASE \A c \in Categories : Narrowed[c] # 0
    BY <2>2, <2>3, <2>4 DEF Within
  <2>5. CASE \A c \in Categories : Narrowed[c] = 0
    BY <2>3, <2>5 DEF Within
  <2>6. QED
    BY <1>1, <2>4, <2>5
<1>2. LibraryInv => (part = "policy" /\ ((\A c \in Categories : Narrowed[c] # 0)
                                          \/ (\A c \in Categories : Narrowed[c] = 0))
                       => StreamAdmits)
  BY <1>1 DEF LibraryInv
<1>3. QED
  BY <1>2, LibraryInvariance, PTL

-----------------------------------------------------------------------------
(* The nodes of the trees.                                                 *)

TreeSteps == AllKeys \X (Values \cup {Unassigned})

\* A path to a node at this depth: its keys are shown, and after the first
\* none comes twice.
NodePath(path, depth) ==
    /\ path \in Seq(TreeSteps) /\ Len(path) = depth
    /\ \A i \in 1 .. depth : path[i][1] \in Catalog
    /\ \A i, j \in 2 .. depth : i < j => path[i][1] # path[j][1]

LEMMA KeysAreCounted == Cardinality(AllKeys) \in Nat
BY FS_CardinalityType, ViewsAssumption

LEMMA CatalogKeys == ViewsTypeOK => Catalog \subseteq AllKeys
BY DEF ViewsTypeOK, Metadata, Catalog, Facets

\* A child is its parent with a key that it may follow, and a value.
LEMMA ChildOfPath ==
    ASSUME ViewsTypeOK, NEW p \in Seq(TreeSteps), NEW path \in Children(p)
    PROVE  \E s \in TreeSteps : s[1] \in Catalog /\ MayFollow(p, s[1]) /\ path = Append(p, s)
<1>1. PICK c \in Catalog, v \in Values \cup {Unassigned} :
         MayFollow(p, c) /\ path = Append(p, <<c, v>>)
  <2> DEFINE last == p[Len(p)]
             keys == {c \in Catalog : /\ <<c, last[1]>> \in metadata.parent
                                      /\ c # last[1] /\ MayFollow(p, c)}
             V == Values \cup {Unassigned}
  <2>1. Children(p) = IF last[2] = Unassigned THEN {}
                      ELSE {Append(p, <<c, v>>) : c \in keys, v \in V}
    BY DEF Children
  <2>2. \A c \in keys : c \in Catalog /\ MayFollow(p, c)
    OBVIOUS
  <2> HIDE DEF last, keys, V
  <2>3. path \in {Append(p, <<c, v>>) : c \in keys, v \in V}
    BY <2>1
  <2>4. \E c \in keys, v \in V : path = Append(p, <<c, v>>)
    BY <2>3, SMT
  <2>5. QED
    BY <2>2, <2>4, Zenon DEF V
<1>2. <<c, v>> \in TreeSteps
  BY CatalogKeys DEF TreeSteps
<1>3. QED
  BY <1>1, <1>2

LEMMA RootPath ==
    ASSUME ViewsTypeOK, NEW path \in Roots
    PROVE  NodePath(path, 1)
<1>1. PICK k \in Catalog, v \in Values \cup {Unassigned} : path = <<<<k, v>>>>
  BY DEF Roots
<1>2. <<k, v>> \in TreeSteps
  BY CatalogKeys DEF TreeSteps
<1>3. path \in Seq(TreeSteps) /\ Len(path) = 1 /\ path[1] = <<k, v>>
  BY <1>1, <1>2
<1>4. QED
  BY <1>3 DEF NodePath

LEMMA ChildPath ==
    ASSUME ViewsTypeOK, NEW depth \in Nat, NEW p, NodePath(p, depth),
           NEW path \in Children(p)
    PROVE  NodePath(path, depth + 1)
<1>1. p \in Seq(TreeSteps) /\ Len(p) = depth
  BY DEF NodePath
<1>2. PICK s \in TreeSteps : s[1] \in Catalog /\ MayFollow(p, s[1]) /\ path = Append(p, s)
  BY <1>1, ChildOfPath
<1>3. /\ path \in Seq(TreeSteps) /\ Len(path) = depth + 1
      /\ \A i \in 1 .. depth : path[i] = p[i]
      /\ path[depth + 1] = s
  BY <1>1, <1>2
<1>4. \A i \in 1 .. depth + 1 : path[i][1] \in Catalog
  BY <1>2, <1>3 DEF NodePath
<1>5. ASSUME NEW i \in 2 .. depth + 1, NEW j \in 2 .. depth + 1, i < j
      PROVE  path[i][1] # path[j][1]
  <2>1. i \in 2 .. depth /\ i \in 1 .. depth
    BY <1>5
  <2>2. CASE j = depth + 1
    <3>1. p[i][1] # s[1]
      BY <1>1, <1>2, <2>1 DEF MayFollow
    <3>2. QED
      BY <1>3, <2>1, <2>2, <3>1
  <2>3. CASE j # depth + 1
    <3>1. j \in 2 .. depth /\ j \in 1 .. depth
      BY <2>3
    <3>2. QED
      BY <1>3, <1>5, <2>1, <3>1 DEF NodePath
  <2>4. QED
    BY <2>2, <2>3
<1>6. QED
  BY <1>3, <1>4, <1>5 DEF NodePath

\* The nodes at each depth are what they are written as.
LEMMA NodesEquation ==
    ASSUME ViewsTypeOK
    PROVE  Nodes = [depth \in 1 .. Cardinality(AllKeys) + 2 |->
              IF depth = 1 THEN {path \in Roots : RootShown(path[1])}
              ELSE {path \in UNION {Children(p) : p \in Nodes[depth - 1]} : ChildShown(path)}]
<1> DEFINE X == SUBSET Seq(TreeSteps)
           x0 == {path \in Roots : RootShown(path[1])}
           Below(P) == {path \in UNION {Children(p) : p \in P} : ChildShown(path)}
           step == [q \in Nat \X X |-> Below(q[2])]
           top == Cardinality(AllKeys) + 2
<1>1. top \in Nat /\ 1 \in Nat
  BY KeysAreCounted
<1>2. x0 \in X
  BY RootPath DEF NodePath
<1>3. ASSUME NEW P \in X PROVE Below(P) \in X
  <2>1. \A p \in P : Children(p) \subseteq Seq(TreeSteps)
    <3>1. SUFFICES ASSUME NEW p \in P, NEW path \in Children(p) PROVE path \in Seq(TreeSteps)
      OBVIOUS
    <3>2. p \in Seq(TreeSteps)
      OBVIOUS
    <3>3. QED
      BY <3>2, ChildOfPath
  <2>2. QED
    BY <2>1
<1> HIDE DEF Below, x0, X, top
<1>4. \A n \in Nat, P \in X : step[<<n, P>>] = Below(P)
  OBVIOUS
<1>5. step \in [Nat \X X -> X]
  BY <1>3
<1> HIDE DEF step
<1>6. PICK f \in [1 .. top -> X] : Steps(f, 1, top, x0, step)
  BY <1>1, <1>2, <1>5, StepsHaveSolution
<1>7. ASSUME NEW n \in 1 .. top, n # 1
      PROVE  f[n] = Below(f[n - 1])
  <2>1. n \in Nat /\ n - 1 \in 1 .. top
    BY <1>1, <1>7
  <2>2. f[n - 1] \in X
    BY <1>6, <2>1
  <2>3. QED
    BY <1>4, <1>6, <1>7, <2>1, <2>2 DEF Steps
<1>8. f = [n \in 1 .. top |-> IF n = 1 THEN x0 ELSE Below(f[n - 1])]
  <2>1. 1 \in 1 .. top => f[1] = x0
    BY <1>6 DEF Steps
  <2>2. QED
    BY <1>6, <1>7, <2>1
<1> USE DEF Below, x0, X, top
<1>9. \E g \in [1 .. top -> X] :
         g = [depth \in 1 .. Cardinality(AllKeys) + 2 |->
                IF depth = 1 THEN {path \in Roots : RootShown(path[1])}
                ELSE {path \in UNION {Children(p) : p \in g[depth - 1]} : ChildShown(path)}]
  BY <1>8
<1>10. QED
  BY <1>9, Zenon DEF Nodes

\* A node at some depth is the end of a path of that length.
LEMMA NodesArePaths ==
    ASSUME ViewsTypeOK, NEW d \in 1 .. Cardinality(AllKeys) + 2, NEW path \in Nodes[d]
    PROVE  NodePath(path, d)
<1> DEFINE top == Cardinality(AllKeys) + 2
           S == {n \in Nat : n + 1 \in 1 .. top => \A q \in Nodes[n + 1] : NodePath(q, n + 1)}
<1>1. top \in Nat /\ 1 \in 1 .. top
  BY KeysAreCounted
<1>2. 0 \in S
  <2>1. Nodes[1] = {q \in Roots : RootShown(q[1])}
    BY <1>1, NodesEquation
  <2>2. \A q \in Nodes[1] : NodePath(q, 1)
    BY <2>1, RootPath
  <2>3. QED
    BY <2>2
<1>3. ASSUME NEW n \in Nat, n \in S PROVE n + 1 \in S
  <2>1. SUFFICES ASSUME n + 1 + 1 \in 1 .. top, NEW q \in Nodes[n + 1 + 1]
                 PROVE  NodePath(q, n + 1 + 1)
    OBVIOUS
  <2>2. n + 1 + 1 # 1 /\ n + 1 + 1 - 1 = n + 1 /\ n + 1 \in 1 .. top /\ n + 1 \in Nat
    BY <1>1, <2>1
  <2>3. Nodes[n + 1 + 1] =
           {r \in UNION {Children(p) : p \in Nodes[n + 1]} : ChildShown(r)}
    BY <2>1, <2>2, NodesEquation
  <2>4. PICK p \in Nodes[n + 1] : q \in Children(p)
    BY <2>1, <2>3
  <2>5. NodePath(p, n + 1)
    BY <1>3, <2>2
  <2>6. QED
    BY <2>2, <2>4, <2>5, ChildPath
<1>4. Nat \subseteq S
  <2> HIDE DEF S
  <2>1. QED
    BY <1>2, <1>3, NumbersInduction
<1>5. d - 1 \in Nat /\ d - 1 + 1 = d /\ d \in 1 .. top
  BY <1>1
<1>6. QED
  BY <1>4, <1>5

\* Beyond the number of the keys some key would be on a path twice.
LEMMA PathsAreShort ==
    ASSUME ViewsTypeOK, NEW path, NodePath(path, Cardinality(AllKeys) + 2)
    PROVE  FALSE
<1> DEFINE n == Cardinality(AllKeys)
           f == [i \in 2 .. n + 2 |-> path[i][1]]
<1>1. n \in Nat /\ IsFiniteSet(AllKeys)
  BY KeysAreCounted, ViewsAssumption
<1>2. IsFiniteSet(2 .. n + 2) /\ Cardinality(2 .. n + 2) = n + 1
  BY <1>1, FS_Interval
<1>3. f \in [2 .. n + 2 -> AllKeys]
  BY <1>1, CatalogKeys DEF NodePath
<1>4. PICK i \in 2 .. n + 2, j \in 2 .. n + 2 : i # j /\ f[i] = f[j]
  <2> HIDE DEF f
  <2>1. Cardinality(AllKeys) < Cardinality(2 .. n + 2)
    BY <1>1, <1>2
  <2>2. QED
    BY <1>1, <1>2, <1>3, <2>1, FS_PigeonHole
<1>5. i < j \/ j < i
  BY <1>1, <1>4
<1>6. path[i][1] = path[j][1]
  BY <1>4
<1>7. QED
  BY <1>4, <1>5, <1>6 DEF NodePath

\* For any number of keys and whatever their parents are, cycles among them
\* too: the trees end.
THEOREM TreesAlwaysEnd == LibrarySpec => []TreesEnd
<1>1. ViewsTypeOK => TreeEnds
  <2>1. SUFFICES ASSUME ViewsTypeOK, NEW path \in Nodes[Cardinality(AllKeys) + 2] PROVE FALSE
    BY DEF TreeEnds
  <2>2. Cardinality(AllKeys) + 2 \in 1 .. Cardinality(AllKeys) + 2
    BY KeysAreCounted
  <2>3. QED
    BY <2>1, <2>2, NodesArePaths, PathsAreShort
<1>2. LibraryInv => TreesEnd
  BY <1>1 DEF LibraryInv, TreesEnd
<1>3. QED
  BY <1>2, LibraryInvariance, PTL

-----------------------------------------------------------------------------
(* The numbers beside values.                                              *)

\* A key that is shown has facets, unless the token lets edit more keys, and
\* nothing of it is enforced: what is asked for passes.
LEMMA CatalogFacets ==
    ASSUME ViewsTypeOK, ~ (actor.token /\ actor.edits), NEW k \in Catalog
    PROVE  FacetKey(k)
<1>1. actor \in Actors
  BY DEF ViewsTypeOK
<1>2. \A g \in Grants, h \in Enforced : g.mode = "active" => g.key # h.key
  BY <1>1, ViewsAssumption DEF Enforced, Grants
<1>3. CASE k \in Facets
  BY <1>3 DEF Facets, FacetValues
<1>4. CASE KeyVisible(k)
  BY <1>2, <1>4 DEF KeyVisible, FacetKey, Granted, Enforced
<1>5. QED
  BY <1>3, <1>4 DEF Catalog

LEMMA FacetFilter ==
    ASSUME ViewsTypeOK, NEW k \in AllKeys, FacetKey(k), NEW q
    PROVE  Filter(q)[k] = q.attributes[k]
<1>1. actor \in Actors
  BY DEF ViewsTypeOK
<1>2. \A g \in Grants, h \in Enforced : g.mode = "active" => g.key # h.key
  BY <1>1, ViewsAssumption DEF Enforced, Grants
<1>3. ~ actor.token \/ \A g \in Enforced : g.key # k
  BY <1>2 DEF FacetKey
<1>4. ~ actor.token \/ actor.all \/ Granted(k)
  BY DEF FacetKey, Granted
<1>5. QED
  BY <1>3, <1>4, FilterOfKey

\* A path of keys that have facets, none of them twice.
PlainPath(path) ==
    /\ path \in Seq(TreeSteps)
    /\ \A i \in 1 .. Len(path) : path[i][1] \in AllKeys /\ FacetKey(path[i][1])
    /\ \A i, j \in 1 .. Len(path) : i # j => path[i][1] # path[j][1]

LEMMA SelectingOfKey ==
    ASSUME NEW path, NEW k \in AllKeys
    PROVE  Selecting(path).attributes[k] =
              {path[i][2] : i \in {j \in 1 .. Len(path) : path[j][1] = k}}
<1> DEFINE asked == [c \in AllKeys |->
                     {path[i][2] : i \in {j \in 1 .. Len(path) : path[j][1] = c}}]
<1>1. Selecting(path) = [NoQuery EXCEPT !.attributes = asked]
  BY DEF Selecting
<1> HIDE DEF asked
<1>2. Selecting(path).attributes = asked
  BY <1>1 DEF NoQuery
<1> USE DEF asked
<1>3. QED
  BY <1>2

LEMMA SelectingTypes ==
    ASSUME NEW path
    PROVE  TypesOf(Selecting(path)) = TypesOf(NoQuery)
<1>1. Selecting(path).types = {} /\ NoQuery.types = {}
  BY DEF Selecting, NoQuery
<1>2. QED
  BY <1>1 DEF TypesOf

\* Selecting a node asks for the value at each key of its path.
LEMMA SelectingAsks ==
    ASSUME ViewsTypeOK, NEW path, PlainPath(path), NEW i \in 1 .. Len(path)
    PROVE  Filter(Selecting(path))[path[i][1]] = {path[i][2]}
<1>1. path[i][1] \in AllKeys /\ FacetKey(path[i][1])
  BY DEF PlainPath
<1>2. {j \in 1 .. Len(path) : path[j][1] = path[i][1]} = {i}
  BY DEF PlainPath
<1>3. Selecting(path).attributes[path[i][1]] = {path[i][2]}
  BY <1>1, <1>2, SelectingOfKey
<1>4. QED
  BY <1>1, <1>3, FacetFilter

LEMMA SelectedIsUnder ==
    ASSUME ViewsTypeOK, NEW path, PlainPath(path), NEW a,
           Matches(a, Filter(Selecting(path)))
    PROVE  Under(a, path)
<1>1. SUFFICES ASSUME NEW i \in 1 .. Len(path)
               PROVE  IF path[i][2] = Unassigned THEN ~ HasValue(a, path[i][1])
                      ELSE path[i] \in attrs[a]
  BY DEF Under
<1> DEFINE k == path[i][1]  v == path[i][2]
<1>2. k \in AllKeys /\ Filter(Selecting(path))[k] = {v}
  BY SelectingAsks DEF PlainPath
<1>3. path[i] = <<k, v>>
  <2>1. path[i] \in TreeSteps
    BY DEF PlainPath
  <2>2. QED
    BY <2>1 DEF TreeSteps
<1> HIDE DEF k, v
<1>4. \/ \E w \in {v} \ {Unassigned} : <<k, w>> \in attrs[a]
      \/ Unassigned \in {v} /\ ~ HasValue(a, k)
  BY <1>2 DEF Matches
<1>5. IF v = Unassigned THEN ~ HasValue(a, k) ELSE <<k, v>> \in attrs[a]
  BY <1>4
<1>6. QED
  BY <1>3, <1>5 DEF k, v

LEMMA UnderIsSelected ==
    ASSUME ViewsTypeOK, Plain, NEW path, PlainPath(path), NEW a,
           Visible(a), Under(a, path)
    PROVE  Matches(a, Filter(Selecting(path)))
<1> DEFINE f == Filter(Selecting(path))
<1>1. SUFFICES ASSUME NEW k \in AllKeys, f[k] # {}
               PROVE  \/ \E v \in f[k] \ {Unassigned} : <<k, v>> \in attrs[a]
                      \/ Unassigned \in f[k] /\ ~ HasValue(a, k)
  BY DEF Matches
<1>2. CASE actor.token /\ \E g \in Enforced : g.key = k
  BY <1>2, VisibleMatches
<1>3. CASE ~ (actor.token /\ \E g \in Enforced : g.key = k)
  <2>1. Selecting(path).attributes[k] # {}
    BY <1>1, <1>3, FilterOfKey
  <2>2. PICK i \in 1 .. Len(path) : path[i][1] = k
    BY <2>1, SelectingOfKey
  <2>3. f[k] = {path[i][2]}
    BY <2>2, SelectingAsks
  <2>4. path[i] \in TreeSteps
    BY DEF PlainPath
  <2>5. path[i] = <<k, path[i][2]>>
    BY <2>2, <2>4 DEF TreeSteps
  <2>6. IF path[i][2] = Unassigned THEN ~ HasValue(a, k) ELSE path[i] \in attrs[a]
    BY <2>2 DEF Under
  <2> HIDE DEF f
  <2>7. CASE path[i][2] = Unassigned
    BY <2>3, <2>6, <2>7
  <2>8. CASE path[i][2] # Unassigned
    <3>1. <<k, path[i][2]>> \in attrs[a]
      BY <2>5, <2>6, <2>8
    <3>2. QED
      BY <2>3, <2>8, <3>1
  <2>9. QED
    BY <2>7, <2>8
<1>4. QED
  BY <1>2, <1>3

\* The listing behind a node is what the node counts.
LEMMA SelectingLists ==
    ASSUME ViewsTypeOK, Plain, TypesOf(NoQuery) = {}, NEW path, PlainPath(path)
    PROVE  Listed(Selecting(path)) = {a \in originals : Visible(a) /\ Under(a, path)}
<1>1. \A a \in originals : Matches(a, Filter(Selecting(path))) <=> Visible(a) /\ Under(a, path)
  BY MatchesIsVisible, SelectedIsUnder, UnderIsSelected
<1>2. Listed(Selecting(path)) = {a \in originals : Matches(a, Filter(Selecting(path)))}
  BY SelectingTypes DEF Listed
<1>3. QED
  BY <1>1, <1>2

\* Of a key without facets nothing is shown, and nothing is listed by value.
LEMMA NothingWithoutFacets ==
    ASSUME ViewsTypeOK, NEW path, PlainPath(path), Len(path) = 1,
           path[1][1] \notin Facets, path[1][2] # Unassigned
    PROVE  {a \in originals : Visible(a) /\ Under(a, path)} = {}
<1>1. 1 \in 1 .. Len(path) /\ path[1] \in TreeSteps
  BY DEF PlainPath
<1>2. path[1][2] \in Values /\ path[1] = <<path[1][1], path[1][2]>>
  BY <1>1 DEF TreeSteps
<1>3. path[1][1] \in AllKeys /\ FacetKey(path[1][1])
  BY <1>1 DEF PlainPath
<1>4. FacetValues(path[1][1]) = {}
  BY <1>3 DEF Facets
<1>5. ASSUME NEW a \in originals, Visible(a), Under(a, path) PROVE FALSE
  <2>1. path[1] \in attrs[a]
    BY <1>1, <1>5 DEF Under
  <2>2. path[1][2] \in FacetValues(path[1][1])
    BY <1>2, <1>3, <1>5, <2>1 DEF FacetValues
  <2>3. QED
    BY <1>4, <2>2
<1>6. QED
  BY <1>5

LEMMA ShownIsListed ==
    ASSUME ViewsTypeOK, Plain, TypesOf(NoQuery) = {}, NEW path, PlainPath(path),
           path # <<>>, path[1][1] \in Facets \/ path[1][2] # Unassigned
    PROVE  Shown(path) = Cardinality(Listed(Selecting(path)))
<1> DEFINE counted == {a \in originals : Visible(a) /\ Under(a, path)}
<1>1. Listed(Selecting(path)) = counted
  BY SelectingLists
<1>2. NodeCount(path) = Cardinality(counted)
  BY DEF NodeCount
<1>3. CASE Len(path) # 1
  BY <1>1, <1>2, <1>3 DEF Shown
<1>4. CASE Len(path) = 1
  <2>1. path \in Seq(TreeSteps) /\ path[1] \in TreeSteps
    BY <1>4 DEF PlainPath
  <2>2. path = <<<<path[1][1], path[1][2]>>>>
    <3>1. path[1] = <<path[1][1], path[1][2]>>
      BY <2>1 DEF TreeSteps
    <3>2. path = <<path[1]>>
      BY <1>4, <2>1
    <3>3. QED
      BY <3>1, <3>2
  <2>3. CASE path[1][1] \in Facets
    BY <1>1, <1>2, <1>4, <2>2, <2>3 DEF Shown, CatalogCount
  <2>4. CASE path[1][1] \notin Facets
    <3>1. Shown(path) = 0
      BY <1>4, <2>4 DEF Shown, CatalogCount
    <3>2. counted = {}
      BY <1>4, <2>4, NothingWithoutFacets
    <3>3. QED
      BY <1>1, <3>1, <3>2, FS_EmptySet
  <2>5. QED
    BY <2>3, <2>4
<1>5. QED
  BY <1>3, <1>4

LEMMA NodeCountsMatch ==
    ASSUME ViewsTypeOK, Plain, TypesOf(NoQuery) = {}, ~ (actor.token /\ actor.edits),
           NEW d \in 1 .. Cardinality(AllKeys), NEW path \in Nodes[d]
    PROVE  \/ Shown(path) = Cardinality(Listed(Selecting(path)))
           \/ path[1][1] \notin Facets /\ path[1][2] = Unassigned
           \/ \E i, j \in 1 .. Len(path) : i # j /\ path[i][1] = path[j][1]
<1>1. d \in 1 .. Cardinality(AllKeys) + 2
  BY KeysAreCounted
<1>2. NodePath(path, d)
  BY <1>1, NodesArePaths
<1>3. path \in Seq(TreeSteps) /\ path # <<>>
  BY <1>2 DEF NodePath
<1>4. \A i \in 1 .. Len(path) : path[i][1] \in AllKeys /\ FacetKey(path[i][1])
  BY <1>2, CatalogKeys, CatalogFacets DEF NodePath
<1>5. \/ PlainPath(path)
      \/ \E i, j \in 1 .. Len(path) : i # j /\ path[i][1] = path[j][1]
  BY <1>3, <1>4 DEF PlainPath
<1>6. QED
  BY <1>3, <1>5, ShownIsListed

LEMMA CountsMatch == ViewsTypeOK => CountsMatchListing
<1>1. SUFFICES ASSUME ViewsTypeOK, Plain, TypesOf(NoQuery) = {}
      PROVE  /\ Statistics = Cardinality(Listed(NoQuery))
             /\ ~ (actor.token /\ actor.edits) =>
                   \A d \in 1 .. Cardinality(AllKeys) : \A path \in Nodes[d] :
                      \/ Shown(path) = Cardinality(Listed(Selecting(path)))
                      \/ path[1][1] \notin Facets /\ path[1][2] = Unassigned
                      \/ \E i, j \in 1 .. Len(path) : i # j /\ path[i][1] = path[j][1]
  BY DEF CountsMatchListing
<1>2. Listed(NoQuery) = {a \in originals : Visible(a)}
  BY <1>1, ListedIsVisible DEF ListingIsVisibility
<1>3. Statistics = Cardinality(Listed(NoQuery))
  BY <1>2 DEF Statistics
<1>4. QED
  BY <1>1, <1>3, NodeCountsMatch

\* For any tokens, attributes, descriptions and parents: the number beside a
\* value is the length of the listing that selecting it gives.
THEOREM CountsAreOfListings == LibrarySpec => []CountsAreListings
<1>1. LibraryInv => CountsAreListings
  BY CountsMatch DEF LibraryInv, CountsAreListings
<1>2. QED
  BY <1>1, LibraryInvariance, PTL
=============================================================================
