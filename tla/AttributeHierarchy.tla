-------------------------- MODULE AttributeHierarchy --------------------------
(***************************************************************************)
(* The parents of attribute keys, which the sidebar shows as trees.        *)
(*                                                                         *)
(*   service/asset_service.go     SetAttributeParent, DeleteAttributeKey   *)
(*   store/attribute_metadata.go  UpsertAttributeParent                    *)
(*                                                                         *)
(* A request reads every row of the metadata, may count the uses of a key  *)
(* without a row, looks for a cycle in what it has read, and stores the    *)
(* parent in a statement of its own.  A parent is a set of at most one key *)
(* and may name a key that has been deleted since.                         *)
(***************************************************************************)

CONSTANTS Keys, Requests

VARIABLES
    known,    \* keys with a row in attributes_metadata
    inUse,    \* keys with a row in asset_attributes
    parent,   \* parent_key of each key
    asking,   \* the requests in flight
    raced     \* history: a parent was stored by a request that had read
              \* the parents before another request stored one

hierarchy == <<known, inUse, parent, asking, raced>>

\* No parent, or one.
Parent == {{}} \cup {{k} : k \in Keys}

Asking == [by : Requests, key : Keys, to : Parent, read : [Keys -> Parent],
           step : {"count", "store"}, late : BOOLEAN]

HierarchyTypeOK ==
    /\ known \subseteq Keys /\ inUse \subseteq Keys
    /\ parent \in [Keys -> Parent]
    /\ \A k \in Keys : parent[k] # {} => k \in known
    /\ asking \subseteq Asking
    /\ \A q, r \in asking : q.by = r.by => q = r
    /\ raced \in BOOLEAN

HierarchyInit ==
    /\ known = {} /\ inUse = {} /\ asking = {} /\ raced = FALSE
    /\ parent = [k \in Keys |-> {}]

-----------------------------------------------------------------------------

\* No set of keys whose parents are all in the set.
NoCycle(f, S) == \A T \in SUBSET S : T # {} => \E x \in T : f[x] \cap T = {}

\* Slip: only the parent of the new parent is looked at.
OneStepUp(f, k, to) == \A p \in to : k # p /\ k \notin f[p]

\* The walk from the new parent ends, and does not meet the key or a key it
\* has met: the keys above it are a set without k that has no cycle.
Walk(f, k, to) ==
    \E S \in SUBSET (Keys \ {k}) :
       /\ to \subseteq S
       /\ \A x \in S : f[x] \subseteq S
       /\ NoCycle(f, S)

\* The metadata has been read; only an unknown parent needs a second look.
SetAttributeParent(r, k, to) ==
    /\ \A q \in asking : q.by # r
    /\ k \notin to
    /\ \/ /\ ~ to \subseteq known
          /\ asking' = asking \cup
                {[by |-> r, key |-> k, to |-> to, read |-> parent,
                  step |-> "count", late |-> FALSE]}
       \/ /\ to \subseteq known /\ Walk(parent, k, to)
          /\ asking' = asking \cup
                {[by |-> r, key |-> k, to |-> to, read |-> parent,
                  step |-> "store", late |-> FALSE]}
       \/ to \subseteq known /\ ~ Walk(parent, k, to) /\ UNCHANGED asking
    /\ UNCHANGED <<known, inUse, parent, raced>>

CountUses(q) ==
    /\ q.step = "count"
    /\ asking' = IF q.to \subseteq inUse /\ Walk(q.read, q.key, q.to)
                 THEN (asking \ {q}) \cup {[q EXCEPT !.step = "store"]}
                 ELSE asking \ {q}
    /\ UNCHANGED <<known, inUse, parent, raced>>

\* Slip: the parent is updated without making the row that a key may lack.
StoreParentNoRow(q) ==
    /\ q.step = "store"
    /\ parent' = [parent EXCEPT ![q.key] = q.to]
    /\ raced' = (raced \/ (q.late /\ q.to # {}))
    /\ asking' = {IF q.to # {} THEN [p EXCEPT !.late = TRUE] ELSE p :
                     p \in asking \ {q}}
    /\ UNCHANGED <<known, inUse>>

\* Removing a parent cannot make a cycle, nor hide one from a later check.
StoreParent(q) ==
    /\ q.step = "store"
    /\ parent' = [parent EXCEPT ![q.key] = q.to]
    /\ known' = known \cup {q.key}
    /\ raced' = (raced \/ (q.late /\ q.to # {}))
    /\ asking' = {IF q.to # {} THEN [p EXCEPT !.late = TRUE] ELSE p :
                     p \in asking \ {q}}
    /\ UNCHANGED inUse

\* The key's own parent goes with its row; keys below it still name it.
DeleteAttributeKey(k) ==
    /\ known' = known \ {k} /\ inUse' = inUse \ {k}
    /\ parent' = [parent EXCEPT ![k] = {}]
    /\ UNCHANGED <<asking, raced>>

\* Any other setting of a key or a value of it makes a row.
DescribeKey(k) ==
    /\ known' = known \cup {k}
    /\ UNCHANGED <<inUse, parent, asking, raced>>

\* Assignments, or their removal, elsewhere.
UseKey(k) ==
    /\ inUse' \in {inUse \cup {k}, inUse \ {k}}
    /\ UNCHANGED <<known, parent, asking, raced>>

HierarchyNext ==
    \/ \E r \in Requests, k \in Keys, to \in Parent : SetAttributeParent(r, k, to)
    \/ \E q \in asking : CountUses(q) \/ StoreParent(q)
    \/ \E k \in Keys : DeleteAttributeKey(k) \/ DescribeKey(k) \/ UseKey(k)

HierarchySpec == HierarchyInit /\ [][HierarchyNext]_hierarchy

-----------------------------------------------------------------------------

\* No key is above itself, at any distance and across deletions of keys in
\* between, unless two requests that each add a parent have overlapped.
Acyclic == raced \/ NoCycle(parent, Keys)
=============================================================================
