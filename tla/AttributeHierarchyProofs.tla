----------------------- MODULE AttributeHierarchyProofs -----------------------
(* Keys never end up above themselves, for any sets of keys and requests.  *)
EXTENDS AttributeHierarchy, TLAPS

\* What a request that is about to store a parent has walked.
Walked == \A q \in asking : q.step = "store" => Walk(q.read, q.key, q.to)

\* While nobody else stores a parent, parents only go away.
Read == \A q \in asking : ~ q.late => \A x \in Keys : parent[x] \subseteq q.read[x]

HierarchyInv == HierarchyTypeOK /\ Walked /\ Read /\ Acyclic

-----------------------------------------------------------------------------

\* Fewer parents make no cycle.
LEMMA FewerParents ==
    ASSUME NEW f, NEW g, NEW S, NoCycle(f, S), \A x \in S : g[x] \subseteq f[x]
    PROVE  NoCycle(g, S)
<1>1. SUFFICES ASSUME NEW T \in SUBSET S, T # {} PROVE \E x \in T : g[x] \cap T = {}
  BY DEF NoCycle
<1>2. PICK x \in T : f[x] \cap T = {}
  BY <1>1 DEF NoCycle
<1>3. QED
  BY <1>1, <1>2

\* A parent whose walk ended makes none either, even when some of what was
\* walked has lost its parent since.
LEMMA NewParent ==
    ASSUME NEW f \in [Keys -> Parent], NEW read \in [Keys -> Parent],
           NEW k \in Keys, NEW to \in Parent,
           NoCycle(f, Keys), Walk(read, k, to), \A x \in Keys : f[x] \subseteq read[x]
    PROVE  NoCycle([f EXCEPT ![k] = to], Keys)
<1> DEFINE g == [f EXCEPT ![k] = to]
<1>1. PICK S \in SUBSET (Keys \ {k}) :
         to \subseteq S /\ (\A x \in S : read[x] \subseteq S) /\ NoCycle(read, S)
  BY DEF Walk
<1>2. SUFFICES ASSUME NEW T \in SUBSET Keys, T # {} PROVE \E x \in T : g[x] \cap T = {}
  BY DEF NoCycle
<1>3. CASE T \cap S # {}
  <2>1. PICK x \in T \cap S : read[x] \cap (T \cap S) = {}
    BY <1>1, <1>3 DEF NoCycle
  <2>2. x # k /\ g[x] = f[x] /\ f[x] \subseteq read[x] /\ read[x] \subseteq S
    BY <1>1, <2>1
  <2>3. QED
    BY <2>1, <2>2
<1>4. CASE T \cap S = {} /\ k \in T
  <2>1. g[k] = to
    OBVIOUS
  <2>2. QED
    BY <1>1, <1>4, <2>1
<1>5. CASE T \cap S = {} /\ k \notin T
  <2>1. PICK x \in T : f[x] \cap T = {}
    BY <1>2 DEF NoCycle
  <2>2. g[x] = f[x]
    BY <1>5
  <2>3. QED
    BY <2>1, <2>2
<1>6. QED
  BY <1>3, <1>4, <1>5

LEMMA HierarchyInitInv == HierarchyInit => HierarchyInv
<1>1. SUFFICES ASSUME HierarchyInit PROVE HierarchyInv
  OBVIOUS
<1>2. HierarchyTypeOK
  BY <1>1 DEF HierarchyInit, HierarchyTypeOK, Parent
<1>3. Walked /\ Read
  BY <1>1 DEF HierarchyInit, Walked, Read
<1>4. Acyclic
  BY <1>1 DEF HierarchyInit, Acyclic, NoCycle
<1>5. QED
  BY <1>2, <1>3, <1>4 DEF HierarchyInv

\* Asking is a record: its fields have their types.
LEMMA Fields ==
    ASSUME HierarchyTypeOK, NEW q \in asking
    PROVE  /\ q.key \in Keys /\ q.to \in Parent /\ q.read \in [Keys -> Parent]
           /\ q.late \in BOOLEAN /\ q.by \in Requests
BY DEF HierarchyTypeOK, Asking

LEMMA SetAttributeParentInv ==
    ASSUME HierarchyInv, NEW r \in Requests, NEW k \in Keys, NEW to \in Parent,
           SetAttributeParent(r, k, to)
    PROVE  HierarchyInv'
<1> USE DEF HierarchyInv
<1>1. parent' = parent /\ known' = known /\ inUse' = inUse /\ raced' = raced
  BY DEF SetAttributeParent
<1>2. PICK new \in SUBSET Asking :
         /\ asking' = asking \cup new
         /\ \A q \in new : /\ q.by = r /\ ~ q.late /\ q.read = parent
                           /\ q.step = "store" => Walk(q.read, q.key, q.to)
         /\ \A p, q \in new : p = q
  <2> DEFINE Ask(s) == [by |-> r, key |-> k, to |-> to, read |-> parent,
                        step |-> s, late |-> FALSE]
  <2>1. ASSUME NEW s \in {"count", "store"}
        PROVE  /\ Ask(s) \in Asking /\ Ask(s).by = r /\ ~ Ask(s).late
               /\ Ask(s).read = parent /\ Ask(s).step = s
               /\ Ask(s).key = k /\ Ask(s).to = to
    BY DEF HierarchyTypeOK, Asking
  <2> HIDE DEF Ask
  <2>2. CASE ~ to \subseteq known
    <3>1. asking' = asking \cup {Ask("count")}
      BY <2>2 DEF SetAttributeParent, Ask
    <3> {Ask("count")} \in SUBSET Asking
      BY <2>1
    <3>2. WITNESS {Ask("count")} \in SUBSET Asking
    <3>3. QED
      BY <2>1, <3>1
  <2>3. CASE to \subseteq known /\ Walk(parent, k, to)
    <3>1. asking' = asking \cup {Ask("store")}
      BY <2>3 DEF SetAttributeParent, Ask
    <3> {Ask("store")} \in SUBSET Asking
      BY <2>1
    <3>2. WITNESS {Ask("store")} \in SUBSET Asking
    <3>3. Walk(Ask("store").read, Ask("store").key, Ask("store").to)
      BY <2>1, <2>3
    <3>4. QED
      BY <2>1, <3>1, <3>3
  <2>4. CASE to \subseteq known /\ ~ Walk(parent, k, to)
    <3>1. asking' = asking
      BY <2>4 DEF SetAttributeParent
    <3>2. WITNESS {} \in SUBSET Asking
    <3>3. QED
      BY <3>1
  <2>5. QED
    BY <2>2, <2>3, <2>4
<1>3. \A q \in asking : q.by # r
  BY DEF SetAttributeParent
<1>4. HierarchyTypeOK'
  BY <1>1, <1>2, <1>3 DEF HierarchyTypeOK
<1>5. Walked'
  BY <1>2 DEF Walked, Walk, NoCycle
<1>6. Read'
  BY <1>1, <1>2 DEF Read
<1>7. Acyclic'
  BY <1>1 DEF Acyclic, NoCycle
<1>8. QED
  BY <1>4, <1>5, <1>6, <1>7

LEMMA CountUsesInv ==
    ASSUME HierarchyInv, NEW q \in asking, CountUses(q)
    PROVE  HierarchyInv'
<1> USE DEF HierarchyInv
<1> DEFINE p == [q EXCEPT !.step = "store"]
<1>1. parent' = parent /\ known' = known /\ inUse' = inUse /\ raced' = raced
  BY DEF CountUses
<1>2. q \in Asking
  BY DEF HierarchyTypeOK
<1>3. /\ p \in Asking /\ p.by = q.by /\ p.late = q.late /\ p.read = q.read
      /\ p.key = q.key /\ p.to = q.to
  BY <1>2 DEF Asking
<1>4. CASE q.to \subseteq inUse /\ Walk(q.read, q.key, q.to)
  <2>1. asking' = (asking \ {q}) \cup {p}
    BY <1>4 DEF CountUses
  <2>2. HierarchyTypeOK'
    <3>1. asking' \subseteq Asking
      BY <1>3, <2>1 DEF HierarchyTypeOK
    <3>2. ASSUME NEW m \in asking', NEW n \in asking', m.by = n.by PROVE m = n
      <4>1. m \in asking \/ m = p
        BY <2>1
      <4>2. n \in asking \/ n = p
        BY <2>1
      <4>3. \A s \in asking' : s.by = q.by => s = p
        BY <1>3, <2>1 DEF HierarchyTypeOK
      <4>4. QED
        BY <1>3, <3>2, <4>1, <4>2, <4>3 DEF HierarchyTypeOK
    <3>3. QED
      BY <1>1, <3>1, <3>2 DEF HierarchyTypeOK
  <2>3. Walked'
    <3>1. SUFFICES ASSUME NEW m \in asking', m.step = "store"
                   PROVE  Walk(m.read, m.key, m.to)
      BY DEF Walked, Walk, NoCycle
    <3>2. CASE m = p
      BY <1>3, <1>4, <3>2
    <3>3. CASE m \in asking
      BY <3>1, <3>3 DEF Walked
    <3>4. QED
      BY <2>1, <3>2, <3>3
  <2>4. Read'
    <3>1. \A m \in asking' : m \in asking \/ (m.late = q.late /\ m.read = q.read)
      BY <1>3, <2>1
    <3>2. QED
      BY <1>1, <3>1 DEF Read
  <2>5. QED
    BY <1>1, <2>2, <2>3, <2>4 DEF Acyclic, NoCycle
<1>5. CASE ~ (q.to \subseteq inUse /\ Walk(q.read, q.key, q.to))
  <2>1. asking' = asking \ {q}
    BY <1>5 DEF CountUses
  <2>2. QED
    BY <1>1, <2>1 DEF HierarchyTypeOK, Walked, Read, Acyclic, Walk, NoCycle
<1>6. QED
  BY <1>4, <1>5

LEMMA StoreParentInv ==
    ASSUME HierarchyInv, NEW q \in asking, StoreParent(q)
    PROVE  HierarchyInv'
<1> USE DEF HierarchyInv
<1> DEFINE Late(p) == IF q.to # {} THEN [p EXCEPT !.late = TRUE] ELSE p
<1>1. /\ parent' = [parent EXCEPT ![q.key] = q.to]
      /\ known' = known \cup {q.key} /\ inUse' = inUse
      /\ raced' = (raced \/ (q.late /\ q.to # {}))
      /\ asking' = {Late(p) : p \in asking \ {q}}
      /\ q.step = "store"
  BY DEF StoreParent
<1>2. /\ q.key \in Keys /\ q.to \in Parent /\ q.read \in [Keys -> Parent]
      /\ q.late \in BOOLEAN
  BY Fields
<1>3. ASSUME NEW p \in asking
      PROVE  /\ Late(p) \in Asking /\ Late(p).by = p.by /\ Late(p).key = p.key
             /\ Late(p).to = p.to /\ Late(p).read = p.read /\ Late(p).step = p.step
             /\ q.to # {} => Late(p).late
             /\ q.to = {} => Late(p).late = p.late
  <2>1. p \in Asking
    BY DEF HierarchyTypeOK
  <2>2. QED
    BY <2>1 DEF Asking
<1>4. HierarchyTypeOK'
  <2>1. parent' \in [Keys -> Parent] /\ known' \subseteq Keys /\ inUse' \subseteq Keys
    BY <1>1, <1>2 DEF HierarchyTypeOK
  <2>2. \A k \in Keys : parent'[k] # {} => k \in known'
    BY <1>1, <1>2 DEF HierarchyTypeOK
  <2>3. asking' \subseteq Asking
    BY <1>1, <1>3
  <2>4. ASSUME NEW m \in asking', NEW n \in asking', m.by = n.by PROVE m = n
    <3>1. PICK p \in asking \ {q} : m = Late(p)
      BY <1>1
    <3>2. PICK s \in asking \ {q} : n = Late(s)
      BY <1>1
    <3>3. p.by = s.by
      BY <1>3, <2>4, <3>1, <3>2
    <3>4. p = s
      BY <3>3 DEF HierarchyTypeOK
    <3>5. QED
      BY <3>1, <3>2, <3>4
  <2>5. raced' \in BOOLEAN
    BY <1>1
  <2>6. QED
    BY <2>1, <2>2, <2>3, <2>4, <2>5 DEF HierarchyTypeOK
<1>5. Walked'
  <2>1. SUFFICES ASSUME NEW m \in asking', m.step = "store"
                 PROVE  Walk(m.read, m.key, m.to)
    BY DEF Walked, Walk, NoCycle
  <2>2. PICK p \in asking \ {q} : m = Late(p)
    BY <1>1
  <2>3. m.read = p.read /\ m.key = p.key /\ m.to = p.to /\ p.step = "store"
    BY <1>3, <2>1, <2>2
  <2>4. QED
    BY <2>3 DEF Walked
<1>6. Read'
  <2>1. SUFFICES ASSUME NEW m \in asking', ~ m.late, NEW x \in Keys
                 PROVE  parent'[x] \subseteq m.read[x]
    BY DEF Read
  <2>2. PICK p \in asking \ {q} : m = Late(p)
    BY <1>1
  <2>3. q.to = {} /\ ~ p.late /\ m.read = p.read
    BY <1>3, <2>1, <2>2
  <2>4. parent'[x] \subseteq parent[x]
    BY <1>1, <2>3 DEF HierarchyTypeOK
  <2>5. QED
    BY <2>3, <2>4 DEF Read
<1>7. Acyclic'
  <2>1. SUFFICES ASSUME ~ raced' PROVE NoCycle(parent', Keys)
    BY DEF Acyclic, NoCycle
  <2>2. NoCycle(parent, Keys) /\ parent \in [Keys -> Parent]
    BY <1>1, <2>1 DEF Acyclic, HierarchyTypeOK
  <2>3. CASE q.to = {}
    <3>1. \A x \in Keys : parent'[x] \subseteq parent[x]
      BY <1>1, <2>2, <2>3
    <3>2. QED
      BY <2>2, <3>1, FewerParents
  <2>4. CASE q.to # {}
    <3>1. ~ q.late
      BY <1>1, <2>1, <2>4
    <3>2. Walk(q.read, q.key, q.to) /\ \A x \in Keys : parent[x] \subseteq q.read[x]
      BY <1>1, <3>1 DEF Walked, Read
    <3>3. NoCycle([parent EXCEPT ![q.key] = q.to], Keys)
      BY <1>2, <2>2, <3>2, NewParent
    <3>4. QED
      BY <1>1, <3>3
  <2>5. QED
    BY <2>3, <2>4
<1>8. QED
  BY <1>4, <1>5, <1>6, <1>7

\* Deletions, other settings and assignments: no parent is added.
LEMMA OtherInv ==
    ASSUME HierarchyInv, NEW k \in Keys, DeleteAttributeKey(k) \/ DescribeKey(k) \/ UseKey(k)
    PROVE  HierarchyInv'
<1> USE DEF HierarchyInv
<1>1. asking' = asking /\ raced' = raced
  BY DEF DeleteAttributeKey, DescribeKey, UseKey
<1>2. parent' = parent \/ parent' = [parent EXCEPT ![k] = {}]
  BY DEF DeleteAttributeKey, DescribeKey, UseKey
<1>3. parent \in [Keys -> Parent] /\ {} \in Parent
  BY DEF HierarchyTypeOK, Parent
<1>4. parent' \in [Keys -> Parent] /\ \A x \in Keys : parent'[x] \subseteq parent[x]
  BY <1>2, <1>3
<1>5. HierarchyTypeOK'
  <2>1. known' \subseteq Keys /\ inUse' \subseteq Keys
    BY DEF HierarchyTypeOK, DeleteAttributeKey, DescribeKey, UseKey
  <2>2. \A x \in Keys : parent'[x] # {} => x \in known'
    BY <1>3 DEF HierarchyTypeOK, DeleteAttributeKey, DescribeKey, UseKey
  <2>3. QED
    BY <1>1, <1>4, <2>1, <2>2 DEF HierarchyTypeOK
<1>6. Walked'
  BY <1>1 DEF Walked, Walk, NoCycle
<1>7. Read'
  BY <1>1, <1>4 DEF Read
<1>8. Acyclic'
  <2>1. CASE raced
    BY <1>1, <2>1 DEF Acyclic
  <2>2. CASE NoCycle(parent, Keys)
    <3>1. NoCycle(parent', Keys)
      BY <1>4, <2>2, FewerParents
    <3>2. QED
      BY <3>1 DEF Acyclic, NoCycle
  <2>3. QED
    BY <2>1, <2>2 DEF Acyclic
<1>9. QED
  BY <1>5, <1>6, <1>7, <1>8

LEMMA HierarchyNextInv == HierarchyInv /\ [HierarchyNext]_hierarchy => HierarchyInv'
<1>1. SUFFICES ASSUME HierarchyInv, [HierarchyNext]_hierarchy PROVE HierarchyInv'
  OBVIOUS
<1>2. CASE \E r \in Requests, k \in Keys, to \in Parent : SetAttributeParent(r, k, to)
  BY <1>1, <1>2, SetAttributeParentInv
<1>3. CASE \E q \in asking : CountUses(q) \/ StoreParent(q)
  BY <1>1, <1>3, CountUsesInv, StoreParentInv
<1>4. CASE \E k \in Keys : DeleteAttributeKey(k) \/ DescribeKey(k) \/ UseKey(k)
  BY <1>1, <1>4, OtherInv
<1>5. CASE UNCHANGED hierarchy
  BY <1>1, <1>5 DEF hierarchy, HierarchyInv, HierarchyTypeOK, Walked, Read, Acyclic, Walk, NoCycle
<1>6. QED
  BY <1>1, <1>2, <1>3, <1>4, <1>5 DEF HierarchyNext

LEMMA HierarchyInvariance == HierarchySpec => []HierarchyInv
<1>1. QED
  BY HierarchyInitInv, HierarchyNextInv, PTL DEF HierarchySpec

\* The variables keep their types.
THEOREM HierarchyTypes == HierarchySpec => []HierarchyTypeOK
<1>1. HierarchyInv => HierarchyTypeOK
  BY DEF HierarchyInv
<1>2. QED
  BY <1>1, HierarchyInvariance, PTL

\* Whatever requests, deletions and other settings interleave, the parents of
\* keys have no cycle unless two requests that each add a parent overlapped.
THEOREM HierarchyAcyclic == HierarchySpec => []Acyclic
<1>1. HierarchyInv => Acyclic
  BY DEF HierarchyInv
<1>2. QED
  BY <1>1, HierarchyInvariance, PTL
=============================================================================
