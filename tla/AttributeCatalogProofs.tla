------------------------ MODULE AttributeCatalogProofs ------------------------
(***************************************************************************)
(* Proofs about AttributeCatalog for any assets, keys, values and requests *)
(* and any bounds.  Neither property is inductive: both say what is stored *)
(* and not what requests that have been checked are about to store.  So    *)
(* WritesClosed and WritesSingle say the same of every request in flight,  *)
(* and Shape says which checks a request has behind it at each step.       *)
(***************************************************************************)
EXTENDS AttributeCatalog, TLAPS

\* A request past its first steps has read the rules of all its keys.
Past == PC \ {"idle", "count", "key_row", "rules", "used"}
OneKey == {"set", "add", "replace", "values", "create"}

\* Which steps belong to which request, and what it holds there.
Shape(r) ==
    /\ rtodo[r] \subseteq rwant[r]
    /\ rpc[r] = "idle" =>
          /\ rop[r] = None /\ rids[r] = {} /\ rwant[r] = {} /\ rkeys[r] = {}
    /\ rpc[r] # "idle" => rop[r] # None
    /\ rpc[r] = "used" => rkey[r] \in Keys
    /\ rpc[r] \in Past => rkeys[r] = {}
    /\ rpc[r] \in {"rules", "used"} => rop[r] # "visual"
    /\ rpc[r] \in {"count", "key_row", "insert"} => rop[r] = "values"
    /\ rpc[r] = "insert_key" => rop[r] = "create" /\ rkey[r] \in Keys
    /\ rpc[r] = "first" => rop[r] = "set"
    /\ rpc[r] \in {"again", "conflict"} => rop[r] = "add"
    /\ rpc[r] = "apply" => rop[r] \in {"set", "add", "replace"}
    /\ rpc[r] \in {"row", "attrs"} => rop[r] = "upload"
    /\ rpc[r] \in {"v_row", "v_attrs"} => rop[r] \in {"upload", "visual"}
    /\ rop[r] = "visual" => rkeys[r] = {}
    /\ rop[r] \in {"values", "create"} => rids[r] = {}
    /\ rop[r] = "create" => rwant[r] = {}
    /\ rop[r] \in OneKey =>
          IF rpc[r] \in {"count", "key_row", "rules"}
          THEN \E k \in Keys : rkeys[r] = {k} /\ rwant[r] \subseteq {k} \X Values
          ELSE rkey[r] \in Keys /\ rkeys[r] = {} /\ rwant[r] \subseteq {rkey[r]} \X Values
    /\ rop[r] = "upload" =>
          /\ rids[r] \subseteq spent
          /\ rpc[r] \in {"rules", "used", "row"} => rids[r] \cap row = {}

\* r has read that k is locked and v is not among its values: unless v is
\* in use, r will be refused.
Doubts(r, k, v) ==
    rpc[r] = "used" /\ rkey[r] = k /\ rules[r].lock /\ v \notin rules[r].allowed

\* What r may still write under a locked key is what the key may hold.
WritesClosed(r) ==
    \A k \in locked, v \in Values :
       <<k, v>> \in rwant[r] /\ HasRead(r, k) => v \in closed[k] \/ Doubts(r, k, v)

\* No unexcused asset gets several values of a single key from r: not from
\* what it asks for, nor together with what the asset has when it writes.
WritesSingle(r) ==
    \A a \in rids[r], k \in single :
       rop[r] # "visual" /\ <<a, k>> \notin excused /\ Of(rwant[r], k) # {} =>
          /\ Several(rwant[r], k) /\ HasRead(r, k) =>
                rpc[r] = "used" /\ rkey[r] = k /\ rules[r].one
          /\ rop[r] = "add" /\ rpc[r] = "apply" =>
                \A v \in Of(attrs[a], k) : Of(rwant[r], k) \subseteq {v}
          /\ rop[r] = "upload" /\ rpc[r] = "attrs" =>
                Of(attrs[a], k) \subseteq Of(rwant[r], k)

Rows ==
    /\ row \subseteq spent
    /\ \A a \in Assets \ row : attrs[a] = {}
    /\ \A q, r \in Requests :
          q # r /\ rop[q] = "upload" /\ rop[r] = "upload" => rids[q] \cap rids[r] = {}

Request(r) == Shape(r) /\ WritesClosed(r) /\ WritesSingle(r)

IInv ==
    /\ TypeOK /\ Rows /\ LockedVocabulary /\ SingleValued
    /\ \A r \in Requests : Request(r)

-----------------------------------------------------------------------------
(* The parts of TypeOK, by the variables an action changes.                *)

AssetTypes ==
    /\ row \subseteq Assets /\ spent \subseteq Assets /\ visual \subseteq Assets
    /\ attrs \in [Assets -> SUBSET Pairs] /\ shown \in [Assets -> SUBSET Pairs]

MetadataTypes ==
    /\ keyed \subseteq Keys /\ valued \in [Keys -> SUBSET Values]
    /\ locked \subseteq keyed /\ single \subseteq keyed

RequestTypes ==
    /\ rpc \in [Requests -> PC] /\ rop \in [Requests -> Ops \cup {None}]
    /\ rids \in [Requests -> SUBSET Assets]
    /\ rwant \in [Requests -> SUBSET Pairs] /\ rtodo \in [Requests -> SUBSET Pairs]
    /\ rkeys \in [Requests -> SUBSET Keys]
    /\ rkey \in [Requests -> Keys \cup {None}]
    /\ rules \in [Requests -> Rules]

HistoryTypes == closed \in [Keys -> SUBSET Values] /\ excused \subseteq Assets \X Keys

BoundTypes == asked \in 0 .. MaxAsks /\ settings \in 0 .. MaxSettings

LEMMA TypeParts ==
    TypeOK <=> AssetTypes /\ MetadataTypes /\ RequestTypes /\ HistoryTypes /\ BoundTypes
BY DEF TypeOK, AssetTypes, MetadataTypes, RequestTypes, HistoryTypes, BoundTypes

\* The other requests stay where they are.
Others(r) ==
    \A q \in Requests \ {r} :
        /\ rpc'[q] = rpc[q] /\ rop'[q] = rop[q] /\ rids'[q] = rids[q]
        /\ rwant'[q] = rwant[q] /\ rkeys'[q] = rkeys[q] /\ rkey'[q] = rkey[q]
        /\ rules'[q] = rules[q] /\ rtodo'[q] = rtodo[q]

\* r goes on with what it was asked for.
Same(r) ==
    /\ rop'[r] = rop[r] /\ rids'[r] = rids[r] /\ rwant'[r] = rwant[r]

-----------------------------------------------------------------------------
(* The helpers that move a request.                                        *)

LEMMA EndFacts ==
    ASSUME RequestTypes, NEW r \in Requests, End(r)
    PROVE  /\ Others(r) /\ RequestTypes' /\ Request(r)'
           /\ rop'[r] = None /\ rids'[r] = {}
<1>1. Others(r)
  BY DEF End, Others, RequestTypes
<1>2. RequestTypes'
  BY DEF End, RequestTypes, PC, NoRules, Rules
<1>3. /\ rpc'[r] = "idle" /\ rop'[r] = None /\ rids'[r] = {} /\ rwant'[r] = {}
      /\ rkeys'[r] = {} /\ rtodo'[r] = {}
  BY DEF End, RequestTypes
<1>4. Shape(r)'
  BY <1>3, CatalogAssumption DEF Shape, Past, OneKey, Ops
<1>5. WritesClosed(r)' /\ WritesSingle(r)'
  BY <1>3 DEF WritesClosed, WritesSingle
<1>6. QED
  BY <1>1, <1>2, <1>3, <1>4, <1>5 DEF Request

LEMMA GotoFacts ==
    ASSUME RequestTypes, NEW r \in Requests, NEW pc \in PC, Goto(r, pc)
    PROVE  /\ Others(r) /\ RequestTypes' /\ Same(r) /\ rpc'[r] = pc
           /\ rkeys' = rkeys /\ rkey' = rkey /\ rules' = rules /\ rtodo' = rtodo
BY DEF Goto, Others, Same, RequestTypes

LEMMA LoopFacts ==
    ASSUME RequestTypes, NEW r \in Requests, NEW pc \in PC, NEW rows \in SUBSET Pairs,
           Loop(r, pc, rows)
    PROVE  /\ Others(r) /\ RequestTypes' /\ Same(r) /\ rpc'[r] = pc /\ rtodo'[r] = rows
           /\ rkeys' = rkeys /\ rkey' = rkey /\ rules' = rules
BY DEF Loop, Others, Same, RequestTypes

LEMMA PassFacts ==
    ASSUME RequestTypes, NEW r \in Requests, NEW pc \in PC, NEW rows \in SUBSET Pairs,
           Pass(r, pc, rows)
    PROVE  /\ Others(r) /\ RequestTypes' /\ Same(r) /\ rpc'[r] = pc /\ rtodo'[r] = rows
           /\ rkeys' = rkeys /\ rkey' = rkey
BY DEF Pass, Others, Same, RequestTypes, NoRules, Rules

LEMMA BeginFacts ==
    ASSUME TypeOK, NEW r \in Requests, NEW pc \in PC, NEW op \in Ops,
           NEW ids \in SUBSET Assets, NEW want \in SUBSET Pairs, NEW keys \in SUBSET Keys,
           Begin(r, pc, op, ids, want, keys)
    PROVE  /\ Others(r) /\ RequestTypes' /\ asked' \in 0 .. MaxAsks /\ rpc[r] = "idle"
           /\ rpc'[r] = pc /\ rop'[r] = op /\ rids'[r] = ids /\ rwant'[r] = want
           /\ rkeys'[r] = keys /\ rkey' = rkey /\ rules' = rules /\ rtodo' = rtodo
<1>1. asked' \in 0 .. MaxAsks
  BY CatalogAssumption DEF Begin, TypeOK
<1>2. QED
  BY <1>1 DEF Begin, Others, TypeOK, RequestTypes

-----------------------------------------------------------------------------
(* Steps that write nothing: only the request itself has to be looked at.  *)

LEMMA Quiet ==
    ASSUME IInv, NEW r \in Requests, Others(r), RequestTypes', BoundTypes', Request(r)',
           UNCHANGED <<row, visual, attrs, shown, metadata, history>>,
           spent \subseteq spent', spent' \subseteq Assets,
           rop'[r] = "upload" =>
              \A q \in Requests \ {r} : rop[q] = "upload" => rids'[r] \cap rids[q] = {}
    PROVE  IInv'
<1>1. /\ row' = row /\ visual' = visual /\ attrs' = attrs /\ shown' = shown
      /\ keyed' = keyed /\ valued' = valued /\ locked' = locked /\ single' = single
      /\ closed' = closed /\ excused' = excused
  BY DEF metadata, history
<1>2. TypeOK'
  BY <1>1, TypeParts DEF IInv, TypeOK, RequestTypes, BoundTypes
<1>3. LockedVocabulary' /\ SingleValued'
  BY <1>1 DEF IInv, LockedVocabulary, SingleValued, Vocabulary, Used, Of, Several
<1>4. Rows'
  BY <1>1 DEF IInv, Rows, Others
<1>5. ASSUME NEW q \in Requests \ {r} PROVE Request(q)'
  <2>1. Shape(q) /\ WritesClosed(q) /\ WritesSingle(q)
    BY DEF IInv, Request
  <2>2. Shape(q)'
    BY <1>1, <1>5, <2>1 DEF Shape, Others
  <2>3. WritesClosed(q)'
    BY <1>1, <1>5, <2>1 DEF WritesClosed, Others, HasRead, Doubts
  <2>4. WritesSingle(q)'
    <3>1. /\ rpc'[q] = rpc[q] /\ rop'[q] = rop[q] /\ rids'[q] = rids[q]
          /\ rwant'[q] = rwant[q] /\ rkeys'[q] = rkeys[q] /\ rkey'[q] = rkey[q]
          /\ rules'[q] = rules[q]
      BY <1>5 DEF Others
    <3>2. \A k \in Keys : /\ Of(rwant[q], k)' = Of(rwant[q], k)
                          /\ Several(rwant[q], k)' <=> Several(rwant[q], k)
                          /\ HasRead(q, k)' <=> HasRead(q, k)
      BY <3>1 DEF Of, Several, HasRead
    <3>3. \A a, k : Of(attrs[a], k)' = Of(attrs[a], k)
      BY <1>1 DEF Of
    <3>4. single \subseteq Keys
      BY DEF IInv, TypeOK
    <3>5. QED
      BY <1>1, <2>1, <3>1, <3>2, <3>3, <3>4 DEF WritesSingle
  <2>5. QED
    BY <2>2, <2>3, <2>4 DEF Request
<1>6. QED
  BY <1>2, <1>3, <1>4, <1>5 DEF IInv

LEMMA EndQuiet ==
    ASSUME IInv, NEW r \in Requests, End(r), UNCHANGED <<assets, metadata, history, bounds>>
    PROVE  IInv'
<1>1. TypeOK /\ RequestTypes /\ BoundTypes
  BY TypeParts DEF IInv
<1>2. /\ Others(r) /\ RequestTypes' /\ Request(r)' /\ rop'[r] = None
  BY <1>1, EndFacts
<1>3. BoundTypes' /\ UNCHANGED <<row, visual, attrs, shown, metadata, history>>
      /\ spent' = spent
  BY <1>1 DEF BoundTypes, bounds, assets
<1>4. None # "upload" /\ spent \subseteq Assets
  BY <1>1, CatalogAssumption DEF Ops, TypeOK
<1>5. QED
  BY <1>2, <1>3, <1>4, Quiet

\* A request that goes on with what it was asked for.
LEMMA Advance ==
    ASSUME IInv, NEW r \in Requests, Others(r), RequestTypes', Same(r), Request(r)',
           UNCHANGED <<assets, metadata, history, bounds>>
    PROVE  IInv'
<1>1. TypeOK /\ BoundTypes /\ Rows
  BY TypeParts DEF IInv
<1>2. BoundTypes' /\ UNCHANGED <<row, visual, attrs, shown, metadata, history>>
      /\ spent' = spent /\ spent \subseteq Assets
  BY <1>1 DEF BoundTypes, bounds, assets, TypeOK
<1>3. rop'[r] = "upload" =>
         \A q \in Requests \ {r} : rop[q] = "upload" => rids'[r] \cap rids[q] = {}
  BY <1>1 DEF Rows, Same
<1>4. QED
  BY <1>2, <1>3, Quiet

\* A step after the checks, to one that is not about to write under a rule.
LEMMA GotoQuiet ==
    ASSUME IInv, NEW r \in Requests, NEW pc \in PC, Goto(r, pc),
           UNCHANGED <<assets, metadata, history, bounds>>,
           rpc[r] # "used", Shape(r)', pc # "attrs",
           pc = "apply" /\ rop[r] = "add" => rkey[r] \notin single
    PROVE  IInv'
<1>1. RequestTypes /\ Shape(r) /\ WritesClosed(r) /\ WritesSingle(r)
  BY TypeParts DEF IInv, Request
<1>2. /\ Others(r) /\ RequestTypes' /\ Same(r) /\ rpc'[r] = pc /\ rkeys' = rkeys
      /\ rkey' = rkey
  BY <1>1, GotoFacts
<1>3. /\ locked' = locked /\ single' = single /\ closed' = closed /\ excused' = excused
  BY DEF metadata, history
<1>4. WritesClosed(r)'
  BY <1>1, <1>2, <1>3 DEF WritesClosed, Same, HasRead, Doubts
<1>5. WritesSingle(r)'
  <2>1. SUFFICES ASSUME NEW a \in rids[r], NEW k \in single, rop[r] # "visual",
                        <<a, k>> \notin excused, Of(rwant[r], k) # {}
                 PROVE  /\ ~ (Several(rwant[r], k) /\ HasRead(r, k))
                        /\ ~ (rop[r] = "add" /\ pc = "apply")
    BY <1>2, <1>3 DEF WritesSingle, Same, HasRead, Several, Of
  <2>2. ~ (Several(rwant[r], k) /\ HasRead(r, k))
    BY <1>1, <2>1 DEF WritesSingle
  <2>3. ASSUME rop[r] = "add", pc = "apply" PROVE FALSE
    <3>1. rwant[r] \subseteq {rkey[r]} \X Values
      BY <1>2, <2>3 DEF Shape, OneKey, Same
    <3>2. k = rkey[r]
      BY <2>1, <3>1 DEF Of
    <3>3. QED
      BY <2>1, <2>3, <3>2
  <2>4. QED
    BY <2>2, <2>3
<1>6. Request(r)'
  BY <1>4, <1>5 DEF Request
<1>7. QED
  BY <1>2, <1>6, Advance

-----------------------------------------------------------------------------
(* Requests that begin.                                                    *)

LEMMA BeginOneKey ==
    ASSUME IInv, NEW r \in Requests, NEW pc \in {"rules", "count"}, NEW op \in OneKey,
           NEW ids \in SUBSET Assets, NEW k \in Keys, NEW want \in SUBSET ({k} \X Values),
           pc = "count" => op = "values", op \in {"values", "create"} => ids = {},
           op = "create" => want = {},
           Begin(r, pc, op, ids, want, {k}),
           UNCHANGED <<assets, metadata, history, settings>>
    PROVE  IInv'
<1>1. TypeOK /\ Shape(r)
  BY DEF IInv, Request
<1>2. pc \in PC /\ op \in Ops /\ want \in SUBSET Pairs /\ {k} \in SUBSET Keys
  BY DEF PC, Ops, OneKey, Pairs
<1>3. /\ Others(r) /\ RequestTypes' /\ asked' \in 0 .. MaxAsks /\ rpc[r] = "idle"
      /\ rpc'[r] = pc /\ rop'[r] = op /\ rids'[r] = ids /\ rwant'[r] = want
      /\ rkeys'[r] = {k} /\ rkey' = rkey /\ rules' = rules /\ rtodo' = rtodo
  BY <1>1, <1>2, BeginFacts
<1>4. op # "upload" /\ op # "visual" /\ op # None
  BY <1>2, CatalogAssumption DEF OneKey
<1>5. Shape(r)'
  BY <1>1, <1>3, <1>4 DEF Shape, OneKey, Past, PC
<1>6. WritesClosed(r)'
  BY <1>3 DEF WritesClosed, HasRead
<1>7. WritesSingle(r)'
  BY <1>3, <1>4 DEF WritesSingle, HasRead, Of, Several
<1>8. BoundTypes' /\ UNCHANGED <<row, visual, attrs, shown, metadata, history>>
      /\ spent' = spent /\ spent \subseteq Assets
  BY <1>1, <1>3 DEF BoundTypes, TypeOK, assets
<1>9. Request(r)'
  BY <1>5, <1>6, <1>7 DEF Request
<1>10. QED
  BY <1>3, <1>4, <1>8, <1>9, Quiet

LEMMA BeginUpload ==
    ASSUME IInv, NEW r \in Requests, NEW a \in Assets, NEW want \in SUBSET Pairs,
           StampUpload(r, a, want)
    PROVE  IInv'
<1>1. TypeOK /\ Shape(r) /\ Rows
  BY DEF IInv, Request
<1>2. {p[1] : p \in want} \in SUBSET Keys /\ "rules" \in PC /\ "upload" \in Ops
  BY DEF Pairs, PC, Ops
<1>3. /\ Others(r) /\ RequestTypes' /\ asked' \in 0 .. MaxAsks /\ rpc[r] = "idle"
      /\ rpc'[r] = "rules" /\ rop'[r] = "upload" /\ rids'[r] = {a} /\ rwant'[r] = want
      /\ rkeys'[r] = {p[1] : p \in want} /\ rkey' = rkey /\ rules' = rules /\ rtodo' = rtodo
  BY <1>1, <1>2, BeginFacts DEF StampUpload
<1>4. /\ a \notin spent /\ spent' = spent \cup {a}
      /\ UNCHANGED <<row, visual, attrs, shown, metadata, history>> /\ settings' = settings
  BY DEF StampUpload
<1>5. "upload" # None
  BY <1>2, CatalogAssumption
<1>6. Shape(r)'
  BY <1>1, <1>3, <1>4, <1>5 DEF Shape, OneKey, Past, PC, Rows
<1>7. WritesClosed(r)'
  BY <1>3 DEF WritesClosed, HasRead
<1>8. WritesSingle(r)'
  <2>1. ASSUME NEW k, Of(want, k) # {} PROVE k \in {p[1] : p \in want}
    <3>1. PICK v \in Values : <<k, v>> \in want
      BY <2>1 DEF Of
    <3>2. <<k, v>>[1] = k
      OBVIOUS
    <3>3. QED
      BY <3>1, <3>2
  <2>2. \A k : Of(rwant[r], k)' # {} => ~ HasRead(r, k)'
    BY <1>3, <2>1 DEF HasRead, Of
  <2>3. QED
    BY <1>3, <2>2 DEF WritesSingle
<1>9. Request(r)'
  BY <1>6, <1>7, <1>8 DEF Request
<1>10. \A q \in Requests \ {r} : rop[q] = "upload" => rids'[r] \cap rids[q] = {}
  BY <1>3, <1>4 DEF IInv, Request, Shape
<1>11. BoundTypes' /\ spent \subseteq spent' /\ spent' \subseteq Assets
  BY <1>1, <1>3, <1>4 DEF BoundTypes, TypeOK
<1>12. QED
  BY <1>3, <1>4, <1>9, <1>10, <1>11, Quiet

LEMMA BeginVisual ==
    ASSUME IInv, NEW r \in Requests, NEW a \in Assets, NEW lazy \in BOOLEAN,
           RefreshVisual(r, a, lazy)
    PROVE  IInv'
<1> DEFINE want == IF lazy THEN {} ELSE attrs[a]
<1>1. TypeOK /\ Shape(r) /\ LockedVocabulary
  BY DEF IInv, Request
<1>2. want \in SUBSET Pairs /\ "v_row" \in PC /\ "visual" \in Ops
  BY <1>1 DEF PC, Ops, TypeOK
<1>3. /\ Others(r) /\ RequestTypes' /\ asked' \in 0 .. MaxAsks /\ rpc[r] = "idle"
      /\ rpc'[r] = "v_row" /\ rop'[r] = "visual" /\ rids'[r] = {a} /\ rwant'[r] = want
      /\ rkeys'[r] = {} /\ rkey' = rkey /\ rules' = rules /\ rtodo' = rtodo
  BY <1>1, <1>2, BeginFacts DEF RefreshVisual
<1>4. /\ UNCHANGED <<row, visual, attrs, shown, metadata, history>> /\ settings' = settings
      /\ spent' = spent
  BY DEF RefreshVisual, assets
<1>5. "visual" # None
  BY <1>2, CatalogAssumption
<1>6. Shape(r)'
  BY <1>1, <1>3, <1>5 DEF Shape, OneKey, Past, PC
<1>7. \A k \in locked, v \in Values : <<k, v>> \in attrs[a] => v \in closed[k]
  BY <1>1 DEF LockedVocabulary, Vocabulary, Used, Of
<1>8. WritesClosed(r)'
  BY <1>3, <1>4, <1>7 DEF WritesClosed, metadata, history
<1>9. WritesSingle(r)'
  BY <1>3 DEF WritesSingle
<1>10. Request(r)'
  BY <1>6, <1>8, <1>9 DEF Request
<1>11. BoundTypes' /\ spent \subseteq Assets
  BY <1>1, <1>3, <1>4 DEF BoundTypes, TypeOK
<1>12. QED
  BY <1>3, <1>4, <1>10, <1>11, Quiet

LEMMA AskInv == ASSUME IInv, NEW r \in Requests, Ask(r) PROVE IInv'
<1> USE DEF OneKey
<1>1. ASSUME NEW k \in Keys, NEW vs \in SUBSET Values, NEW a \in Assets,
             SetAssetAttributeValues(r, a, k, vs)
      PROVE  IInv'
  BY <1>1, BeginOneKey DEF SetAssetAttributeValues
<1>2. ASSUME NEW k \in Keys, NEW vs \in SUBSET Values, NEW ids \in SUBSET Assets,
             NEW mode \in {"add", "replace"}, ApplyAssetAttributesBulk(r, ids, k, vs, mode)
      PROVE  IInv'
  BY <1>2, BeginOneKey DEF ApplyAssetAttributesBulk
<1>3. ASSUME NEW k \in Keys, NEW vs \in SUBSET Values, AddAttributeValues(r, k, vs)
      PROVE  IInv'
  BY <1>3, BeginOneKey DEF AddAttributeValues
<1>4. ASSUME NEW k \in Keys, CreateAttribute(r, k) PROVE IInv'
  BY <1>4, BeginOneKey DEF CreateAttribute
<1>5. QED
  BY <1>1, <1>2, <1>3, <1>4, BeginUpload, BeginVisual DEF Ask

-----------------------------------------------------------------------------
(* The checks.                                                             *)

\* What is read of a key is what the key is like.
LEMMA ReadMetadataInv ==
    ASSUME IInv, NEW r \in Requests, ReadMetadata(r)
    PROVE  IInv'
<1>1. TypeOK /\ RequestTypes /\ Shape(r) /\ WritesClosed(r) /\ WritesSingle(r) /\ LockedVocabulary
  BY TypeParts DEF IInv, Request
<1>2. PICK k \in rkeys[r] :
          /\ rkey' = [rkey EXCEPT ![r] = k]
          /\ rkeys' = [rkeys EXCEPT ![r] = @ \ {k}]
          /\ rules' = [rules EXCEPT ![r] =
                         [some |-> k \in keyed \/ valued[k] # {},
                          lock |-> k \in locked, one |-> k \in single,
                          allowed |-> valued[k]]]
  BY DEF ReadMetadata
<1>3. k \in Keys /\ rpc[r] = "rules"
  BY <1>1, <1>2 DEF ReadMetadata, TypeOK
<1>4. /\ rpc' = [rpc EXCEPT ![r] = "used"] /\ rop' = rop /\ rids' = rids
      /\ rwant' = rwant /\ rtodo' = rtodo /\ UNCHANGED <<assets, metadata, history, bounds>>
  BY DEF ReadMetadata
<1>5. [some |-> k \in keyed \/ valued[k] # {}, lock |-> k \in locked,
       one |-> k \in single, allowed |-> valued[k]] \in Rules
  BY <1>1, <1>3 DEF Rules, TypeOK
<1>6. Others(r) /\ RequestTypes' /\ Same(r)
  BY <1>1, <1>2, <1>3, <1>4, <1>5 DEF Others, RequestTypes, Same, PC
<1>7. /\ rpc'[r] = "used" /\ rkey'[r] = k /\ rkeys'[r] = rkeys[r] \ {k}
      /\ rules'[r].lock = (k \in locked) /\ rules'[r].one = (k \in single)
      /\ rules'[r].allowed = valued[k]
  BY <1>1, <1>2, <1>4 DEF RequestTypes
<1>8. Shape(r)'
  BY <1>1, <1>3, <1>4, <1>7 DEF Shape, OneKey, Past, PC, assets
<1>9. WritesClosed(r)'
  <2>1. SUFFICES ASSUME NEW l \in locked, NEW v \in Values, <<l, v>> \in rwant[r],
                        l \notin rkeys[r] \ {k}
                 PROVE  v \in closed[l] \/ (l = k /\ v \notin valued[k])
    BY <1>4, <1>7 DEF WritesClosed, Doubts, HasRead, metadata, history
  <2>2. CASE l # k
    BY <1>1, <1>3, <2>1, <2>2 DEF WritesClosed, Doubts, HasRead
  <2>3. CASE l = k
    BY <1>1, <1>3, <2>1, <2>3 DEF LockedVocabulary, Vocabulary
  <2>4. QED
    BY <2>2, <2>3
<1>10. WritesSingle(r)'
  <2>1. ASSUME NEW a \in rids[r], NEW l \in single, rop[r] # "visual",
               <<a, l>> \notin excused, Of(rwant[r], l) # {},
               Several(rwant[r], l), l \notin rkeys[r] \ {k}
        PROVE  l = k
    BY <1>1, <1>3, <2>1 DEF WritesSingle, HasRead
  <2>2. k \in single => rules'[r].one
    BY <1>7
  <2>3. /\ rids'[r] = rids[r] /\ single' = single /\ rop'[r] = rop[r]
        /\ excused' = excused /\ rwant'[r] = rwant[r]
    BY <1>4 DEF metadata, history
  <2>4. \A l : /\ Of(rwant[r], l)' = Of(rwant[r], l)
               /\ Several(rwant[r], l)' <=> Several(rwant[r], l)
               /\ HasRead(r, l)' => l \notin rkeys[r] \ {k}
    BY <1>7, <2>3 DEF Of, Several, HasRead
  <2>5. QED
    BY <1>7, <2>1, <2>2, <2>3, <2>4 DEF WritesSingle
<1>11. Request(r)'
  BY <1>8, <1>9, <1>10 DEF Request
<1>12. QED
  BY <1>4, <1>6, <1>11, Advance

\* A request leaves "used" only with what the rules it has read allow, and
\* with values that are in use.
LEMMA PassInv ==
    ASSUME IInv, NEW r \in Requests, NEW pc \in PC, NEW rows \in SUBSET Pairs,
           Pass(r, pc, rows), UNCHANGED <<assets, metadata, history, bounds>>,
           rpc[r] = "used", Shape(r)', pc \notin {"attrs", "used"},
           pc = "apply" => rop[r] # "add",
           rules[r].lock => Wanted(r) \subseteq Allowed(r),
           rids[r] # {} /\ rules[r].one => ~ Several(rwant[r], rkey[r])
    PROVE  IInv'
<1>1. TypeOK /\ RequestTypes /\ Shape(r) /\ WritesClosed(r) /\ WritesSingle(r) /\ LockedVocabulary
  BY TypeParts DEF IInv, Request
<1>2. /\ Others(r) /\ RequestTypes' /\ Same(r) /\ rpc'[r] = pc /\ rkeys' = rkeys
  BY <1>1, PassFacts
<1>3. /\ locked' = locked /\ single' = single /\ closed' = closed /\ excused' = excused
      /\ attrs' = attrs
  BY DEF metadata, history, assets
<1>4. WritesClosed(r)'
  <2>1. SUFFICES ASSUME NEW k \in locked, NEW v \in Values, <<k, v>> \in rwant[r], HasRead(r, k)
                 PROVE  v \in closed[k]
    BY <1>2, <1>3 DEF WritesClosed, Same, HasRead
  <2>2. CASE Doubts(r, k, v)
    <3>1. v \in Allowed(r) /\ v \notin rules[r].allowed /\ k = rkey[r]
      BY <2>1, <2>2 DEF Doubts, Wanted, Of
    <3>2. v \in Vocabulary(k)
      BY <3>1 DEF Allowed, Vocabulary
    <3>3. QED
      BY <1>1, <3>2 DEF LockedVocabulary
  <2>3. QED
    BY <1>1, <2>1, <2>2 DEF WritesClosed
<1>5. WritesSingle(r)'
  <2>1. SUFFICES ASSUME NEW a \in rids[r], NEW k \in single, rop[r] # "visual",
                        <<a, k>> \notin excused, Of(rwant[r], k) # {}
                 PROVE  ~ (Several(rwant[r], k) /\ HasRead(r, k))
    BY <1>2, <1>3 DEF WritesSingle, Same, HasRead, Several, Of
  <2>2. QED
    BY <1>1, <2>1 DEF WritesSingle
<1>6. Request(r)'
  BY <1>4, <1>5 DEF Request
<1>7. QED
  BY <1>2, <1>6, Advance

LEMMA ValidatedInv == ASSUME IInv, NEW r \in Requests, Validated(r) PROVE IInv'
<1> DEFINE pc == CASE rop[r] = "set" -> "first"
                   [] rop[r] = "add" -> "again"
                   [] rop[r] = "replace" -> "apply"
<1>1. RequestTypes /\ Shape(r)
  BY TypeParts DEF IInv, Request
<1>2. /\ rpc[r] = "used" /\ rop[r] \in {"set", "add", "replace"} /\ Assignable(r)
      /\ Pass(r, pc, {}) /\ UNCHANGED <<assets, metadata, history, bounds>>
  BY DEF Validated
<1>3. pc \in {"first", "again", "apply"} /\ pc \in PC /\ {} \in SUBSET Pairs
  BY <1>2 DEF PC
<1>4. Same(r) /\ rpc'[r] = pc /\ rtodo'[r] = {} /\ rkeys' = rkeys /\ rkey' = rkey
  BY <1>1, <1>2, <1>3, PassFacts
<1>5. Shape(r)'
  BY <1>1, <1>2, <1>4 DEF Shape, OneKey, Past, PC, Same, Ops
<1>6. /\ rules[r].lock => Wanted(r) \subseteq Allowed(r)
      /\ rules[r].one => ~ Several(rwant[r], rkey[r])
      /\ pc = "apply" => rop[r] # "add"
  BY <1>2 DEF Assignable
<1>7. QED
  BY <1>2, <1>3, <1>5, <1>6, PassInv

LEMMA StampableInv == ASSUME IInv, NEW r \in Requests, Stampable(r) PROVE IInv'
<1> DEFINE pc == IF rkeys[r] = {} THEN "row" ELSE "rules"
<1>1. RequestTypes /\ Shape(r)
  BY TypeParts DEF IInv, Request
<1>2. /\ rpc[r] = "used" /\ rop[r] = "upload" /\ Assignable(r)
      /\ Pass(r, pc, {}) /\ UNCHANGED <<assets, metadata, history, bounds>>
  BY DEF Stampable
<1>3. pc \in {"row", "rules"} /\ pc \in PC /\ {} \in SUBSET Pairs
  BY DEF PC
<1>4. Same(r) /\ rpc'[r] = pc /\ rtodo'[r] = {} /\ rkeys' = rkeys /\ rkey' = rkey
  BY <1>1, <1>2, <1>3, PassFacts
<1>5. Shape(r)'
  BY <1>1, <1>2, <1>4 DEF Shape, OneKey, Past, PC, Same, assets
<1>6. /\ rules[r].lock => Wanted(r) \subseteq Allowed(r)
      /\ rules[r].one => ~ Several(rwant[r], rkey[r])
  BY <1>2 DEF Assignable
<1>7. QED
  BY <1>2, <1>3, <1>5, <1>6, PassInv

LEMMA StartValuesInv == ASSUME IInv, NEW r \in Requests, StartValues(r) PROVE IInv'
<1>1. RequestTypes /\ Shape(r)
  BY TypeParts DEF IInv, Request
<1>2. /\ rpc[r] = "used" /\ rop[r] = "values" /\ ~ rules[r].lock
      /\ Pass(r, "insert", rwant[r]) /\ UNCHANGED <<assets, metadata, history, bounds>>
  BY DEF StartValues
<1>3. "insert" \in PC /\ rwant[r] \in SUBSET Pairs
  BY <1>1 DEF PC, RequestTypes
<1>4. Same(r) /\ rpc'[r] = "insert" /\ rtodo'[r] = rwant[r] /\ rkeys' = rkeys /\ rkey' = rkey
  BY <1>1, <1>2, <1>3, PassFacts
<1>5. Shape(r)' /\ rids[r] = {}
  BY <1>1, <1>2, <1>4 DEF Shape, OneKey, Past, PC, Same
<1>6. QED
  BY <1>2, <1>3, <1>5, PassInv

LEMMA NewKeyInv == ASSUME IInv, NEW r \in Requests, NewKey(r) PROVE IInv'
<1>1. RequestTypes /\ Shape(r)
  BY TypeParts DEF IInv, Request
<1>2. /\ rpc[r] = "used" /\ rop[r] = "create"
      /\ Pass(r, "insert_key", {}) /\ UNCHANGED <<assets, metadata, history, bounds>>
  BY DEF NewKey
<1>3. "insert_key" \in PC /\ {} \in SUBSET Pairs
  BY DEF PC
<1>4. Same(r) /\ rpc'[r] = "insert_key" /\ rtodo'[r] = {} /\ rkeys' = rkeys /\ rkey' = rkey
  BY <1>1, <1>2, <1>3, PassFacts
<1>5. Shape(r)' /\ rids[r] = {} /\ Wanted(r) = {}
  BY <1>1, <1>2, <1>4 DEF Shape, OneKey, Past, PC, Same, Wanted, Of
<1>6. QED
  BY <1>2, <1>3, <1>5, PassInv

LEMMA FirstAssetInv == ASSUME IInv, NEW r \in Requests, FirstAsset(r) PROVE IInv'
<1>1. RequestTypes /\ Shape(r)
  BY TypeParts DEF IInv, Request
<1>2. rpc[r] = "first" /\ UNCHANGED <<assets, metadata, history, bounds>>
  BY DEF FirstAsset
<1>3. ASSUME Goto(r, "apply") PROVE IInv'
  <2>1. "apply" \in PC
    BY DEF PC
  <2>2. Same(r) /\ rpc'[r] = "apply" /\ rkeys' = rkeys /\ rkey' = rkey /\ rtodo' = rtodo
    BY <1>1, <1>3, <2>1, GotoFacts
  <2>3. Shape(r)' /\ rop[r] # "add"
    BY <1>1, <1>2, <2>2 DEF Shape, OneKey, Past, PC, Same
  <2>4. QED
    BY <1>2, <1>3, <2>1, <2>3, GotoQuiet
<1>4. QED
  BY <1>2, <1>3, EndQuiet DEF FirstAsset

LEMMA ReadRulesAgainInv == ASSUME IInv, NEW r \in Requests, ReadRulesAgain(r) PROVE IInv'
<1> DEFINE pc == IF rkey[r] \in single THEN "conflict" ELSE "apply"
<1>1. RequestTypes /\ Shape(r)
  BY TypeParts DEF IInv, Request
<1>2. rpc[r] = "again" /\ Goto(r, pc) /\ UNCHANGED <<assets, metadata, history, bounds>>
  BY DEF ReadRulesAgain
<1>3. pc \in PC /\ pc \in {"conflict", "apply"}
  BY DEF PC
<1>4. Same(r) /\ rpc'[r] = pc /\ rkeys' = rkeys /\ rkey' = rkey /\ rtodo' = rtodo
  BY <1>1, <1>2, <1>3, GotoFacts
<1>5. Shape(r)'
  BY <1>1, <1>2, <1>4 DEF Shape, OneKey, Past, PC, Same
<1>6. QED
  BY <1>2, <1>3, <1>5, GotoQuiet

LEMMA CountUsesInv == ASSUME IInv, NEW r \in Requests, CountUses(r) PROVE IInv'
<1>1. RequestTypes /\ Shape(r)
  BY TypeParts DEF IInv, Request
<1>2. PICK pc \in {"rules", "key_row"} : Goto(r, pc)
  BY DEF CountUses
<1>3. pc \in PC /\ rpc[r] = "count" /\ UNCHANGED <<assets, metadata, history, bounds>>
  BY DEF PC, CountUses
<1>4. Same(r) /\ rpc'[r] = pc /\ rkeys' = rkeys /\ rkey' = rkey /\ rtodo' = rtodo
  BY <1>1, <1>2, <1>3, GotoFacts
<1>5. Shape(r)'
  BY <1>1, <1>3, <1>4 DEF Shape, OneKey, Past, PC, Same
<1>6. QED
  BY <1>2, <1>3, <1>5, GotoQuiet

LEMMA CountKeyRowsInv == ASSUME IInv, NEW r \in Requests, CountKeyRows(r) PROVE IInv'
<1>1. RequestTypes /\ Shape(r)
  BY TypeParts DEF IInv, Request
<1>2. rpc[r] = "key_row" /\ UNCHANGED <<assets, metadata, history, bounds>>
  BY DEF CountKeyRows
<1>3. ASSUME Goto(r, "rules") PROVE IInv'
  <2>1. "rules" \in PC
    BY DEF PC
  <2>2. Same(r) /\ rpc'[r] = "rules" /\ rkeys' = rkeys /\ rkey' = rkey /\ rtodo' = rtodo
    BY <1>1, <1>3, <2>1, GotoFacts
  <2>3. Shape(r)'
    BY <1>1, <1>2, <2>2 DEF Shape, OneKey, Past, PC, Same
  <2>4. QED
    BY <1>2, <1>3, <2>1, <2>3, GotoQuiet
<1>4. QED
  BY <1>2, <1>3, EndQuiet DEF CountKeyRows

\* Whoever adds to a single key knows that no asset has another value.
LEMMA CountConflictsInv == ASSUME IInv, NEW r \in Requests, CountConflicts(r) PROVE IInv'
<1>1. TypeOK /\ RequestTypes /\ Shape(r) /\ WritesClosed(r) /\ WritesSingle(r)
  BY TypeParts DEF IInv, Request
<1>2. rpc[r] = "conflict" /\ UNCHANGED <<assets, metadata, history, bounds>>
  BY DEF CountConflicts
<1>3. ASSUME Goto(r, "apply"), NEW first \in Wanted(r),
             \A a \in rids[r] : Of(attrs[a], rkey[r]) \subseteq {first}
      PROVE  IInv'
  <2>1. "apply" \in PC
    BY DEF PC
  <2>2. /\ Same(r) /\ rpc'[r] = "apply" /\ rkeys' = rkeys /\ rkey' = rkey /\ rtodo' = rtodo
        /\ Others(r) /\ RequestTypes'
    BY <1>1, <1>3, <2>1, GotoFacts
  <2>3. Shape(r)' /\ rop[r] = "add" /\ rkeys[r] = {} /\ rwant[r] \subseteq {rkey[r]} \X Values
    BY <1>1, <1>2, <2>2 DEF Shape, OneKey, Past, PC, Same
  <2>4. /\ locked' = locked /\ single' = single /\ closed' = closed /\ excused' = excused
        /\ attrs' = attrs
    BY <1>2 DEF metadata, history, assets
  <2>5. WritesClosed(r)'
    BY <1>1, <1>2, <2>2, <2>4 DEF WritesClosed, Same, HasRead, Doubts
  <2>6. WritesSingle(r)'
    <3>1. ASSUME NEW a \in rids[r], NEW k \in single,
                 <<a, k>> \notin excused, Of(rwant[r], k) # {}
          PROVE  /\ ~ Several(rwant[r], k)
                 /\ \A v \in Of(attrs[a], k) : Of(rwant[r], k) \subseteq {v}
      <4>1. k = rkey[r]
        BY <2>3, <3>1 DEF Of
      <4>2. ~ Several(rwant[r], k)
        BY <1>1, <1>2, <2>3, <3>1 DEF WritesSingle, HasRead
      <4>3. Of(rwant[r], k) = {first}
        BY <1>3, <4>1, <4>2 DEF Several, Wanted
      <4>4. QED
        BY <1>3, <4>1, <4>2, <4>3
    <3>2. \A k : /\ Of(rwant[r], k)' = Of(rwant[r], k)
                 /\ Several(rwant[r], k)' <=> Several(rwant[r], k)
      BY <2>2 DEF Of, Several, Same
    <3>3. \A a, k : Of(attrs[a], k)' = Of(attrs[a], k)
      BY <2>4 DEF Of
    <3>4. rop'[r] = "add"
      BY <2>2, <2>3 DEF Same
    <3>5. QED
      BY <2>2, <2>4, <3>1, <3>2, <3>3, <3>4 DEF WritesSingle, Same
  <2>7. Request(r)'
    BY <2>3, <2>5, <2>6 DEF Request
  <2>8. QED
    BY <1>2, <2>2, <2>7, Advance
<1>4. QED
  BY <1>2, <1>3, EndQuiet DEF CountConflicts

-----------------------------------------------------------------------------
(* Steps that write rows.                                                  *)

\* What a step of r has to show, when it changes no rule.
LEMMA Write ==
    ASSUME IInv, NEW r \in Requests, Others(r), RequestTypes', Request(r)',
           UNCHANGED <<locked, single, closed, spent, bounds>>,
           AssetTypes', MetadataTypes', excused' \subseteq Assets \X Keys,
           row' \subseteq row \cup rids[r], rop[r] # "upload" => row' \subseteq row,
           rop'[r] = "upload" => Same(r),
           LockedVocabulary', SingleValued',
           \A a \in Assets \ row' : attrs'[a] = {},
           \A q \in Requests \ {r} : WritesSingle(q)'
    PROVE  IInv'
<1>1. TypeOK /\ Rows /\ Shape(r)
  BY DEF IInv, Request
<1>2. /\ locked' = locked /\ single' = single /\ closed' = closed /\ spent' = spent
      /\ asked' = asked /\ settings' = settings
  BY DEF bounds
<1>3. TypeOK'
  <2>1. HistoryTypes' /\ BoundTypes'
    BY <1>1, <1>2 DEF TypeOK, HistoryTypes, BoundTypes
  <2>2. QED
    BY <2>1 DEF TypeOK, AssetTypes, MetadataTypes, RequestTypes, HistoryTypes, BoundTypes
<1>4. row' \subseteq spent'
  BY <1>1, <1>2 DEF Rows, Shape
<1>5. Rows'
  BY <1>1, <1>2, <1>4 DEF Rows, Others, Same
<1>6. ASSUME NEW q \in Requests \ {r} PROVE Request(q)'
  <2>1. Shape(q) /\ WritesClosed(q)
    BY DEF IInv, Request
  <2>2. rop[q] = "upload" /\ rids[q] \cap row = {} => rids[q] \cap row' = {}
    BY <1>1 DEF Rows
  <2>3. /\ rpc'[q] = rpc[q] /\ rop'[q] = rop[q] /\ rids'[q] = rids[q]
        /\ rwant'[q] = rwant[q] /\ rkeys'[q] = rkeys[q] /\ rkey'[q] = rkey[q]
        /\ rules'[q] = rules[q] /\ rtodo'[q] = rtodo[q]
    BY <1>6 DEF Others
  <2>4. Shape(q)'
    BY <1>2, <2>1, <2>2, <2>3 DEF Shape
  <2>5. WritesClosed(q)'
    BY <1>2, <2>1, <2>3 DEF WritesClosed, HasRead, Doubts
  <2>6. QED
    BY <2>4, <2>5 DEF Request
<1>7. QED
  BY <1>3, <1>5, <1>6 DEF IInv

\* What a checked request adds to a locked key, the key may hold.
LEMMA WriteLocked ==
    ASSUME IInv, NEW r \in Requests, rpc[r] \in Past, UNCHANGED <<locked, closed>>,
           \A k \in locked : Vocabulary(k)' \subseteq Vocabulary(k) \cup Of(rwant[r], k)
    PROVE  LockedVocabulary'
<1>1. WritesClosed(r) /\ Shape(r) /\ LockedVocabulary
  BY DEF IInv, Request
<1>2. ASSUME NEW k \in locked, NEW v \in Of(rwant[r], k) PROVE v \in closed[k]
  BY <1>1 DEF WritesClosed, HasRead, Doubts, Shape, Past, Of
<1>3. QED
  BY <1>1, <1>2 DEF LockedVocabulary

\* An asset is no longer excused only after a clean write, which met nobody.
LEMMA WritesFacts ==
    ASSUME TypeOK, NEW r \in Requests, NEW ids \in SUBSET Assets, NEW clean \in BOOLEAN,
           Writes(r, ids, clean)
    PROVE  /\ excused' \subseteq Assets \X Keys
           /\ \A a \in Assets, k \in Keys : <<a, k>> \notin excused' =>
                 /\ <<a, k>> \in excused =>
                       /\ a \in ids /\ clean /\ ~ Several(rwant[r], k)
                       /\ Of(rwant[r], k) # {} \/ k = rkey[r]
                 /\ a \in ids /\ (Of(rwant[r], k) # {} \/ k = rkey[r]) =>
                       \A q \in Requests \ {r} : ~ Threat(q, a, k)
<1> DEFINE cells == {c \in ids \X Keys : Of(rwant[r], c[2]) # {} \/ c[2] = rkey[r]}
           met(c) == \E q \in Requests \ {r} : Threat(q, c[1], c[2])
<1>1. excused' = (excused \ {c \in cells : clean /\ ~ Several(rwant[r], c[2])})
                   \cup {c \in cells : met(c)}
  BY DEF Writes
<1>2. excused' \subseteq Assets \X Keys
  BY <1>1 DEF TypeOK
<1>3. ASSUME NEW a \in Assets, NEW k \in Keys, <<a, k>> \notin excused'
      PROVE  /\ <<a, k>> \in excused =>
                   /\ a \in ids /\ clean /\ ~ Several(rwant[r], k)
                   /\ Of(rwant[r], k) # {} \/ k = rkey[r]
             /\ a \in ids /\ (Of(rwant[r], k) # {} \/ k = rkey[r]) =>
                   \A q \in Requests \ {r} : ~ Threat(q, a, k)
  <2>1. <<a, k>>[1] = a /\ <<a, k>>[2] = k
    OBVIOUS
  <2>2. <<a, k>> \in cells <=> a \in ids /\ (Of(rwant[r], k) # {} \/ k = rkey[r])
    BY <2>1
  <2>3. met(<<a, k>>) <=> \E q \in Requests \ {r} : Threat(q, a, k)
    BY <2>1
  <2>4. <<a, k>> \in excused => <<a, k>> \in cells /\ clean /\ ~ Several(rwant[r], k)
    BY <1>1, <1>3, <2>1
  <2>5. <<a, k>> \in cells => ~ met(<<a, k>>)
    BY <1>1, <1>3
  <2>6. QED
    BY <2>2, <2>3, <2>4, <2>5
<1>4. QED
  BY <1>2, <1>3

\* A write of r excuses every request whose write it comes between.
LEMMA WriteSingle ==
    ASSUME IInv, NEW r \in Requests, NEW ids \in SUBSET Assets, NEW clean \in BOOLEAN,
           Writes(r, ids, clean), Others(r), single' = single,
           \A a \in Assets, k \in Keys :
              \/ Of(attrs'[a], k) = Of(attrs[a], k)
              \/ a \in ids /\ (Of(rwant[r], k) # {} \/ k = rkey[r]),
           NEW q \in Requests \ {r}
    PROVE  WritesSingle(q)'
<1>1. TypeOK /\ WritesSingle(q)
  BY DEF IInv, Request
<1>2. /\ rpc'[q] = rpc[q] /\ rop'[q] = rop[q] /\ rids'[q] = rids[q]
      /\ rwant'[q] = rwant[q] /\ rkeys'[q] = rkeys[q] /\ rkey'[q] = rkey[q]
      /\ rules'[q] = rules[q]
  BY DEF Others
<1>3. \A k : /\ Of(rwant[q], k)' = Of(rwant[q], k)
             /\ Several(rwant[q], k)' <=> Several(rwant[q], k)
             /\ HasRead(q, k)' <=> HasRead(q, k)
  BY <1>2 DEF Of, Several, HasRead
<1>4. \A a, k : Of(attrs[a], k)' = Of(attrs'[a], k)
  BY DEF Of
<1>5. ASSUME NEW a \in rids[q], NEW k \in single, rop[q] # "visual",
             <<a, k>> \notin excused', Of(rwant[q], k) # {}
      PROVE  /\ Several(rwant[q], k) /\ HasRead(q, k) =>
                   rpc[q] = "used" /\ rkey[q] = k /\ rules[q].one
             /\ rop[q] = "add" /\ rpc[q] = "apply" =>
                   \A v \in Of(attrs'[a], k) : Of(rwant[q], k) \subseteq {v}
             /\ rop[q] = "upload" /\ rpc[q] = "attrs" =>
                   Of(attrs'[a], k) \subseteq Of(rwant[q], k)
  <2>1. a \in Assets /\ k \in Keys
    BY <1>1 DEF TypeOK
  <2>2. CASE a \in ids /\ (Of(rwant[r], k) # {} \/ k = rkey[r])
    <3>1. ~ Threat(q, a, k)
      BY <1>1, <1>5, <2>1, <2>2, WritesFacts
    <3>2. QED
      BY <1>5, <3>1 DEF Threat
  <2>3. CASE ~ (a \in ids /\ (Of(rwant[r], k) # {} \/ k = rkey[r]))
    <3>1. <<a, k>> \notin excused /\ Of(attrs'[a], k) = Of(attrs[a], k)
      BY <1>1, <1>5, <2>1, <2>3, WritesFacts
    <3>2. QED
      BY <1>1, <1>5, <3>1 DEF WritesSingle
  <2>4. QED
    BY <2>2, <2>3
<1>6. QED
  BY <1>2, <1>3, <1>4, <1>5 DEF WritesSingle

LEMMA ApplyValuesInv == ASSUME IInv, NEW r \in Requests, ApplyValues(r) PROVE IInv'
<1> DEFINE ids == rids[r] \cap row
           clean == rop[r] # "add"
           k0 == rkey[r]
<1>1. /\ TypeOK /\ RequestTypes /\ Shape(r) /\ WritesSingle(r) /\ LockedVocabulary
      /\ SingleValued /\ Rows
  BY TypeParts DEF IInv, Request
<1>2. /\ rpc[r] = "apply" /\ End(r) /\ UNCHANGED <<row, spent, visual, metadata, closed, bounds>>
  BY DEF ApplyValues
<1>3. /\ k0 \in Keys /\ rkeys[r] = {} /\ rwant[r] \subseteq {k0} \X Values
      /\ rop[r] \in {"set", "add", "replace"} /\ rids[r] \in SUBSET Assets
      /\ rwant[r] \subseteq Pairs
  BY <1>1, <1>2 DEF Shape, OneKey, TypeOK
<1>4. CASE UNCHANGED <<attrs, shown, excused>>
  BY <1>2, <1>4, EndQuiet DEF assets, history
<1>5. ASSUME attrs' = [a \in Assets |-> IF a \in ids THEN Merge(r, attrs[a]) ELSE attrs[a]],
             shown' = [a \in Assets |-> IF a \in rids[r] \cap visual THEN Merge(r, shown[a])
                                        ELSE shown[a]],
             Writes(r, ids, clean)
      PROVE  IInv'
  <2>1. Others(r) /\ RequestTypes' /\ Request(r)' /\ rop'[r] = None
    BY <1>1, <1>2, EndFacts
  <2>2. /\ keyed' = keyed /\ valued' = valued /\ locked' = locked /\ single' = single
        /\ row' = row /\ spent' = spent /\ visual' = visual /\ closed' = closed
    BY <1>2 DEF metadata
  <2>3. \A S \in SUBSET Pairs : Merge(r, S) \in SUBSET Pairs
    BY <1>3 DEF Merge
  <2>4. AssetTypes' /\ MetadataTypes'
    BY <1>1, <1>5, <2>2, <2>3 DEF AssetTypes, MetadataTypes, TypeOK
  <2>5. \A k \in Keys : \A S :
           /\ k # k0 => Of(Merge(r, S), k) = Of(S, k)
           /\ Of(Merge(r, S), k0) =
                IF clean THEN Of(rwant[r], k0) ELSE Of(S, k0) \cup Of(rwant[r], k0)
    BY <1>3 DEF Merge, Of
  <2>6. \A a \in Assets, k \in Keys :
           \/ Of(attrs'[a], k) = Of(attrs[a], k)
           \/ a \in ids /\ (Of(rwant[r], k) # {} \/ k = k0)
    BY <1>5, <2>5
  <2>7. \A q \in Requests \ {r} : WritesSingle(q)'
    BY <1>3, <1>5, <2>1, <2>2, <2>6, WriteSingle
  <2>8. LockedVocabulary'
    <3>1. \A k \in Keys : \A S : Of(Merge(r, S), k) \subseteq Of(S, k) \cup Of(rwant[r], k)
      BY DEF Merge, Of
    <3>2. \A k \in Keys, a \in Assets :
             /\ Of(attrs'[a], k) \subseteq Of(attrs[a], k) \cup Of(rwant[r], k)
             /\ Of(shown'[a], k) \subseteq Of(shown[a], k) \cup Of(rwant[r], k)
      BY <1>5, <3>1
    <3>3. \A k \in Keys : Used(k)' \subseteq Used(k) \cup Of(rwant[r], k)
      <4>1. ASSUME NEW k \in Keys, NEW v \in Values, NEW a \in Assets,
                   v \in Of(attrs'[a], k) \cup Of(shown'[a], k)
            PROVE  v \in Used(k) \cup Of(rwant[r], k)
        BY <3>2, <4>1 DEF Used
      <4>2. QED
        BY <4>1 DEF Used, Of
    <3>4. \A k \in locked : Vocabulary(k)' \subseteq Vocabulary(k) \cup Of(rwant[r], k)
      BY <1>1, <2>2, <3>3 DEF Vocabulary, TypeOK
    <3>5. QED
      BY <1>2, <2>2, <3>4, WriteLocked DEF Past, PC
  <2>9. SingleValued'
    <3>1. SUFFICES ASSUME NEW k \in single, NEW a \in row, Several(attrs'[a], k),
                          <<a, k>> \notin excused'
                   PROVE  FALSE
      BY <2>2 DEF SingleValued, Several, Of
    <3>2. k \in Keys /\ a \in Assets
      BY <1>1 DEF TypeOK
    <3>3. /\ <<a, k>> \in excused =>
                a \in ids /\ clean /\ ~ Several(rwant[r], k) /\ (Of(rwant[r], k) # {} \/ k = k0)
      BY <1>1, <1>3, <1>5, <3>1, <3>2, WritesFacts
    <3>4. a \notin ids \/ k # k0 => Of(attrs'[a], k) = Of(attrs[a], k)
      BY <1>5, <2>5, <3>2
    <3>5. Of(rwant[r], k) # {} => k = k0
      BY <1>3 DEF Of
    <3>6. CASE a \in ids /\ k = k0 /\ Of(rwant[r], k) # {}
      <4>1. <<a, k>> \notin excused =>
               /\ ~ Several(rwant[r], k)
               /\ ~ clean => \A v \in Of(attrs[a], k) : Of(rwant[r], k) \subseteq {v}
        BY <1>1, <1>2, <1>3, <3>1, <3>6 DEF WritesSingle, HasRead
      <4>2. ~ Several(rwant[r], k)
        BY <3>3, <4>1
      <4>3. Of(attrs'[a], k) = IF clean THEN Of(rwant[r], k) ELSE Of(attrs[a], k) \cup Of(rwant[r], k)
        BY <1>5, <2>5, <3>2, <3>6
      <4>4. QED
        BY <3>1, <3>3, <3>6, <4>1, <4>2, <4>3 DEF Several
    <3>7. CASE a \in ids /\ k = k0 /\ Of(rwant[r], k) = {}
      <4>1. Of(attrs'[a], k) = IF clean THEN {} ELSE Of(attrs[a], k)
        BY <1>5, <2>5, <3>2, <3>7
      <4>2. QED
        BY <1>1, <3>1, <3>3, <3>7, <4>1 DEF Several, SingleValued
    <3>8. CASE a \notin ids \/ k # k0
      <4>1. <<a, k>> \notin excused /\ Several(attrs[a], k)
        BY <3>1, <3>3, <3>4, <3>5, <3>8 DEF Several
      <4>2. QED
        BY <1>1, <4>1 DEF SingleValued
    <3>9. QED
      BY <3>6, <3>7, <3>8
  <2>10. \A a \in Assets \ row' : attrs'[a] = {}
    BY <1>1, <1>5, <2>2 DEF Rows
  <2>11. excused' \subseteq Assets \X Keys
    BY <1>1, <1>3, <1>5, WritesFacts
  <2>12. rop'[r] # "upload"
    BY <2>1, CatalogAssumption DEF Ops
  <2>13. QED
    BY <1>2, <2>1, <2>2, <2>4, <2>7, <2>8, <2>9, <2>10, <2>11, <2>12, Write
<1>6. QED
  BY <1>4, <1>5 DEF ApplyValues

LEMMA LoopRequest ==
    ASSUME IInv, NEW r \in Requests, NEW pc \in PC, NEW rows \in SUBSET rwant[r],
           Loop(r, pc, rows), rpc[r] \in Past, pc \in Past, pc # "apply",
           UNCHANGED <<locked, closed, single>>, excused \subseteq excused', Shape(r)',
           pc = "attrs" =>
              \A a \in rids[r], k \in single :
                 <<a, k>> \notin excused' /\ Of(rwant[r], k) # {} =>
                    Of(attrs'[a], k) \subseteq Of(rwant[r], k)
    PROVE  Others(r) /\ RequestTypes' /\ Same(r) /\ Request(r)'
<1>1. RequestTypes /\ Shape(r) /\ WritesClosed(r) /\ WritesSingle(r)
  BY TypeParts DEF IInv, Request
<1>2. /\ Others(r) /\ RequestTypes' /\ Same(r) /\ rpc'[r] = pc /\ rkeys' = rkeys
  BY <1>1, LoopFacts DEF RequestTypes
<1>3. WritesClosed(r)'
  BY <1>1, <1>2 DEF WritesClosed, Same, HasRead, Doubts, Past
<1>4. \A k : /\ Of(rwant[r], k)' = Of(rwant[r], k)
             /\ Several(rwant[r], k)' <=> Several(rwant[r], k)
             /\ HasRead(r, k)' <=> HasRead(r, k)
  BY <1>2 DEF Of, Several, HasRead, Same
<1>5. \A a, k : Of(attrs[a], k)' = Of(attrs'[a], k)
  BY DEF Of
<1>6. WritesSingle(r)'
  BY <1>1, <1>2, <1>4, <1>5 DEF WritesSingle, Same, Past
<1>7. QED
  BY <1>2, <1>3, <1>6 DEF Request

LEMMA OthersSingle ==
    ASSUME IInv, NEW r \in Requests, Others(r), UNCHANGED <<attrs, single, excused>>,
           NEW q \in Requests \ {r}
    PROVE  WritesSingle(q)'
<1>1. WritesSingle(q)
  BY DEF IInv, Request
<1>2. /\ rpc'[q] = rpc[q] /\ rop'[q] = rop[q] /\ rids'[q] = rids[q]
      /\ rwant'[q] = rwant[q] /\ rkeys'[q] = rkeys[q] /\ rkey'[q] = rkey[q]
      /\ rules'[q] = rules[q]
  BY DEF Others
<1>3. \A k : /\ Of(rwant[q], k)' = Of(rwant[q], k)
             /\ Several(rwant[q], k)' <=> Several(rwant[q], k)
             /\ HasRead(q, k)' <=> HasRead(q, k)
  BY <1>2 DEF Of, Several, HasRead
<1>4. \A a, k : Of(attrs[a], k)' = Of(attrs[a], k)
  BY DEF Of
<1>5. QED
  BY <1>1, <1>2, <1>3, <1>4 DEF WritesSingle

\* The visual and the metadata are not what SingleValued is about.
LEMMA WriteBeside ==
    ASSUME IInv, NEW r \in Requests, Others(r), RequestTypes', Request(r)',
           rop'[r] = None \/ Same(r),
           UNCHANGED <<row, attrs, spent, locked, single, closed, excused, bounds>>,
           AssetTypes', MetadataTypes', LockedVocabulary'
    PROVE  IInv'
<1>1. TypeOK /\ Rows /\ SingleValued
  BY DEF IInv
<1>2. SingleValued'
  BY <1>1 DEF SingleValued, Several, Of
<1>3. \A q \in Requests \ {r} : WritesSingle(q)'
  BY OthersSingle
<1>4. None # "upload"
  BY CatalogAssumption DEF Ops
<1>5. excused' \subseteq Assets \X Keys /\ \A a \in Assets \ row' : attrs'[a] = {}
  BY <1>1 DEF TypeOK, Rows
<1>6. QED
  BY <1>2, <1>3, <1>4, <1>5, Write

LEMMA InsertAttributeValuesInv ==
    ASSUME IInv, NEW r \in Requests, InsertAttributeValues(r)
    PROVE  IInv'
<1>1. TypeOK /\ RequestTypes /\ Shape(r)
  BY TypeParts DEF IInv, Request
<1>2. PICK p \in rtodo[r] :
          /\ valued' = [valued EXCEPT ![p[1]] = @ \cup {p[2]}]
          /\ IF rtodo[r] = {p} THEN End(r) ELSE Loop(r, "insert", rtodo[r] \ {p})
  BY DEF InsertAttributeValues
<1>3. /\ rpc[r] = "insert" /\ UNCHANGED <<assets, keyed, locked, single, history, bounds>>
  BY DEF InsertAttributeValues
<1>4. p \in Keys \X Values /\ p \in rwant[r]
  BY <1>1, <1>2 DEF Shape, TypeOK, Pairs
<1>5. /\ row' = row /\ spent' = spent /\ visual' = visual /\ attrs' = attrs /\ shown' = shown
      /\ closed' = closed /\ excused' = excused
  BY <1>3 DEF assets, history
<1>6. AssetTypes' /\ MetadataTypes'
  BY <1>1, <1>2, <1>3, <1>4, <1>5 DEF AssetTypes, MetadataTypes, TypeOK
<1>7. LockedVocabulary'
  <2>1. \A k \in Keys : valued'[k] \subseteq valued[k] \cup Of(rwant[r], k)
    BY <1>1, <1>2, <1>4 DEF Of, TypeOK
  <2>2. \A k \in Keys : Used(k)' = Used(k)
    BY <1>5 DEF Used, Of
  <2>3. \A k \in locked : Vocabulary(k)' \subseteq Vocabulary(k) \cup Of(rwant[r], k)
    BY <1>1, <2>1, <2>2 DEF Vocabulary, TypeOK
  <2>4. QED
    BY <1>3, <1>5, <2>3, WriteLocked DEF Past, PC
<1>8. Others(r) /\ RequestTypes' /\ Request(r)' /\ (rop'[r] = None \/ Same(r))
  <2>1. CASE End(r)
    BY <1>1, <2>1, EndFacts
  <2>2. CASE Loop(r, "insert", rtodo[r] \ {p})
    <3>1. "insert" \in PC /\ "insert" \in Past /\ rtodo[r] \ {p} \in SUBSET rwant[r]
          /\ rtodo[r] \ {p} \in SUBSET Pairs
      BY <1>1 DEF PC, Past, Shape, TypeOK
    <3>2. Same(r) /\ rpc'[r] = "insert" /\ rtodo'[r] = rtodo[r] \ {p}
          /\ rkeys' = rkeys /\ rkey' = rkey
      BY <1>1, <2>2, <3>1, LoopFacts
    <3>3. Shape(r)'
      BY <1>1, <1>3, <3>1, <3>2 DEF Shape, OneKey, Past, PC, Same
    <3>4. QED
      BY <1>3, <1>5, <2>2, <3>1, <3>3, LoopRequest
  <2>3. QED
    BY <1>2, <2>1, <2>2
<1>9. QED
  BY <1>3, <1>5, <1>6, <1>7, <1>8, WriteBeside

LEMMA InsertAttributeKeyInv ==
    ASSUME IInv, NEW r \in Requests, InsertAttributeKey(r)
    PROVE  IInv'
<1>1. TypeOK /\ RequestTypes /\ Shape(r) /\ LockedVocabulary
  BY TypeParts DEF IInv, Request
<1>2. /\ rpc[r] = "insert_key" /\ keyed' = keyed \cup {rkey[r]} /\ End(r)
      /\ UNCHANGED <<assets, valued, locked, single, history, bounds>>
  BY DEF InsertAttributeKey
<1>3. /\ row' = row /\ spent' = spent /\ visual' = visual /\ attrs' = attrs /\ shown' = shown
      /\ closed' = closed /\ excused' = excused
  BY <1>2 DEF assets, history
<1>4. AssetTypes' /\ MetadataTypes'
  BY <1>1, <1>2, <1>3 DEF AssetTypes, MetadataTypes, TypeOK, Shape
<1>5. LockedVocabulary'
  BY <1>1, <1>2, <1>3 DEF LockedVocabulary, Vocabulary, Used, Of
<1>6. Others(r) /\ RequestTypes' /\ Request(r)' /\ rop'[r] = None
  BY <1>1, <1>2, EndFacts
<1>7. QED
  BY <1>2, <1>3, <1>4, <1>5, <1>6, WriteBeside

LEMMA VisualRowInv == ASSUME IInv, NEW r \in Requests, VisualRow(r) PROVE IInv'
<1>1. TypeOK /\ RequestTypes /\ Shape(r) /\ LockedVocabulary
  BY TypeParts DEF IInv, Request
<1>2. /\ rpc[r] = "v_row" /\ visual' = visual \cup rids[r]
      /\ shown' = [a \in Assets |-> IF a \in rids[r] THEN {} ELSE shown[a]]
      /\ IF rwant[r] = {} THEN End(r) ELSE Loop(r, "v_attrs", rwant[r])
      /\ UNCHANGED <<row, spent, attrs, metadata, history, bounds>>
  BY DEF VisualRow
<1>3. /\ keyed' = keyed /\ valued' = valued /\ locked' = locked /\ single' = single
      /\ closed' = closed /\ excused' = excused
  BY <1>2 DEF metadata, history
<1>4. AssetTypes' /\ MetadataTypes'
  BY <1>1, <1>2, <1>3 DEF AssetTypes, MetadataTypes, TypeOK
<1>5. LockedVocabulary'
  <2>1. \A k : Used(k)' \subseteq Used(k)
    BY <1>2 DEF Used, Of
  <2>2. QED
    BY <1>1, <1>3, <2>1 DEF LockedVocabulary, Vocabulary
<1>6. Others(r) /\ RequestTypes' /\ Request(r)' /\ (rop'[r] = None \/ Same(r))
  <2>1. CASE End(r)
    BY <1>1, <2>1, EndFacts
  <2>2. CASE Loop(r, "v_attrs", rwant[r])
    <3>1. "v_attrs" \in PC /\ "v_attrs" \in Past /\ "v_row" \in Past /\ rwant[r] \in SUBSET Pairs
      BY <1>1 DEF PC, Past, TypeOK
    <3>2. Same(r) /\ rpc'[r] = "v_attrs" /\ rtodo'[r] = rwant[r]
          /\ rkeys' = rkeys /\ rkey' = rkey
      BY <1>1, <2>2, <3>1, LoopFacts
    <3>3. Shape(r)'
      BY <1>1, <1>2, <3>1, <3>2 DEF Shape, OneKey, Past, PC, Same
    <3>4. QED
      BY <1>2, <1>3, <2>2, <3>1, <3>3, LoopRequest
  <2>3. QED
    BY <1>2, <2>1, <2>2
<1>7. QED
  BY <1>2, <1>3, <1>4, <1>5, <1>6, WriteBeside

LEMMA CopyAttributeInv == ASSUME IInv, NEW r \in Requests, CopyAttribute(r) PROVE IInv'
<1>1. TypeOK /\ RequestTypes /\ Shape(r) /\ LockedVocabulary
  BY TypeParts DEF IInv, Request
<1>2. /\ rpc[r] = "v_attrs" /\ UNCHANGED <<row, spent, visual, attrs, metadata, history, bounds>>
  BY DEF CopyAttribute
<1>3. /\ keyed' = keyed /\ valued' = valued /\ locked' = locked /\ single' = single
      /\ closed' = closed /\ excused' = excused
  BY <1>2 DEF metadata, history
<1>4. ASSUME End(r), UNCHANGED shown PROVE IInv'
  BY <1>2, <1>4, EndQuiet DEF assets
<1>5. ASSUME NEW p \in rtodo[r],
             shown' = [a \in Assets |-> IF a \in rids[r] THEN shown[a] \cup {p} ELSE shown[a]],
             IF rtodo[r] = {p} THEN End(r) ELSE Loop(r, "v_attrs", rtodo[r] \ {p})
      PROVE  IInv'
  <2>1. p \in Pairs /\ p \in rwant[r]
    BY <1>1 DEF Shape, TypeOK
  <2>2. AssetTypes' /\ MetadataTypes'
    BY <1>1, <1>2, <1>3, <1>5, <2>1 DEF AssetTypes, MetadataTypes, TypeOK
  <2>3. LockedVocabulary'
    <3>1. \A k : \A a \in Assets : Of(shown'[a], k) \subseteq Of(shown[a], k) \cup Of(rwant[r], k)
      BY <1>5, <2>1 DEF Of
    <3>2. \A k : Used(k)' \subseteq Used(k) \cup Of(rwant[r], k)
      <4>1. ASSUME NEW k, NEW v \in Values, NEW a \in Assets,
                   v \in Of(attrs[a], k) \cup Of(shown'[a], k)
            PROVE  v \in Used(k) \cup Of(rwant[r], k)
        BY <3>1, <4>1 DEF Used
      <4>2. QED
        BY <1>2, <4>1 DEF Used, Of
    <3>3. \A k \in locked : Vocabulary(k)' \subseteq Vocabulary(k) \cup Of(rwant[r], k)
      BY <1>3, <3>2 DEF Vocabulary
    <3>4. QED
      BY <1>2, <1>3, <3>3, WriteLocked DEF Past, PC
  <2>4. Others(r) /\ RequestTypes' /\ Request(r)' /\ (rop'[r] = None \/ Same(r))
    <3>1. CASE End(r)
      BY <1>1, <3>1, EndFacts
    <3>2. CASE Loop(r, "v_attrs", rtodo[r] \ {p})
      <4>1. "v_attrs" \in PC /\ "v_attrs" \in Past /\ rtodo[r] \ {p} \in SUBSET rwant[r]
            /\ rtodo[r] \ {p} \in SUBSET Pairs
        BY <1>1 DEF PC, Past, Shape, TypeOK
      <4>2. Same(r) /\ rpc'[r] = "v_attrs" /\ rtodo'[r] = rtodo[r] \ {p}
            /\ rkeys' = rkeys /\ rkey' = rkey
        BY <1>1, <3>2, <4>1, LoopFacts
      <4>3. Shape(r)'
        BY <1>1, <1>2, <4>1, <4>2 DEF Shape, OneKey, Past, PC, Same
      <4>4. QED
        BY <1>2, <1>3, <3>2, <4>1, <4>3, LoopRequest
    <3>3. QED
      BY <1>5, <3>1, <3>2
  <2>5. QED
    BY <1>2, <1>3, <2>2, <2>3, <2>4, WriteBeside
<1>6. QED
  BY <1>4, <1>5 DEF CopyAttribute

LEMMA CreateRowInv == ASSUME IInv, NEW r \in Requests, CreateRow(r) PROVE IInv'
<1>1. TypeOK /\ RequestTypes /\ Shape(r) /\ LockedVocabulary /\ SingleValued /\ Rows
  BY TypeParts DEF IInv, Request
<1>2. /\ rpc[r] = "row" /\ row' = row \cup rids[r] /\ Loop(r, "attrs", rwant[r])
      /\ UNCHANGED <<spent, visual, attrs, shown, metadata, history, bounds>>
  BY DEF CreateRow
<1>3. /\ keyed' = keyed /\ valued' = valued /\ locked' = locked /\ single' = single
      /\ closed' = closed /\ excused' = excused
  BY <1>2 DEF metadata, history
<1>4. \A a \in rids[r] : a \in Assets /\ attrs[a] = {}
  BY <1>1, <1>2 DEF Shape, Rows, TypeOK
<1>5. AssetTypes' /\ MetadataTypes'
  BY <1>1, <1>2, <1>3, <1>4 DEF AssetTypes, MetadataTypes, TypeOK
<1>6. LockedVocabulary'
  BY <1>1, <1>2, <1>3 DEF LockedVocabulary, Vocabulary, Used, Of
<1>7. SingleValued'
  BY <1>1, <1>2, <1>3, <1>4 DEF SingleValued, Several, Of
<1>8. Others(r) /\ RequestTypes' /\ Same(r) /\ Request(r)'
  <2>1. "attrs" \in PC /\ "attrs" \in Past /\ "row" \in Past /\ rwant[r] \in SUBSET Pairs
    BY <1>1 DEF PC, Past, TypeOK
  <2>2. Same(r) /\ rpc'[r] = "attrs" /\ rtodo'[r] = rwant[r] /\ rkeys' = rkeys /\ rkey' = rkey
    BY <1>1, <1>2, <2>1, LoopFacts
  <2>3. Shape(r)'
    BY <1>1, <1>2, <2>1, <2>2, CatalogAssumption DEF Shape, OneKey, Past, PC, Same, Ops
  <2>4. \A a \in rids[r], k \in single : Of(attrs'[a], k) = {}
    BY <1>2, <1>4 DEF Of
  <2>5. QED
    BY <1>2, <1>3, <2>1, <2>3, <2>4, LoopRequest
<1>9. /\ row' \subseteq row \cup rids[r] /\ rop[r] = "upload"
      /\ \A a \in Assets \ row' : attrs'[a] = {}
      /\ excused' \subseteq Assets \X Keys
  BY <1>1, <1>2, <1>3 DEF Shape, Rows, TypeOK
<1>10. \A q \in Requests \ {r} : WritesSingle(q)'
  BY <1>2, <1>3, <1>8, OthersSingle
<1>11. QED
  BY <1>2, <1>3, <1>5, <1>6, <1>7, <1>8, <1>9, <1>10, Write

LEMMA InsertAttributeInv == ASSUME IInv, NEW r \in Requests, InsertAttribute(r) PROVE IInv'
<1>1. /\ TypeOK /\ RequestTypes /\ Shape(r) /\ WritesSingle(r) /\ LockedVocabulary
      /\ SingleValued /\ Rows
  BY TypeParts DEF IInv, Request
<1>2. /\ rpc[r] = "attrs" /\ UNCHANGED <<row, spent, visual, shown, metadata, closed, bounds>>
  BY DEF InsertAttribute
<1>3. /\ keyed' = keyed /\ valued' = valued /\ locked' = locked /\ single' = single
      /\ closed' = closed
  BY <1>2 DEF metadata
<1>4. /\ rop[r] = "upload" /\ rkeys[r] = {} /\ rids[r] \in SUBSET Assets
      /\ rwant[r] \in SUBSET Pairs /\ rtodo[r] \subseteq rwant[r]
  BY <1>1, <1>2 DEF Shape, TypeOK, Past, PC
<1>5. ASSUME End(r), UNCHANGED <<attrs, excused>> PROVE IInv'
  BY <1>2, <1>5, EndQuiet DEF assets, history
<1>6. ASSUME rids[r] \subseteq row, NEW p \in rtodo[r],
             attrs' = [a \in Assets |-> IF a \in rids[r] THEN attrs[a] \cup {p} ELSE attrs[a]],
             Writes(r, rids[r], FALSE),
             \/ Loop(r, "attrs", rtodo[r] \ {p})
             \/ Loop(r, "v_row", {})
             \/ End(r)
      PROVE  IInv'
  <2>1. p \in Pairs /\ p \in rwant[r]
    BY <1>4
  <2>2. /\ excused \subseteq excused' /\ excused' \subseteq Assets \X Keys
    BY <1>1, <1>4, <1>6, WritesFacts DEF Writes
  <2>3. AssetTypes' /\ MetadataTypes'
    BY <1>1, <1>2, <1>3, <1>6, <2>1 DEF AssetTypes, MetadataTypes, TypeOK
  <2>4. \A a \in Assets : \A k :
           /\ a \notin rids[r] => Of(attrs'[a], k) = Of(attrs[a], k)
           /\ Of(rwant[r], k) = {} => Of(attrs'[a], k) = Of(attrs[a], k)
           /\ Of(attrs'[a], k) \subseteq Of(attrs[a], k) \cup Of(rwant[r], k)
    BY <1>6, <2>1 DEF Of
  <2>5. ASSUME NEW a \in rids[r], NEW k \in single,
               <<a, k>> \notin excused', Of(rwant[r], k) # {}
        PROVE  /\ Of(attrs'[a], k) \subseteq Of(rwant[r], k)
               /\ ~ Several(rwant[r], k)
    <3>1. Of(attrs[a], k) \subseteq Of(rwant[r], k) /\ ~ Several(rwant[r], k)
      BY <1>1, <1>2, <1>4, <2>2, <2>5 DEF WritesSingle, HasRead
    <3>2. QED
      BY <1>4, <2>4, <3>1
  <2>6. LockedVocabulary'
    <3>1. \A k \in Keys : Used(k)' \subseteq Used(k) \cup Of(rwant[r], k)
      <4>1. ASSUME NEW k \in Keys, NEW v \in Values, NEW a \in Assets,
                   v \in Of(attrs'[a], k) \cup Of(shown[a], k)
            PROVE  v \in Used(k) \cup Of(rwant[r], k)
        BY <2>4, <4>1 DEF Used
      <4>2. QED
        BY <1>2, <4>1 DEF Used, Of
    <3>2. \A k \in locked : Vocabulary(k)' \subseteq Vocabulary(k) \cup Of(rwant[r], k)
      BY <1>1, <1>3, <3>1 DEF Vocabulary, TypeOK
    <3>3. QED
      BY <1>2, <1>3, <3>2, WriteLocked DEF Past, PC
  <2>7. SingleValued'
    <3>1. SUFFICES ASSUME NEW k \in single, NEW a \in row, Several(attrs'[a], k),
                          <<a, k>> \notin excused'
                   PROVE  FALSE
      BY <1>2, <1>3 DEF SingleValued, Several, Of
    <3>2. a \in Assets
      BY <1>1 DEF TypeOK
    <3>3. CASE a \in rids[r] /\ Of(rwant[r], k) # {}
      BY <2>5, <3>1, <3>3 DEF Several
    <3>4. CASE ~ (a \in rids[r] /\ Of(rwant[r], k) # {})
      <4>1. Several(attrs[a], k)
        BY <2>4, <3>1, <3>2, <3>4 DEF Several
      <4>2. QED
        BY <1>1, <2>2, <3>1, <4>1 DEF SingleValued
    <3>5. QED
      BY <3>3, <3>4
  <2>8. Others(r) /\ RequestTypes' /\ Request(r)' /\ (rop'[r] = None \/ Same(r))
    <3>1. CASE End(r)
      BY <1>1, <3>1, EndFacts
    <3>2. ASSUME NEW pc \in {"attrs", "v_row"}, NEW rows \in SUBSET rtodo[r], Loop(r, pc, rows)
          PROVE  Others(r) /\ RequestTypes' /\ Request(r)' /\ Same(r)
      <4>1. pc \in PC /\ pc \in Past /\ "attrs" \in Past /\ rows \in SUBSET rwant[r]
            /\ rows \in SUBSET Pairs
        BY <1>4 DEF PC, Past
      <4>2. Same(r) /\ rpc'[r] = pc /\ rtodo'[r] = rows /\ rkeys' = rkeys /\ rkey' = rkey
        BY <1>1, <3>2, <4>1, LoopFacts
      <4>3. Shape(r)'
        BY <1>1, <1>2, <4>1, <4>2, CatalogAssumption DEF Shape, OneKey, Past, PC, Same, Ops
      <4>4. QED
        BY <1>2, <1>3, <2>2, <2>5, <3>2, <4>1, <4>3, LoopRequest
    <3>3. QED
      BY <1>6, <3>1, <3>2
  <2>9. \A a \in Assets, k \in Keys :
           \/ Of(attrs'[a], k) = Of(attrs[a], k)
           \/ a \in rids[r] /\ (Of(rwant[r], k) # {} \/ k = rkey[r])
    BY <2>4
  <2>10. \A q \in Requests \ {r} : WritesSingle(q)'
    BY <1>3, <1>4, <1>6, <2>8, <2>9, WriteSingle
  <2>11. \A a \in Assets \ row' : attrs'[a] = {}
    BY <1>1, <1>2, <1>6 DEF Rows
  <2>12. rop'[r] = "upload" => Same(r)
    BY <2>8, CatalogAssumption DEF Ops
  <2>13. QED
    BY <1>2, <1>3, <1>4, <2>2, <2>3, <2>6, <2>7, <2>8, <2>10, <2>11, <2>12, Write
<1>7. QED
  BY <1>5, <1>6 DEF InsertAttribute

LEMMA StepInv == ASSUME IInv, NEW r \in Requests, Step(r) PROVE IInv'
<1>1. Refuse(r) => IInv'
  BY EndQuiet DEF Refuse
<1>2. QED
  BY <1>1, ReadMetadataInv, ValidatedInv, FirstAssetInv, ReadRulesAgainInv, CountConflictsInv,
     ApplyValuesInv, CountUsesInv, CountKeyRowsInv, StartValuesInv, InsertAttributeValuesInv,
     NewKeyInv, InsertAttributeKeyInv, StampableInv, CreateRowInv, InsertAttributeInv,
     VisualRowInv, CopyAttributeInv DEF Step

-----------------------------------------------------------------------------
(* Deletions and settings, while requests are where they are.              *)

LEMMA Set ==
    ASSUME IInv, UNCHANGED <<requests, spent>>, row' \subseteq row,
           AssetTypes', MetadataTypes', HistoryTypes', BoundTypes',
           \A a \in Assets \ row' : attrs'[a] = {},
           LockedVocabulary', SingleValued',
           \A r \in Requests : WritesClosed(r)' /\ WritesSingle(r)'
    PROVE  IInv'
<1>1. TypeOK /\ RequestTypes /\ Rows
  BY TypeParts DEF IInv
<1>2. /\ rpc' = rpc /\ rop' = rop /\ rids' = rids /\ rwant' = rwant /\ rkeys' = rkeys
      /\ rkey' = rkey /\ rules' = rules /\ rtodo' = rtodo /\ spent' = spent
  BY DEF requests
<1>3. RequestTypes'
  BY <1>1, <1>2 DEF RequestTypes
<1>4. TypeOK'
  BY <1>3 DEF TypeOK, AssetTypes, MetadataTypes, RequestTypes, HistoryTypes, BoundTypes
<1>5. Rows'
  BY <1>1, <1>2 DEF Rows
<1>6. ASSUME NEW r \in Requests PROVE Shape(r)'
  <2>1. Shape(r)
    BY DEF IInv, Request
  <2>2. rids[r] \cap row = {} => rids[r] \cap row' = {}
    OBVIOUS
  <2>3. QED
    BY <1>2, <2>1, <2>2 DEF Shape
<1>7. QED
  BY <1>4, <1>5, <1>6 DEF IInv, Request

\* Rows of attributes that go make nothing wrong.
LEMMA FewerSingle ==
    ASSUME IInv, UNCHANGED <<requests, excused>>, single' \subseteq single,
           \A a \in Assets : attrs'[a] \subseteq attrs[a], NEW r \in Requests
    PROVE  WritesSingle(r)'
<1>1. WritesSingle(r) /\ TypeOK
  BY DEF IInv, Request
<1>2. /\ rpc' = rpc /\ rop' = rop /\ rids' = rids /\ rwant' = rwant /\ rkeys' = rkeys
      /\ rkey' = rkey /\ rules' = rules /\ excused' = excused
  BY DEF requests
<1>3. \A k : /\ Of(rwant[r], k)' = Of(rwant[r], k)
             /\ Several(rwant[r], k)' <=> Several(rwant[r], k)
             /\ HasRead(r, k)' <=> HasRead(r, k)
  BY <1>2 DEF Of, Several, HasRead
<1>4. \A a \in rids[r] : \A k : Of(attrs[a], k)' \subseteq Of(attrs[a], k)
  BY <1>1 DEF Of, TypeOK
<1>5. QED
  BY <1>1, <1>2, <1>3, <1>4 DEF WritesSingle

LEMMA FewerSingleValued ==
    ASSUME IInv, row' \subseteq row, single' \subseteq single, excused' = excused,
           \A a \in Assets : attrs'[a] \subseteq attrs[a]
    PROVE  SingleValued'
<1>1. TypeOK /\ SingleValued
  BY DEF IInv
<1>2. ASSUME NEW a \in row, NEW k, Several(attrs[a], k)' PROVE Several(attrs[a], k)
  BY <1>1, <1>2 DEF TypeOK, Several, Of
<1>3. QED
  BY <1>1, <1>2 DEF SingleValued

\* Nothing that a request may write has become more, and no key less.
LEMMA StillClosed ==
    ASSUME IInv, UNCHANGED requests, locked' \subseteq locked,
           \A k \in locked : closed[k] \subseteq closed'[k], NEW r \in Requests
    PROVE  WritesClosed(r)'
<1>1. WritesClosed(r)
  BY DEF IInv, Request
<1>2. rpc' = rpc /\ rwant' = rwant /\ rkeys' = rkeys /\ rkey' = rkey /\ rules' = rules
  BY DEF requests
<1>3. QED
  BY <1>1, <1>2 DEF WritesClosed, HasRead, Doubts

LEMMA DeleteAssetInv == ASSUME IInv, NEW a \in Assets, DeleteAsset(a) PROVE IInv'
<1>1. TypeOK /\ Rows /\ LockedVocabulary
  BY DEF IInv
<1>2. /\ row' = row \ {a} /\ visual' = visual \ {a}
      /\ attrs' = [attrs EXCEPT ![a] = {}] /\ shown' = [shown EXCEPT ![a] = {}]
      /\ UNCHANGED <<spent, metadata, requests, history, bounds>>
  BY DEF DeleteAsset
<1>3. /\ keyed' = keyed /\ valued' = valued /\ locked' = locked /\ single' = single
      /\ closed' = closed /\ excused' = excused /\ asked' = asked /\ settings' = settings
      /\ spent' = spent
  BY <1>2 DEF metadata, history, bounds
<1>4. AssetTypes' /\ MetadataTypes' /\ HistoryTypes' /\ BoundTypes'
  BY <1>1, <1>2, <1>3 DEF AssetTypes, MetadataTypes, HistoryTypes, BoundTypes, TypeOK
<1>5. \A b \in Assets : attrs'[b] \subseteq attrs[b] /\ shown'[b] \subseteq shown[b]
  BY <1>1, <1>2 DEF TypeOK
<1>6. \A b \in Assets \ row' : attrs'[b] = {}
  BY <1>1, <1>2 DEF TypeOK, Rows
<1>7. LockedVocabulary'
  <2>1. \A k : Used(k)' \subseteq Used(k)
    BY <1>5 DEF Used, Of
  <2>2. QED
    BY <1>1, <1>3, <2>1 DEF LockedVocabulary, Vocabulary
<1>8. SingleValued' /\ row' \subseteq row
  BY <1>2, <1>3, <1>5, FewerSingleValued
<1>9. \A r \in Requests : WritesClosed(r)' /\ WritesSingle(r)'
  BY <1>2, <1>3, <1>5, StillClosed, FewerSingle
<1>10. QED
  BY <1>2, <1>4, <1>6, <1>7, <1>8, <1>9, Set

LEMMA UpsertKeyTypes ==
    ASSUME IInv, NEW k \in Keys, UpsertKey(k), UNCHANGED valued,
           locked' \subseteq locked \cup {k}, single' \subseteq single \cup {k}
    PROVE  MetadataTypes'
BY DEF IInv, TypeOK, MetadataTypes, UpsertKey

LEMMA SettingBound == ASSUME TypeOK, Setting PROVE settings' \in 0 .. MaxSettings
BY CatalogAssumption DEF TypeOK, Setting

\* What requests may still write is counted among what a key is locked with.
LEMMA LockedInv ==
    ASSUME IInv, NEW k \in Keys, NEW lock \in BOOLEAN, SetAttributeValuesLocked(k, lock)
    PROVE  IInv'
<1>1. TypeOK /\ Rows /\ LockedVocabulary
  BY DEF IInv
<1>2. /\ Setting /\ UpsertKey(k)
      /\ locked' = IF lock THEN locked \cup {k} ELSE locked \ {k}
      /\ closed' = IF lock /\ k \notin locked
                   THEN [closed EXCEPT ![k] = Vocabulary(k) \cup Pending(k)] ELSE closed
      /\ UNCHANGED <<assets, valued, single, requests, excused, asked>>
  BY DEF SetAttributeValuesLocked
<1>3. /\ row' = row /\ spent' = spent /\ visual' = visual /\ attrs' = attrs /\ shown' = shown
      /\ valued' = valued /\ single' = single /\ excused' = excused /\ asked' = asked
  BY <1>2 DEF assets
<1>4. Vocabulary(k) \cup Pending(k) \in SUBSET Values
  BY <1>1 DEF Vocabulary, Used, Pending, TypeOK
<1>5. AssetTypes' /\ MetadataTypes' /\ HistoryTypes' /\ BoundTypes'
  BY <1>1, <1>2, <1>3, <1>4, UpsertKeyTypes, SettingBound
     DEF AssetTypes, HistoryTypes, BoundTypes, TypeOK
<1>6. \A l \in locked' : closed'[l] = IF l \in locked THEN closed[l]
                                      ELSE Vocabulary(l) \cup Pending(l)
  <2>1. \A l \in locked' : l \in locked \/ l = k
    BY <1>2
  <2>2. closed \in [Keys -> SUBSET Values] /\ locked \subseteq Keys
    BY <1>1 DEF TypeOK
  <2>3. QED
    BY <1>2, <2>1, <2>2
<1>7. LockedVocabulary'
  <2>1. \A l : Vocabulary(l)' = Vocabulary(l)
    BY <1>3 DEF Vocabulary, Used, Of
  <2>2. QED
    BY <1>1, <1>6, <2>1 DEF LockedVocabulary
<1>8. SingleValued'
  BY <1>3, FewerSingleValued
<1>9. ASSUME NEW r \in Requests PROVE WritesClosed(r)'
  <2>1. WritesClosed(r)
    BY DEF IInv, Request
  <2>2. /\ rpc' = rpc /\ rwant' = rwant /\ rkeys' = rkeys /\ rkey' = rkey /\ rules' = rules
    BY <1>2 DEF requests
  <2>3. \A l, v : v \in Values /\ <<l, v>> \in rwant[r] /\ HasRead(r, l) => v \in Pending(l)
    BY DEF Pending
  <2>4. QED
    BY <1>6, <2>1, <2>2, <2>3 DEF WritesClosed, HasRead, Doubts
<1>10. \A r \in Requests : WritesSingle(r)'
  BY <1>2, <1>3, FewerSingle
<1>11. \A b \in Assets \ row' : attrs'[b] = {}
  BY <1>1, <1>3 DEF Rows
<1>12. QED
  BY <1>2, <1>3, <1>5, <1>7, <1>8, <1>9, <1>10, <1>11, Set

\* A key becomes single: assets that have, or may be about to get, several
\* values are excused, and no others.
LEMMA MultiInv ==
    ASSUME IInv, NEW k \in Keys, NEW multi \in BOOLEAN, SetAttributeMulti(k, multi)
    PROVE  IInv'
<1> DEFINE met(a) == Several(attrs[a], k) \/ \E r \in Requests : Threat(r, a, k)
<1>1. TypeOK /\ Rows /\ LockedVocabulary /\ SingleValued
  BY DEF IInv
<1>2. /\ Setting /\ UpsertKey(k)
      /\ single' = IF multi THEN single \ {k} ELSE single \cup {k}
      /\ excused' = IF multi \/ k \in single THEN excused
                    ELSE (excused \ (Assets \X {k})) \cup ({a \in Assets : met(a)} \X {k})
      /\ UNCHANGED <<assets, valued, locked, requests, closed, asked>>
  BY DEF SetAttributeMulti
<1>3. /\ row' = row /\ spent' = spent /\ visual' = visual /\ attrs' = attrs /\ shown' = shown
      /\ valued' = valued /\ locked' = locked /\ closed' = closed /\ asked' = asked
  BY <1>2 DEF assets
<1>4. excused' \subseteq Assets \X Keys
  BY <1>1, <1>2 DEF TypeOK
<1>5. AssetTypes' /\ MetadataTypes' /\ HistoryTypes' /\ BoundTypes'
  BY <1>1, <1>2, <1>3, <1>4, UpsertKeyTypes, SettingBound
     DEF AssetTypes, HistoryTypes, BoundTypes, TypeOK
<1>6. ASSUME NEW a \in Assets, NEW l \in single', <<a, l>> \notin excused'
      PROVE  \/ l \in single /\ <<a, l>> \notin excused
             \/ l = k /\ ~ met(a)
  BY <1>1, <1>2, <1>6
<1>7. LockedVocabulary'
  BY <1>1, <1>3 DEF LockedVocabulary, Vocabulary, Used, Of
<1>8. SingleValued'
  <2>1. \A a \in row, l \in single' : Several(attrs[a], l) => <<a, l>> \in excused'
    BY <1>1, <1>6 DEF SingleValued, TypeOK
  <2>2. QED
    BY <1>3, <2>1 DEF SingleValued, Several, Of
<1>9. \A r \in Requests : WritesClosed(r)'
  BY <1>2, <1>3, StillClosed
<1>10. ASSUME NEW r \in Requests PROVE WritesSingle(r)'
  <2>1. WritesSingle(r)
    BY DEF IInv, Request
  <2>2. /\ rpc' = rpc /\ rop' = rop /\ rids' = rids /\ rwant' = rwant /\ rkeys' = rkeys
        /\ rkey' = rkey /\ rules' = rules
    BY <1>2 DEF requests
  <2>3. \A l : /\ Of(rwant[r], l)' = Of(rwant[r], l)
               /\ Several(rwant[r], l)' <=> Several(rwant[r], l)
               /\ HasRead(r, l)' <=> HasRead(r, l)
    BY <2>2 DEF Of, Several, HasRead
  <2>4. \A a, l : Of(attrs[a], l)' = Of(attrs[a], l)
    BY <1>3 DEF Of
  <2>5. ASSUME NEW a \in rids[r], NEW l \in single', rop[r] # "visual",
               <<a, l>> \notin excused', Of(rwant[r], l) # {}
        PROVE  /\ Several(rwant[r], l) /\ HasRead(r, l) =>
                     rpc[r] = "used" /\ rkey[r] = l /\ rules[r].one
               /\ rop[r] = "add" /\ rpc[r] = "apply" =>
                     \A v \in Of(attrs[a], l) : Of(rwant[r], l) \subseteq {v}
               /\ rop[r] = "upload" /\ rpc[r] = "attrs" =>
                     Of(attrs[a], l) \subseteq Of(rwant[r], l)
    <3>1. a \in Assets
      BY <1>1 DEF TypeOK
    <3>2. CASE l = k /\ ~ met(a)
      BY <2>5, <3>1, <3>2 DEF Threat
    <3>3. CASE l \in single /\ <<a, l>> \notin excused
      BY <2>1, <2>5, <3>3 DEF WritesSingle
    <3>4. QED
      BY <1>6, <2>5, <3>1, <3>2, <3>3
  <2>6. QED
    BY <2>2, <2>3, <2>4, <2>5 DEF WritesSingle
<1>11. \A b \in Assets \ row' : attrs'[b] = {}
  BY <1>1, <1>3 DEF Rows
<1>12. QED
  BY <1>2, <1>3, <1>5, <1>7, <1>8, <1>9, <1>10, <1>11, Set

LEMMA KeyPresentationInv == ASSUME IInv, NEW k \in Keys, SetKeyPresentation(k) PROVE IInv'
<1>1. TypeOK /\ Rows /\ LockedVocabulary
  BY DEF IInv
<1>2. /\ UpsertKey(k)
      /\ UNCHANGED <<assets, valued, locked, single, requests, history, bounds>>
  BY DEF SetKeyPresentation
<1>3. /\ row' = row /\ spent' = spent /\ visual' = visual /\ attrs' = attrs /\ shown' = shown
      /\ closed' = closed /\ excused' = excused /\ asked' = asked /\ settings' = settings
  BY <1>2 DEF assets, history, bounds
<1>4. AssetTypes' /\ MetadataTypes' /\ HistoryTypes' /\ BoundTypes'
  BY <1>1, <1>2, <1>3, UpsertKeyTypes DEF AssetTypes, HistoryTypes, BoundTypes, TypeOK
<1>5. LockedVocabulary'
  BY <1>1, <1>2, <1>3 DEF LockedVocabulary, Vocabulary, Used, Of
<1>6. SingleValued'
  BY <1>2, <1>3, FewerSingleValued
<1>7. \A r \in Requests : WritesClosed(r)' /\ WritesSingle(r)'
  BY <1>2, <1>3, StillClosed, FewerSingle
<1>8. \A b \in Assets \ row' : attrs'[b] = {}
  BY <1>1, <1>3 DEF Rows
<1>9. QED
  BY <1>2, <1>3, <1>4, <1>5, <1>6, <1>7, <1>8, Set

LEMMA ValuePresentationInv ==
    ASSUME IInv, NEW k \in Keys, NEW v \in Values, SetValuePresentation(k, v)
    PROVE  IInv'
<1>1. TypeOK /\ Rows /\ LockedVocabulary
  BY DEF IInv
<1>2. /\ Setting /\ valued' = [valued EXCEPT ![k] = @ \cup {v}]
      /\ closed' = [closed EXCEPT ![k] = @ \cup {v}]
      /\ UNCHANGED <<assets, keyed, locked, single, requests, excused, asked>>
  BY DEF SetValuePresentation
<1>3. /\ row' = row /\ spent' = spent /\ visual' = visual /\ attrs' = attrs /\ shown' = shown
  BY <1>2 DEF assets
<1>4. AssetTypes' /\ MetadataTypes' /\ HistoryTypes' /\ BoundTypes'
  BY <1>1, <1>2, <1>3, SettingBound
     DEF AssetTypes, MetadataTypes, HistoryTypes, BoundTypes, TypeOK
<1>5. \A l \in Keys : closed[l] \subseteq closed'[l]
  BY <1>1, <1>2 DEF TypeOK
<1>6. LockedVocabulary'
  <2>1. \A l : Used(l)' = Used(l)
    BY <1>3 DEF Used, Of
  <2>2. \A l \in locked : valued[l] \cup Used(l) \subseteq closed[l] /\ l \in Keys
    BY <1>1 DEF LockedVocabulary, Vocabulary, TypeOK
  <2>3. \A l \in locked : valued'[l] \cup Used(l) \subseteq closed'[l]
    BY <1>1, <1>2, <2>2 DEF TypeOK
  <2>4. QED
    BY <1>2, <2>1, <2>3 DEF LockedVocabulary, Vocabulary
<1>7. SingleValued'
  BY <1>2, <1>3, FewerSingleValued
<1>8. \A r \in Requests : WritesClosed(r)' /\ WritesSingle(r)'
  BY <1>1, <1>2, <1>3, <1>5, StillClosed, FewerSingle DEF TypeOK
<1>9. \A b \in Assets \ row' : attrs'[b] = {}
  BY <1>1, <1>3 DEF Rows
<1>10. QED
  BY <1>2, <1>3, <1>4, <1>6, <1>7, <1>8, <1>9, Set

\* The value leaves the vocabulary, and what the key may hold with it, but
\* for what requests may still write.
LEMMA DeleteValueInv ==
    ASSUME IInv, NEW k \in Keys, NEW v \in Values, DeleteAttributeValue(k, v)
    PROVE  IInv'
<1>1. TypeOK /\ Rows /\ LockedVocabulary
  BY DEF IInv
<1>2. /\ Setting
      /\ attrs' = [a \in Assets |-> attrs[a] \ {<<k, v>>}]
      /\ shown' = [a \in Assets |-> shown[a] \ {<<k, v>>}]
      /\ valued' = [valued EXCEPT ![k] = @ \ {v}]
      /\ closed' = [closed EXCEPT ![k] = @ \ ({v} \ Pending(k))]
      /\ UNCHANGED <<row, spent, visual, keyed, locked, single, requests, excused, asked>>
  BY DEF DeleteAttributeValue
<1>3. \A l \in Keys, w \in Values :
         w \in closed[l] /\ w \notin closed'[l] => l = k /\ w = v /\ v \notin Pending(k)
  BY <1>1, <1>2 DEF TypeOK
<1>4. AssetTypes' /\ MetadataTypes' /\ HistoryTypes' /\ BoundTypes'
  BY <1>1, <1>2, SettingBound DEF AssetTypes, MetadataTypes, HistoryTypes, BoundTypes, TypeOK
<1>5. \A a \in Assets : attrs'[a] \subseteq attrs[a] /\ shown'[a] \subseteq shown[a]
  BY <1>2
<1>6. LockedVocabulary'
  <2>1. \A l \in Keys : Used(l)' \subseteq Used(l)
    BY <1>5 DEF Used, Of
  <2>2. v \notin Used(k)'
    BY <1>2 DEF Used, Of
  <2>3. \A l \in Keys : valued'[l] \subseteq valued[l]
    BY <1>1, <1>2 DEF TypeOK
  <2>4. v \notin valued'[k]
    BY <1>1, <1>2 DEF TypeOK
  <2>5. \A l \in locked : l \in Keys /\ valued[l] \cup Used(l) \subseteq closed[l]
                          /\ valued[l] \cup Used(l) \subseteq Values
    BY <1>1 DEF LockedVocabulary, Vocabulary, TypeOK, Used
  <2>6. \A l \in locked : valued'[l] \cup Used(l)' \subseteq closed'[l]
    BY <1>3, <2>1, <2>2, <2>3, <2>4, <2>5
  <2>7. QED
    BY <1>2, <2>6 DEF LockedVocabulary, Vocabulary
<1>7. SingleValued'
  BY <1>2, <1>5, FewerSingleValued
<1>8. ASSUME NEW r \in Requests PROVE WritesClosed(r)'
  <2>1. WritesClosed(r)
    BY DEF IInv, Request
  <2>2. /\ rpc' = rpc /\ rwant' = rwant /\ rkeys' = rkeys /\ rkey' = rkey /\ rules' = rules
    BY <1>2 DEF requests
  <2>3. \A l, w : w \in Values /\ <<l, w>> \in rwant[r] /\ HasRead(r, l) => w \in Pending(l)
    BY DEF Pending
  <2>4. locked \subseteq Keys /\ locked' = locked
    BY <1>1, <1>2 DEF TypeOK
  <2>5. QED
    BY <1>3, <2>1, <2>2, <2>3, <2>4 DEF WritesClosed, HasRead, Doubts
<1>9. \A r \in Requests : WritesSingle(r)'
  BY <1>2, <1>5, FewerSingle
<1>10. \A b \in Assets \ row' : attrs'[b] = {}
  BY <1>1, <1>2, <1>5 DEF Rows
<1>11. QED
  BY <1>2, <1>4, <1>6, <1>7, <1>8, <1>9, <1>10, Set

LEMMA DeleteKeyInv == ASSUME IInv, NEW k \in Keys, DeleteAttributeKey(k) PROVE IInv'
<1>1. TypeOK /\ Rows /\ LockedVocabulary
  BY DEF IInv
<1>2. /\ Setting
      /\ attrs' = [a \in Assets |-> attrs[a] \ ({k} \X Values)]
      /\ shown' = [a \in Assets |-> shown[a] \ ({k} \X Values)]
      /\ valued' = [valued EXCEPT ![k] = {}]
      /\ keyed' = keyed \ {k} /\ locked' = locked \ {k} /\ single' = single \ {k}
      /\ UNCHANGED <<row, spent, visual, requests, history, asked>>
  BY DEF DeleteAttributeKey
<1>3. closed' = closed /\ excused' = excused
  BY <1>2 DEF history
<1>4. AssetTypes' /\ MetadataTypes' /\ HistoryTypes' /\ BoundTypes'
  BY <1>1, <1>2, <1>3, SettingBound
     DEF AssetTypes, MetadataTypes, HistoryTypes, BoundTypes, TypeOK
<1>5. \A a \in Assets : attrs'[a] \subseteq attrs[a] /\ shown'[a] \subseteq shown[a]
  BY <1>2
<1>6. LockedVocabulary'
  <2>1. \A l : Used(l)' \subseteq Used(l)
    BY <1>5 DEF Used, Of
  <2>2. \A l \in Keys : valued'[l] \subseteq valued[l]
    BY <1>1, <1>2 DEF TypeOK
  <2>3. QED
    BY <1>1, <1>2, <1>3, <2>1, <2>2 DEF LockedVocabulary, Vocabulary, TypeOK
<1>7. SingleValued'
  BY <1>2, <1>3, <1>5, FewerSingleValued
<1>8. \A r \in Requests : WritesClosed(r)' /\ WritesSingle(r)'
  BY <1>2, <1>3, <1>5, StillClosed, FewerSingle
<1>9. \A b \in Assets \ row' : attrs'[b] = {}
  BY <1>1, <1>2, <1>5 DEF Rows
<1>10. QED
  BY <1>2, <1>4, <1>6, <1>7, <1>8, <1>9, Set

-----------------------------------------------------------------------------

LEMMA InitInv == Init => IInv
<1> SUFFICES ASSUME Init PROVE IInv
  OBVIOUS
<1>1. TypeOK
  <2>1. [k \in Keys |-> Vocabulary(k)] \in [Keys -> SUBSET Values]
    BY DEF Init, Vocabulary, Used
  <2>2. NoRules \in Rules /\ "idle" \in PC
    BY DEF NoRules, Rules, PC
  <2>3. QED
    BY <2>1, <2>2, CatalogAssumption DEF Init, TypeOK
<1>2. Rows
  BY CatalogAssumption DEF Init, Rows, Ops
<1>3. LockedVocabulary
  BY <1>1 DEF Init, LockedVocabulary, TypeOK
<1>4. SingleValued
  <2>1. ASSUME NEW k \in single, NEW a \in row, Several(attrs[a], k)
        PROVE  <<a, k>> \in excused
    <3>1. <<a, k>> \in Assets \X Keys /\ <<a, k>>[1] = a /\ <<a, k>>[2] = k
      BY <1>1 DEF TypeOK
    <3>2. QED
      BY <2>1, <3>1 DEF Init
  <2>2. QED
    BY <2>1 DEF SingleValued
<1>5. ASSUME NEW r \in Requests PROVE Request(r)
  <2>1. /\ rpc[r] = "idle" /\ rop[r] = None /\ rids[r] = {} /\ rwant[r] = {}
        /\ rkeys[r] = {} /\ rtodo[r] = {}
    BY DEF Init
  <2>2. Shape(r)
    BY <2>1, CatalogAssumption DEF Shape, Past, OneKey, Ops
  <2>3. WritesClosed(r) /\ WritesSingle(r)
    BY <2>1 DEF WritesClosed, WritesSingle
  <2>4. QED
    BY <2>2, <2>3 DEF Request
<1>6. QED
  BY <1>1, <1>2, <1>3, <1>4, <1>5 DEF IInv

LEMMA NextInv == IInv /\ [Next]_vars => IInv'
<1> SUFFICES ASSUME IInv, [Next]_vars PROVE IInv'
  OBVIOUS
<1>1. ASSUME NEW r \in Requests, Ask(r) \/ Step(r) PROVE IInv'
  BY <1>1, AskInv, StepInv
<1>2. ASSUME NEW a \in Assets, DeleteAsset(a) PROVE IInv'
  BY <1>2, DeleteAssetInv
<1>3. ASSUME NEW k \in Keys, KeySetting(k) PROVE IInv'
  BY <1>3, LockedInv, MultiInv, KeyPresentationInv, DeleteKeyInv DEF KeySetting
<1>4. ASSUME NEW k \in Keys, ValueSetting(k) PROVE IInv'
  BY <1>4, ValuePresentationInv, DeleteValueInv DEF ValueSetting
<1>5. CASE UNCHANGED vars
  <2>1. UNCHANGED <<assets, metadata, requests, history, bounds>>
    BY <1>5 DEF vars
  <2>2. /\ row' = row /\ spent' = spent /\ visual' = visual /\ attrs' = attrs /\ shown' = shown
        /\ keyed' = keyed /\ valued' = valued /\ locked' = locked /\ single' = single
        /\ closed' = closed /\ excused' = excused /\ asked' = asked /\ settings' = settings
    BY <2>1 DEF assets, metadata, history, bounds
  <2>3. TypeOK /\ Rows /\ LockedVocabulary
    BY DEF IInv
  <2>4. AssetTypes' /\ MetadataTypes' /\ HistoryTypes' /\ BoundTypes'
    BY <2>2, <2>3 DEF AssetTypes, MetadataTypes, HistoryTypes, BoundTypes, TypeOK
  <2>5. LockedVocabulary' /\ SingleValued'
    BY <2>2, <2>3, FewerSingleValued DEF LockedVocabulary, Vocabulary, Used, Of
  <2>6. \A r \in Requests : WritesClosed(r)' /\ WritesSingle(r)'
    BY <2>1, <2>2, StillClosed, FewerSingle
  <2>7. \A b \in Assets \ row' : attrs'[b] = {}
    BY <2>2, <2>3 DEF Rows
  <2>8. QED
    BY <2>1, <2>2, <2>4, <2>5, <2>6, <2>7, Set
<1>6. QED
  BY <1>1, <1>2, <1>3, <1>4, <1>5 DEF Next

\* The inductive invariant: what every request in flight may still write
\* obeys the rules as much as what is stored.
THEOREM CatalogInvariance == Spec => []IInv
<1>1. QED
  BY InitInv, NextInv, PTL DEF Spec

\* The variables keep their types; a rule is set only for a key with a row.
THEOREM CatalogTypes == Spec => []TypeOK
<1>1. IInv => TypeOK
  BY DEF IInv
<1>2. QED
  BY <1>1, CatalogInvariance, PTL

\* For any assets, keys, values and requests in flight, and however often
\* rules change: a locked key holds nothing that it was not locked with,
\* given since by an administrator, or about to get from a checked request.
THEOREM LockedKeysHold == Spec => []LockedVocabulary
<1>1. IInv => LockedVocabulary
  BY DEF IInv
<1>2. QED
  BY <1>1, CatalogInvariance, PTL

\* Likewise, an asset has several values of a single key only if it had
\* them, or was about to, when the key became single, or two writes met.
THEOREM SingleKeysHold == Spec => []SingleValued
<1>1. IInv => SingleValued
  BY DEF IInv
<1>2. QED
  BY <1>1, CatalogInvariance, PTL
=============================================================================
