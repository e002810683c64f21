--------------------------- MODULE AttributeCatalog ---------------------------
(***************************************************************************)
(* Attributes of assets and the vocabulary they are taken from.            *)
(*                                                                         *)
(*   service/asset_service.go     rules, assignments, uploads, settings    *)
(*   service/preview_asset.go     the copy of the attributes on a visual   *)
(*   store/attribute.go           rows of asset_attributes                 *)
(*   store/attribute_metadata.go  rows of attributes_metadata              *)
(*                                                                         *)
(* A key may be locked (no new values) or single (one value per asset).    *)
(* A handler reads these rules, and what is in use, in statements of their *)
(* own and writes later: an action is one SQL statement, or one            *)
(* transaction, since the database has a single connection.  Attributes    *)
(* are pairs of a key and a value; labels, colors, order and the other     *)
(* presentation columns are left out, the rows they create are not.        *)
(***************************************************************************)
EXTENDS Naturals

CONSTANTS
    Assets,      \* ids of originals (an id is used once)
    Keys,        \* attribute keys
    Values,      \* attribute values
    Requests,    \* requests that can be in flight at the same time
    None,        \* no key
    MaxAsks,     \* bound: requests about assets and new vocabulary
    MaxSettings  \* bound: changes of metadata by administrators

\* What a request can be about.
Ops == {"set", "add", "replace", "values", "create", "upload", "visual"}

ASSUME CatalogAssumption ==
    None \notin Keys \cup Ops /\ MaxAsks \in Nat /\ MaxSettings \in Nat

VARIABLES
    row,      \* originals with a row
    spent,    \* ids an upload has taken
    visual,   \* originals with a derived visual
    attrs,    \* attributes of each original
    shown,    \* attributes of its visual
    keyed,    \* keys with a key-level row
    valued,   \* values of each key with a row of their own
    locked,   \* keys with values_locked
    single,   \* keys with multi = 0
    rpc,      \* what each request is about to do
    rop,      \* what it was asked for
    rids,     \* the assets it is about
    rwant,    \* the attributes it writes
    rkeys,    \* keys whose rules it has yet to read
    rkey,     \* the key whose rules it is reading
    rules,    \* what it has read of them
    rtodo,    \* rows its loop has yet to insert
    closed,   \* history: what a locked key may hold
    excused,  \* history: assets that may hold several values of a single key
    asked, settings  \* how much of the bounds is used

assets   == <<row, spent, visual, attrs, shown>>
metadata == <<keyed, valued, locked, single>>
requests == <<rpc, rop, rids, rwant, rkeys, rkey, rules, rtodo>>
history  == <<closed, excused>>
bounds   == <<asked, settings>>
vars     == <<assets, metadata, requests, history, bounds>>

Pairs == Keys \X Values
PC    == {"idle", "count", "key_row", "rules", "used", "first", "again",
          "conflict", "apply", "insert", "insert_key", "row", "attrs",
          "v_row", "v_attrs"}
Rules == [some : BOOLEAN, lock : BOOLEAN, one : BOOLEAN, allowed : SUBSET Values]
NoRules == [some |-> FALSE, lock |-> FALSE, one |-> FALSE, allowed |-> {}]

TypeOK ==
    /\ row \subseteq Assets /\ spent \subseteq Assets /\ visual \subseteq Assets
    /\ attrs \in [Assets -> SUBSET Pairs] /\ shown \in [Assets -> SUBSET Pairs]
    /\ keyed \subseteq Keys /\ valued \in [Keys -> SUBSET Values]
    /\ locked \subseteq keyed /\ single \subseteq keyed
    /\ rpc \in [Requests -> PC] /\ rop \in [Requests -> Ops \cup {None}]
    /\ rids \in [Requests -> SUBSET Assets]
    /\ rwant \in [Requests -> SUBSET Pairs] /\ rtodo \in [Requests -> SUBSET Pairs]
    /\ rkeys \in [Requests -> SUBSET Keys]
    /\ rkey \in [Requests -> Keys \cup {None}]
    /\ rules \in [Requests -> Rules]
    /\ closed \in [Keys -> SUBSET Values] /\ excused \subseteq Assets \X Keys
    /\ asked \in 0 .. MaxAsks /\ settings \in 0 .. MaxSettings

-----------------------------------------------------------------------------
(* Rows, requests and what the history variables record.                   *)

Of(S, k) == {v \in Values : <<k, v>> \in S}

\* The DISTINCT values of asset_attributes: originals and visuals alike.
Used(k) == {v \in Values :
              \E a \in Assets : v \in Of(attrs[a], k) \cup Of(shown[a], k)}

Vocabulary(k) == valued[k] \cup Used(k)

Several(S, k) == \E v, w \in Of(S, k) : v # w

\* Any library: with or without a row for a key, rules set or not, values
\* described or only used, visuals that lack attributes or show old ones.
Init ==
    /\ row \in SUBSET Assets /\ spent = row /\ visual \in SUBSET row
    /\ attrs \in [Assets -> SUBSET Pairs] /\ shown \in [Assets -> SUBSET Pairs]
    /\ \A a \in Assets \ row : attrs[a] = {}
    /\ \A a \in Assets \ visual : shown[a] = {}
    /\ keyed \in SUBSET Keys /\ valued \in [Keys -> SUBSET Values]
    /\ locked \in SUBSET keyed /\ single \in SUBSET keyed
    /\ rpc = [r \in Requests |-> "idle"] /\ rop = [r \in Requests |-> None]
    /\ rids = [r \in Requests |-> {}]
    /\ rwant = [r \in Requests |-> {}] /\ rtodo = [r \in Requests |-> {}]
    /\ rkeys = [r \in Requests |-> {}] /\ rkey = [r \in Requests |-> None]
    /\ rules = [r \in Requests |-> NoRules]
    /\ closed = [k \in Keys |-> Vocabulary(k)]
    /\ excused = {c \in Assets \X Keys : Several(attrs[c[1]], c[2])}
    /\ asked = 0 /\ settings = 0

\* r has read the rules of k, or needs none (a visual copies what there is).
HasRead(r, k) == k \notin rkeys[r]

\* Values of k that requests which have read its rules may still write.
Pending(k) == {v \in Values :
                 \E r \in Requests : <<k, v>> \in rwant[r] /\ HasRead(r, k)}

\* A request that is past its checks and can leave a with several values of k.
Threat(r, a, k) ==
    /\ a \in rids[r] /\ rop[r] # "visual"
    /\ \/ Several(rwant[r], k) /\ HasRead(r, k)
       \/ Of(rwant[r], k) # {} /\ rop[r] = "add" /\ rpc[r] = "apply"
       \/ Of(rwant[r], k) # {} /\ rop[r] = "upload" /\ rpc[r] = "attrs"

\* r writes rows of the originals ids: who else is about to do so?
Writes(r, ids, clean) ==
    LET cells == {c \in ids \X Keys : Of(rwant[r], c[2]) # {} \/ c[2] = rkey[r]}
        met(c) == \E q \in Requests \ {r} : Threat(q, c[1], c[2])
    IN  excused' = (excused \ {c \in cells : clean /\ ~ Several(rwant[r], c[2])})
                     \cup {c \in cells : met(c)}

Goto(r, pc) ==
    /\ rpc' = [rpc EXCEPT ![r] = pc]
    /\ UNCHANGED <<rop, rids, rwant, rkeys, rkey, rules, rtodo>>

Begin(r, pc, op, ids, want, keys) ==
    /\ rpc[r] = "idle" /\ asked < MaxAsks /\ asked' = asked + 1
    /\ rpc' = [rpc EXCEPT ![r] = pc]
    /\ rop' = [rop EXCEPT ![r] = op]
    /\ rids' = [rids EXCEPT ![r] = ids]
    /\ rwant' = [rwant EXCEPT ![r] = want]
    /\ rkeys' = [rkeys EXCEPT ![r] = keys]
    /\ UNCHANGED <<rkey, rules, rtodo>>

End(r) ==
    /\ rpc' = [rpc EXCEPT ![r] = "idle"]
    /\ rop' = [rop EXCEPT ![r] = None]
    /\ rids' = [rids EXCEPT ![r] = {}]
    /\ rwant' = [rwant EXCEPT ![r] = {}]
    /\ rkeys' = [rkeys EXCEPT ![r] = {}]
    /\ rkey' = [rkey EXCEPT ![r] = None]
    /\ rules' = [rules EXCEPT ![r] = NoRules]
    /\ rtodo' = [rtodo EXCEPT ![r] = {}]

Loop(r, pc, rows) ==
    /\ rpc' = [rpc EXCEPT ![r] = pc]
    /\ rtodo' = [rtodo EXCEPT ![r] = rows]
    /\ UNCHANGED <<rop, rids, rwant, rkeys, rkey, rules>>

\* The rules have been applied and are forgotten.
Pass(r, pc, rows) ==
    /\ rpc' = [rpc EXCEPT ![r] = pc]
    /\ rules' = [rules EXCEPT ![r] = NoRules]
    /\ rtodo' = [rtodo EXCEPT ![r] = rows]
    /\ UNCHANGED <<rop, rids, rwant, rkeys, rkey>>

-----------------------------------------------------------------------------
(* The rules of a key: two statements, the metadata and then what is used. *)

\* A key to read the rules of; an upload may stamp several.
ReadMetadata(r) ==
    /\ rpc[r] = "rules"
    /\ \E k \in rkeys[r] :
          /\ rkey' = [rkey EXCEPT ![r] = k]
          /\ rkeys' = [rkeys EXCEPT ![r] = @ \ {k}]
          /\ rules' = [rules EXCEPT ![r] =
                         [some |-> k \in keyed \/ valued[k] # {},
                          lock |-> k \in locked, one |-> k \in single,
                          allowed |-> valued[k]]]
    /\ rpc' = [rpc EXCEPT ![r] = "used"]
    /\ UNCHANGED <<rop, rids, rwant, rtodo, assets, metadata, history, bounds>>

\* What the request may write, had it read everything at once.
Exists(r)  == rules[r].some \/ Used(rkey[r]) # {}
Allowed(r) == rules[r].allowed \cup Used(rkey[r])
Wanted(r)  == Of(rwant[r], rkey[r])

\* Slip: the lock is looked at only when the key has no values in use.
AssignableUsed(r) ==
    /\ rules[r].one => ~ Several(rwant[r], rkey[r])
    /\ rules[r].lock /\ Used(rkey[r]) = {} => Wanted(r) \subseteq Allowed(r)

\* No new value under a lock, and not several values of a single key.
\* The capability (or, for uploads, the instance's switch) can refuse new
\* values and keys as well, which is a refusal like any other.
Assignable(r) ==
    /\ rules[r].one => ~ Several(rwant[r], rkey[r])
    /\ rules[r].lock => Wanted(r) \subseteq Allowed(r)

Refuse(r) ==
    /\ rpc[r] = "used"
    /\ \/ rop[r] \in {"set", "add", "replace"} /\ ~ Exists(r)
       \/ rop[r] \in {"set", "add", "replace"} /\ ~ Assignable(r)
       \/ rop[r] = "upload" /\ ~ Assignable(r)
       \/ rop[r] \in {"set", "add", "replace", "upload"}
             /\ ~ Wanted(r) \subseteq Allowed(r)
       \/ rop[r] = "upload" /\ ~ Exists(r)
       \/ rop[r] = "values" /\ rules[r].lock
       \/ rop[r] = "create" /\ Exists(r)
    /\ End(r)
    /\ UNCHANGED <<assets, metadata, history, bounds>>

\* validateAttributeAssignment lets the write go on.
Validated(r) ==
    /\ rpc[r] = "used" /\ rop[r] \in {"set", "add", "replace"}
    /\ Exists(r) /\ Assignable(r)
    /\ Pass(r, CASE rop[r] = "set" -> "first"
                 [] rop[r] = "add" -> "again"
                 [] rop[r] = "replace" -> "apply", {})
    /\ UNCHANGED <<assets, metadata, history, bounds>>

-----------------------------------------------------------------------------
(* Assignments: one asset, or one key on many.                             *)

SetAssetAttributeValues(r, a, k, vs) ==
    /\ a \in row
    /\ Begin(r, "rules", "set", {a}, {k} \X vs, {k})
    /\ UNCHANGED <<assets, metadata, history, settings>>

\* The asset is looked up after the validation and before the transaction.
FirstAsset(r) ==
    /\ rpc[r] = "first"
    /\ IF rids[r] \subseteq row THEN Goto(r, "apply") ELSE End(r)
    /\ UNCHANGED <<assets, metadata, history, bounds>>

\* Adding nothing is answered at once.
ApplyAssetAttributesBulk(r, ids, k, vs, mode) ==
    /\ ids # {} /\ ids \subseteq row
    /\ mode \in {"add", "replace"} /\ (mode = "add" => vs # {})
    /\ Begin(r, "rules", mode, ids, {k} \X vs, {k})
    /\ UNCHANGED <<assets, metadata, history, settings>>

\* The rules are read once more, for the cardinality alone.
ReadRulesAgain(r) ==
    /\ rpc[r] = "again"
    /\ Goto(r, IF rkey[r] \in single THEN "conflict" ELSE "apply")
    /\ UNCHANGED <<assets, metadata, history, bounds>>

\* Slip: only assets that already have several values are conflicts.
CountSeveral(r) ==
    /\ rpc[r] = "conflict"
    /\ IF \A a \in rids[r] : ~ Several(attrs[a], rkey[r])
       THEN Goto(r, "apply") ELSE End(r)
    /\ UNCHANGED <<assets, metadata, history, bounds>>

\* Rows with another value than the first one asked for are conflicts.
CountConflicts(r) ==
    /\ rpc[r] = "conflict"
    /\ \E first \in Wanted(r) :
          IF \A a \in rids[r] : Of(attrs[a], rkey[r]) \subseteq {first}
          THEN Goto(r, "apply") ELSE End(r)
    /\ UNCHANGED <<assets, metadata, history, bounds>>

\* ReplaceAssetAttributeKey, or AddAssetAttributeKeyValues.
Merge(r, S) == IF rop[r] = "add" THEN S \cup rwant[r]
               ELSE (S \ ({rkey[r]} \X Values)) \cup rwant[r]

\* The transaction over the assets and their visuals; a row that is gone
\* breaks the foreign key of an inserted one and undoes it all.
ApplyValues(r) ==
    /\ rpc[r] = "apply"
    /\ IF rwant[r] # {} /\ ~ rids[r] \subseteq row
       THEN UNCHANGED <<attrs, shown, excused>>
       ELSE LET ids == rids[r] \cap row
            IN  /\ attrs' = [a \in Assets |->
                      IF a \in ids THEN Merge(r, attrs[a]) ELSE attrs[a]]
                /\ shown' = [a \in Assets |->
                      IF a \in rids[r] \cap visual THEN Merge(r, shown[a])
                      ELSE shown[a]]
                /\ Writes(r, ids, rop[r] # "add")
    /\ End(r)
    /\ UNCHANGED <<row, spent, visual, metadata, closed, bounds>>

-----------------------------------------------------------------------------
(* New values and new keys.                                                *)

AddAttributeValues(r, k, vs) ==
    /\ vs # {}
    /\ Begin(r, "count", "values", {}, {k} \X vs, {k})
    /\ UNCHANGED <<assets, metadata, history, settings>>

\* A key without a row of its own is known by its use; values alone are not.
CountUses(r) ==
    /\ rpc[r] = "count"
    /\ \E k \in rkeys[r] :
          Goto(r, IF Used(k) # {} THEN "rules" ELSE "key_row")
    /\ UNCHANGED <<assets, metadata, history, bounds>>

CountKeyRows(r) ==
    /\ rpc[r] = "key_row"
    /\ IF rkeys[r] \subseteq keyed THEN Goto(r, "rules") ELSE End(r)
    /\ UNCHANGED <<assets, metadata, history, bounds>>

StartValues(r) ==
    /\ rpc[r] = "used" /\ rop[r] = "values" /\ ~ rules[r].lock
    /\ Pass(r, "insert", rwant[r])
    /\ UNCHANGED <<assets, metadata, history, bounds>>

\* One statement for each value, outside a transaction.
InsertAttributeValues(r) ==
    /\ rpc[r] = "insert"
    /\ \E p \in rtodo[r] :
          /\ valued' = [valued EXCEPT ![p[1]] = @ \cup {p[2]}]
          /\ IF rtodo[r] = {p} THEN End(r) ELSE Loop(r, "insert", rtodo[r] \ {p})
    /\ UNCHANGED <<assets, keyed, locked, single, history, bounds>>

CreateAttribute(r, k) ==
    /\ Begin(r, "rules", "create", {}, {}, {k})
    /\ UNCHANGED <<assets, metadata, history, settings>>

NewKey(r) ==
    /\ rpc[r] = "used" /\ rop[r] = "create" /\ ~ Exists(r)
    /\ Pass(r, "insert_key", {})
    /\ UNCHANGED <<assets, metadata, history, bounds>>

\* A plain INSERT: the row of a key that has appeared meanwhile is kept.
InsertAttributeKey(r) ==
    /\ rpc[r] = "insert_key"
    /\ keyed' = keyed \cup {rkey[r]}
    /\ End(r)
    /\ UNCHANGED <<assets, valued, locked, single, history, bounds>>

-----------------------------------------------------------------------------
(* Uploads: the attributes a token stamps on what is uploaded with it.     *)

StampUpload(r, a, want) ==
    /\ a \notin spent /\ want # {}
    /\ spent' = spent \cup {a}
    /\ Begin(r, "rules", "upload", {a}, want, {p[1] : p \in want})
    /\ UNCHANGED <<row, visual, attrs, shown, metadata, history, settings>>

\* The next key of the stamp, or the file and the row.
Stampable(r) ==
    /\ rpc[r] = "used" /\ rop[r] = "upload" /\ Assignable(r)
    /\ Pass(r, IF rkeys[r] = {} THEN "row" ELSE "rules", {})
    /\ UNCHANGED <<assets, metadata, history, bounds>>

CreateRow(r) ==
    /\ rpc[r] = "row"
    /\ row' = row \cup rids[r]
    /\ Loop(r, "attrs", rwant[r])
    /\ UNCHANGED <<spent, visual, attrs, shown, metadata, history, bounds>>

\* ReplaceAssetAttributes, one INSERT at a time; a failure takes the new row
\* back.  Then the visual, unless the file is an image.
InsertAttribute(r) ==
    /\ rpc[r] = "attrs"
    /\ IF rids[r] \subseteq row
       THEN \E p \in rtodo[r] :
              /\ attrs' = [a \in Assets |->
                    IF a \in rids[r] THEN attrs[a] \cup {p} ELSE attrs[a]]
              /\ Writes(r, rids[r], FALSE)
              /\ \/ rtodo[r] # {p} /\ Loop(r, "attrs", rtodo[r] \ {p})
                 \/ rtodo[r] = {p} /\ Loop(r, "v_row", {})
                 \/ rtodo[r] = {p} /\ End(r)
       ELSE End(r) /\ UNCHANGED <<attrs, excused>>
    /\ UNCHANGED <<row, spent, visual, shown, metadata, closed, bounds>>

\* A lazy generation has loaded the asset without its attributes.
RefreshVisual(r, a, lazy) ==
    /\ a \in row /\ (lazy => a \notin visual)
    /\ Begin(r, "v_row", "visual", {a}, IF lazy THEN {} ELSE attrs[a], {})
    /\ UNCHANGED <<assets, metadata, history, settings>>

\* The row, and the DELETE of what it had.  (AssetLifecycle has the statements
\* apart; here an asset has at most one visual.)
VisualRow(r) ==
    /\ rpc[r] = "v_row"
    /\ visual' = visual \cup rids[r]
    /\ shown' = [a \in Assets |-> IF a \in rids[r] THEN {} ELSE shown[a]]
    /\ IF rwant[r] = {} THEN End(r) ELSE Loop(r, "v_attrs", rwant[r])
    /\ UNCHANGED <<row, spent, attrs, metadata, history, bounds>>

CopyAttribute(r) ==
    /\ rpc[r] = "v_attrs"
    /\ IF rids[r] \subseteq visual
       THEN \E p \in rtodo[r] :
              /\ shown' = [a \in Assets |->
                    IF a \in rids[r] THEN shown[a] \cup {p} ELSE shown[a]]
              /\ IF rtodo[r] = {p} THEN End(r)
                 ELSE Loop(r, "v_attrs", rtodo[r] \ {p})
       ELSE End(r) /\ UNCHANGED shown
    /\ UNCHANGED <<row, spent, visual, attrs, metadata, history, bounds>>

\* The row and, by ON DELETE CASCADE, its attributes; its visual with it.
DeleteAsset(a) ==
    /\ a \in row
    /\ row' = row \ {a} /\ visual' = visual \ {a}
    /\ attrs' = [attrs EXCEPT ![a] = {}] /\ shown' = [shown EXCEPT ![a] = {}]
    /\ UNCHANGED <<spent, metadata, requests, history, bounds>>

-----------------------------------------------------------------------------
(* Settings: each is one upsert, which creates the row it does not find.   *)

Setting == settings < MaxSettings /\ settings' = settings + 1

\* Slip: an UPDATE, which changes nothing when there is no row.
UpdateKey(k) == UNCHANGED keyed

UpsertKey(k) == keyed' = keyed \cup {k}

\* The values of a key, and those still under way, when it is locked.
SetAttributeValuesLocked(k, lock) ==
    /\ Setting /\ UpsertKey(k)
    /\ locked' = IF lock THEN locked \cup {k} ELSE locked \ {k}
    /\ closed' = IF lock /\ k \notin locked
                 THEN [closed EXCEPT ![k] = Vocabulary(k) \cup Pending(k)]
                 ELSE closed
    /\ UNCHANGED <<assets, valued, single, requests, excused, asked>>

\* Assets with several values keep them when the key becomes single.
SetAttributeMulti(k, multi) ==
    /\ Setting /\ UpsertKey(k)
    /\ single' = IF multi THEN single \ {k} ELSE single \cup {k}
    /\ excused' = IF multi \/ k \in single THEN excused
                  ELSE (excused \ (Assets \X {k})) \cup
                       ({a \in Assets : \/ Several(attrs[a], k)
                                        \/ \E r \in Requests : Threat(r, a, k)} \X {k})
    /\ UNCHANGED <<assets, valued, locked, requests, closed, asked>>

\* Label, order, renderer, search and the other columns of the key's row.
SetKeyPresentation(k) ==
    /\ UpsertKey(k)
    /\ UNCHANGED <<assets, valued, locked, single, requests, history, bounds>>

\* A label, description, color or position of a value, known or not.
SetValuePresentation(k, v) ==
    /\ Setting
    /\ valued' = [valued EXCEPT ![k] = @ \cup {v}]
    /\ closed' = [closed EXCEPT ![k] = @ \cup {v}]
    /\ UNCHANGED <<assets, keyed, locked, single, requests, excused, asked>>

\* From every asset and from the metadata, in one transaction.  A request
\* that has been checked can still bring the value back.
DeleteAttributeValue(k, v) ==
    /\ Setting
    /\ attrs' = [a \in Assets |-> attrs[a] \ {<<k, v>>}]
    /\ shown' = [a \in Assets |-> shown[a] \ {<<k, v>>}]
    /\ valued' = [valued EXCEPT ![k] = @ \ {v}]
    /\ closed' = [closed EXCEPT ![k] = @ \ ({v} \ Pending(k))]
    /\ UNCHANGED <<row, spent, visual, keyed, locked, single, requests, excused, asked>>

DeleteAttributeKey(k) ==
    /\ Setting
    /\ attrs' = [a \in Assets |-> attrs[a] \ ({k} \X Values)]
    /\ shown' = [a \in Assets |-> shown[a] \ ({k} \X Values)]
    /\ valued' = [valued EXCEPT ![k] = {}]
    /\ keyed' = keyed \ {k} /\ locked' = locked \ {k} /\ single' = single \ {k}
    /\ UNCHANGED <<row, spent, visual, requests, history, asked>>

-----------------------------------------------------------------------------

Ask(r) ==
    \/ \E k \in Keys, vs \in SUBSET Values :
          \/ \E a \in Assets : SetAssetAttributeValues(r, a, k, vs)
          \/ \E ids \in SUBSET Assets, mode \in {"add", "replace"} :
                ApplyAssetAttributesBulk(r, ids, k, vs, mode)
          \/ AddAttributeValues(r, k, vs)
    \/ \E k \in Keys : CreateAttribute(r, k)
    \/ \E a \in Assets, want \in SUBSET Pairs : StampUpload(r, a, want)
    \/ \E a \in Assets, lazy \in BOOLEAN : RefreshVisual(r, a, lazy)

Step(r) ==
    \/ ReadMetadata(r) \/ Refuse(r) \/ Validated(r)
    \/ FirstAsset(r) \/ ReadRulesAgain(r) \/ CountConflicts(r) \/ ApplyValues(r)
    \/ CountUses(r) \/ CountKeyRows(r) \/ StartValues(r) \/ InsertAttributeValues(r)
    \/ NewKey(r) \/ InsertAttributeKey(r)
    \/ Stampable(r) \/ CreateRow(r) \/ InsertAttribute(r)
    \/ VisualRow(r) \/ CopyAttribute(r)

KeySetting(k) ==
    \/ \E b \in BOOLEAN : SetAttributeValuesLocked(k, b) \/ SetAttributeMulti(k, b)
    \/ SetKeyPresentation(k) \/ DeleteAttributeKey(k)

ValueSetting(k) ==
    \E v \in Values : SetValuePresentation(k, v) \/ DeleteAttributeValue(k, v)

Next ==
    \/ \E r \in Requests : Ask(r) \/ Step(r)
    \/ \E a \in Assets : DeleteAsset(a)
    \/ \E k \in Keys : KeySetting(k) \/ ValueSetting(k)

Spec == Init /\ [][Next]_vars

-----------------------------------------------------------------------------

\* A locked key holds nothing but what it held when it was locked, what an
\* administrator has described since, and what requests that had read the
\* rules before were about to write.  A deleted value comes back in no other
\* way, whether through an assignment, an upload or the copy on a visual.
LockedVocabulary == \A k \in locked : Vocabulary(k) \subseteq closed[k]

\* An asset has several values of a single key only if it had them, or was
\* about to get them from a request that was already checked, when the key
\* became single, or if two writes of the key overlapped on it.
SingleValued ==
    \A k \in single, a \in row : Several(attrs[a], k) => <<a, k>> \in excused
=============================================================================
