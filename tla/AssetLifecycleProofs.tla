------------------------- MODULE AssetLifecycleProofs -------------------------
(***************************************************************************)
(* Proofs about AssetLifecycle for any assets, visuals, contents and       *)
(* requests and any bound.  The properties speak of assets that nobody     *)
(* works on and are not inductive.  The invariant says of each asset that  *)
(* is worked on what its requests have yet to bring, to remove and to make *)
(* agree: who removes what is left (Left), who is alone (Alone), and how   *)
(* far the one that is alone has come (Progress).  Own keeps the visuals   *)
(* of different assets apart, so that a step touches one asset only        *)
(* (Frame), and each action is proved for that asset.                      *)
(***************************************************************************)
EXTENDS AssetLifecycle, TLAPS

\* Requests that write nothing of their asset yet, or only name it.
Aside == {"idle", "lk_find", "sc_update"}

Working(r, a) == rasset[r] = a /\ rpc[r] \notin Aside
Holding(a)    == held # None /\ held[1] = a

\* Steps with a visual in hand, and with a list of them.
WithVisual == {"v_row", "v_attrs", "v_over", "v_drop", "v_copy", "v_update", "v_gone"}
WithList   == {"v_file", "v_gone"}
WithData   == {"up_row", "up_attrs", "rp_save", "row", "colors", "get", "v_find", "v_save",
               "v_row", "v_attrs", "v_over", "v_drop", "v_copy", "v_update"}

Shape(r) ==
    /\ rpc[r] = "idle" <=> rasset[r] = None
    /\ rpc[r] \notin {"idle", "sc_update"} => rasset[r] \in born
    /\ rpc[r] = "sc_update" => rasset[r] \in born \cup Visuals
    /\ rpc[r] \in WithVisual => rvisual[r] # None
    /\ rpc[r] \notin WithVisual \cup WithList => rvisual[r] = None
    /\ rpc[r] \notin WithList => rlist[r] = {}
    /\ rpc[r] \in WithData => rdata[r] # None
    /\ rpc[r] \in {"rp_save", "rg_read", "row"} => rop[r] \in {"replace", "regenerate"}
    /\ rpc[r] = "lk_find" => rparent[r] \in {"video", "audio"}

\* r is about to write or to remove v, under some extension.
Mentions(r, v) == \E e \in Ext : rvisual[r] = <<v, e>> \/ <<v, e>> \in rlist[r]

\* Whoever mentions a visual works on the asset that the visual is of.
Own(r) ==
    \A v \in Visuals : Mentions(r, v) =>
       /\ vof[v] \in {rasset[r], None}
       /\ \A q \in Requests : Mentions(q, v) => rasset[q] = rasset[r]

\* The row appears once, and is gone for good when it goes.
Alive(r) ==
    /\ rpc[r] = "up_row" =>
          /\ row[rasset[r]] = None /\ file[rasset[r]] = rdata[r]
          /\ \A q \in Requests \ {r} : rasset[q] # rasset[r]
    /\ rpc[r] \in {"dl_cover", "dl_file"} => row[rasset[r]] = None
    /\ rpc[r] = "sc_update" => Exists(rasset[r]) \/ rasset[r] \in excused["cover"]

Born ==
    /\ \A a \in Assets \ born : file[a] = None /\ VisualsOf(a) = {}
    /\ scan \subseteq born
    /\ \A a \in Assets : Holding(a) => a \in born

\* No second generation, and no visual, while one stores its own.
Generating(r, a) == rasset[r] = a /\ rpc[r] \in {"v_save", "v_row"}
One(a) ==
    a \notin excused["one"] =>
       /\ \A v, w \in VisualsOf(a) : v = w
       /\ \A r \in Requests : Generating(r, a) =>
             VisualsOf(a) = {} /\ \A q \in Requests : Generating(q, a) => q = r

\* Requests that bring something of a back once its row is gone.
Brings(r, a) ==
    /\ rasset[r] = a
    /\ \/ rpc[r] \in {"rp_save", "lk_open", "v_find", "v_save", "v_row"}
       \/ rop[r] = "upload" /\ rpc[r] \in {"up_attrs", "colors"}

\* Requests that remove the file of a deleted asset, and a visual of it.
Removes(r, a) == rasset[r] = a /\ rpc[r] \in {"up_row", "dl_cover", "dl_file"}
Clears(r, a, v) ==
    /\ rasset[r] = a
    /\ \/ rpc[r] \in {"dl_cover", "dl_file", "v_list"}
       \/ rpc[r] \in WithList /\ \E e \in Ext : <<v, e>> \in rlist[r]
       \/ rpc[r] = "v_gone" /\ rvisual[r][1] = v

Left(a) ==
    a \in born \ excused["left"] /\ row[a] = None =>
       /\ \A r \in Requests : ~ Brings(r, a)
       /\ file[a] # None => \E r \in Requests : Removes(r, a)
       /\ \A v \in VisualsOf(a) : \E r \in Requests : Clears(r, a, v)

\* An asset that is not excused is worked on by one request or the backfill.
Alone(a) ==
    a \notin excused["stale"] =>
       \A r \in Requests : Working(r, a) =>
          ~ Holding(a) /\ \A q \in Requests : Working(q, a) => q = r

ColorsAgree(a) == colors[a] \in (IF IsImage(file[a]) THEN {file[a], None} ELSE {None})
Agrees(a) ==
    /\ row[a] = file[a] /\ ColorsAgree(a)
    /\ IF IsImage(file[a]) THEN VisualsOf(a) = {}
       ELSE \A v \in Newest(a) : vfile[<<v, vext[v]>>] = file[a]

Quiet(a) ==
    a \notin excused["stale"] /\ row[a] # None =>
       /\ (\A r \in Requests : ~ Working(r, a)) => Agrees(a)
       /\ Holding(a) => held[2] = file[a]

\* What the only request that works on an asset has brought about so far.
Stored  == {"up_attrs", "colors", "get", "v_find", "v_save", "v_row", "v_attrs", "v_over",
            "v_drop", "v_copy", "v_update", "v_list", "v_file", "v_gone"}
Colored == Stored \ {"up_attrs", "colors"}
Picture == {"v_find", "v_save", "v_row", "v_attrs", "v_over", "v_drop", "v_copy", "v_update"}
Progress(r) ==
    LET a == rasset[r]  v == rvisual[r][1]  e == ExtOf(rparent[r]) IN
    rpc[r] \notin Aside /\ a \notin excused["stale"] /\ row[a] # None =>
       /\ rpc[r] = "row" => file[a] = rdata[r]
       /\ rpc[r] \in Stored => row[a] = file[a] /\ file[a] = rdata[r]
       /\ rpc[r] \in Colored => ColorsAgree(a)
       /\ rpc[r] \in Picture => rparent[r] = MediaType[file[a]] /\ ~ IsImage(file[a])
       /\ rpc[r] \in {"v_list", "v_file", "v_gone"} => IsImage(file[a])
       /\ rpc[r] \in {"lk_get", "lk_open", "v_save", "v_row"} => VisualsOf(a) = {}
       /\ rpc[r] \in {"lk_get", "lk_open", "v_attrs", "dl_row"} => Agrees(a)
       /\ rpc[r] \in {"lk_get", "lk_open"} => rparent[r] = MediaType[row[a]] /\ ~ IsImage(row[a])
       /\ rpc[r] = "v_row" => rvisual[r][2] = e /\ vfile[rvisual[r]] = rdata[r]
       /\ rpc[r] \in {"v_over", "v_drop", "v_copy", "v_update"} => v \in Newest(a)
       /\ rpc[r] \in {"v_drop", "v_copy", "v_update"} => vfile[<<v, e>>] = rdata[r]
       /\ rpc[r] = "v_drop" => rvisual[r][2] # e
       /\ rpc[r] \in WithList =>
             \A w \in VisualsOf(a) : \/ \E x \in Ext : <<w, x>> \in rlist[r]
                                     \/ rpc[r] = "v_gone" /\ w = v

Request(r) == Shape(r) /\ Own(r) /\ Alive(r) /\ Progress(r)
Asset(a)   == One(a) /\ Left(a) /\ Alone(a) /\ Quiet(a)

IInv ==
    /\ TypeOK /\ Born /\ CoverExists
    /\ \A r \in Requests : Request(r)
    /\ \A a \in Assets : Asset(a)

-----------------------------------------------------------------------------
(* The parts of TypeOK, by the variables an action changes.                *)

OriginalTypes ==
    /\ born \subseteq Assets
    /\ file \in [Assets -> Contents \cup {None}]
    /\ row \in [Assets -> Contents \cup {None}]
    /\ \A a \in Assets : row[a] # None => a \in born
    /\ colors \in [Assets -> Contents \cup {None}]
    /\ \A a \in Assets : row[a] = None => colors[a] = None

VisualTypes ==
    /\ vof \in [Visuals -> Assets \cup {None}] /\ vext \in [Visuals -> Ext]
    /\ vfile \in [Visuals \X Ext -> Contents \cup {None}]

CoverTypes == cover \in Assets \cup Visuals \cup {None}

RequestTypes ==
    /\ rpc \in [Requests -> PC]
    /\ rasset \in [Requests -> Assets \cup Visuals \cup {None}]
    /\ rop \in [Requests -> Ops \cup {None}]
    /\ rdata \in [Requests -> Contents \cup {None}]
    /\ rparent \in [Requests -> Types \cup {None}]
    /\ rvisual \in [Requests -> (Visuals \X Ext) \cup {None}]
    /\ rlist \in [Requests -> SUBSET (Visuals \X Ext)]

ScanTypes == scan \subseteq Assets /\ held \in (Assets \X Contents) \cup {None}

HistoryTypes == excused \in [Promises -> SUBSET (Assets \cup Visuals)]

BoundTypes == asked \in 0 .. MaxAsks

LEMMA TypeParts ==
    TypeOK <=> /\ OriginalTypes /\ VisualTypes /\ CoverTypes /\ RequestTypes
               /\ ScanTypes /\ HistoryTypes /\ BoundTypes
BY DEF TypeOK, OriginalTypes, VisualTypes, CoverTypes, RequestTypes, ScanTypes,
       HistoryTypes, BoundTypes

LEMMA TypePartsNext ==
    TypeOK' <=> /\ OriginalTypes' /\ VisualTypes' /\ CoverTypes' /\ RequestTypes'
                /\ ScanTypes' /\ HistoryTypes' /\ BoundTypes'
BY DEF TypeOK, OriginalTypes, VisualTypes, CoverTypes, RequestTypes, ScanTypes,
       HistoryTypes, BoundTypes

\* The other requests stay where they are.
Others(r) ==
    \A q \in Requests \ {r} :
        /\ rpc'[q] = rpc[q] /\ rasset'[q] = rasset[q] /\ rop'[q] = rop[q]
        /\ rdata'[q] = rdata[q] /\ rparent'[q] = rparent[q]
        /\ rvisual'[q] = rvisual[q] /\ rlist'[q] = rlist[q]

-----------------------------------------------------------------------------
(* The helpers that move a request.                                        *)

LEMMA EndFacts ==
    ASSUME RequestTypes, NEW r \in Requests, End(r)
    PROVE  /\ Others(r) /\ RequestTypes'
           /\ rpc'[r] = "idle" /\ rasset'[r] = None /\ rop'[r] = None
           /\ rdata'[r] = None /\ rparent'[r] = None /\ rvisual'[r] = None
           /\ rlist'[r] = {} /\ Shape(r)' /\ \A v \in Visuals : ~ Mentions(r, v)'
<1>1. Others(r) /\ RequestTypes'
  BY DEF End, Others, RequestTypes, PC
<1>2. /\ rpc'[r] = "idle" /\ rasset'[r] = None /\ rop'[r] = None
      /\ rdata'[r] = None /\ rparent'[r] = None /\ rvisual'[r] = None /\ rlist'[r] = {}
  BY DEF End, RequestTypes
<1>3. Shape(r)'
  BY <1>2 DEF Shape, WithVisual, WithList, WithData
<1>4. \A v \in Visuals : ~ Mentions(r, v)'
  BY <1>2, LifecycleAssumption DEF Mentions, Ext
<1>5. QED
  BY <1>1, <1>2, <1>3, <1>4

LEMMA GotoFacts ==
    ASSUME RequestTypes, NEW r \in Requests, NEW pc \in PC, Goto(r, pc)
    PROVE  /\ Others(r) /\ RequestTypes' /\ rpc'[r] = pc
           /\ rasset' = rasset /\ rop' = rop /\ rdata' = rdata /\ rparent' = rparent
           /\ rvisual' = rvisual /\ rlist' = rlist
           /\ \A v : Mentions(r, v)' <=> Mentions(r, v)
BY DEF Goto, Others, RequestTypes, Mentions

LEMMA BeginFacts ==
    ASSUME RequestTypes, NEW r \in Requests, NEW pc \in PC, NEW op \in Ops,
           NEW a \in Assets, NEW data \in Contents \cup {None}, Begin(r, pc, op, a, data)
    PROVE  /\ Others(r) /\ RequestTypes' /\ rpc[r] = "idle"
           /\ rpc'[r] = pc /\ rasset'[r] = a /\ rop'[r] = op /\ rdata'[r] = data
           /\ rparent' = rparent /\ rvisual' = rvisual /\ rlist' = rlist
           /\ \A v : Mentions(r, v)' <=> Mentions(r, v)
BY DEF Begin, Others, RequestTypes, Mentions

LEMMA RefreshFacts ==
    ASSUME RequestTypes, NEW r \in Requests, NEW type \in Types \cup {None},
           NEW data \in Contents \cup {None}, Refresh(r, type, data)
    PROVE  /\ Others(r) /\ RequestTypes'
           /\ rpc'[r] = (IF type = "image" THEN "v_list" ELSE "v_find")
           /\ rdata'[r] = data /\ rparent'[r] = type
           /\ rasset' = rasset /\ rop' = rop /\ rvisual' = rvisual /\ rlist' = rlist
           /\ \A v : Mentions(r, v)' <=> Mentions(r, v)
BY DEF Refresh, Others, RequestTypes, PC, Mentions

LEMMA ExcuseFacts ==
    ASSUME HistoryTypes, NEW ps \in SUBSET Promises, NEW A \in SUBSET (Assets \cup Visuals), Excuse(ps, A)
    PROVE  /\ HistoryTypes'
           /\ \A p \in Promises : excused[p] \subseteq excused'[p]
           /\ \A p \in ps : A \subseteq excused'[p]
           /\ \A p \in Promises : excused'[p] \subseteq excused[p] \cup A
BY DEF Excuse, HistoryTypes

\* A failure is an excuse.
LEMMA ExcuseStale ==
    ASSUME HistoryTypes, NEW a \in Assets, Excuse({"stale"}, {a})
    PROVE  /\ HistoryTypes' /\ a \in excused'["stale"]
           /\ \A p \in Promises : excused[p] \subseteq excused'[p]
           /\ \A p \in Promises : excused'[p] \subseteq excused[p] \cup {a}
<1>1. {"stale"} \in SUBSET Promises /\ {a} \in SUBSET (Assets \cup Visuals)
  BY DEF Promises
<1>2. QED
  BY <1>1, ExcuseFacts

LEMMA EnterFacts ==
    ASSUME HistoryTypes, NEW r \in Requests, NEW a \in Assets, Enter(r, a)
    PROVE  /\ HistoryTypes'
           /\ \A p \in Promises \ {"stale"} : excused'[p] = excused[p]
           /\ a \in excused'["stale"] <=> Busy(r, a)
           /\ \A b \in Assets \ {a} : b \in excused'["stale"] <=> b \in excused["stale"]
BY DEF Enter, HistoryTypes, Promises

-----------------------------------------------------------------------------
(* A step of r touches what is of its asset a only.                        *)

\* A visual that the cover or another request names keeps its row, or is
\* excused.
NamedKept(r) ==
    \A v \in Visuals :
        (cover = v \/ Naming(r, v)) /\ (vof[v] # None \/ v \in excused["cover"]) =>
           vof'[v] # None \/ v \in excused'["cover"]

Frame(r, a) ==
    /\ Others(r) /\ rasset[r] \in {a, None} /\ rasset'[r] \in {a, None}
    /\ born \subseteq born' /\ born' \subseteq born \cup {a}
    /\ \A b \in Assets \ {a} :
          file'[b] = file[b] /\ row'[b] = row[b] /\ colors'[b] = colors[b]
    /\ \A p \in Promises, b \in Assets \ {a} : b \in excused'[p] <=> b \in excused[p]
    /\ scan' = scan /\ held' = held
    /\ NamedKept(r)
    /\ \A v \in Visuals :
          /\ vof'[v] # vof[v] => Mentions(r, v) /\ vof'[v] \in {a, None}
          /\ vext'[v] # vext[v] => Mentions(r, v)
          /\ \A e \in Ext : vfile'[<<v, e>>] # vfile[<<v, e>>] => Mentions(r, v) \/ Fresh(v)
          /\ Mentions(r, v)' =>
                rasset'[r] = a /\ (Mentions(r, v) \/ Fresh(v) \/ vof[v] = a)

LEMMA FreshIsUnmentioned ==
    ASSUME NEW v \in Visuals, Fresh(v)
    PROVE  vof[v] = None /\ \A q \in Requests : ~ Mentions(q, v)
BY DEF Fresh, Mentions

\* Requests of other assets mention other visuals, and those stay.
LEMMA FrameVisuals ==
    ASSUME IInv, NEW r \in Requests, NEW a \in Assets, Frame(r, a)
    PROVE  /\ \A b \in Assets \ {a} : VisualsOf(b)' = VisualsOf(b) /\ Newest(b)' = Newest(b)
           /\ \A v \in Visuals : vof[v] \in Assets \ {a} =>
                 vof'[v] = vof[v] /\ vext'[v] = vext[v]
                 /\ \A e \in Ext : vfile'[<<v, e>>] = vfile[<<v, e>>]
           /\ \A q \in Requests \ {r}, v \in Visuals :
                 /\ Mentions(q, v)' <=> Mentions(q, v)
                 /\ Mentions(q, v) /\ rasset[q] # a =>
                       vof'[v] = vof[v] /\ vext'[v] = vext[v]
                       /\ \A e \in Ext : vfile'[<<v, e>>] = vfile[<<v, e>>]
<1>1. TypeOK /\ \A q \in Requests : Own(q) /\ Shape(q)
  BY DEF IInv, Request
<1>2. \A v \in Visuals : Mentions(r, v) => rasset[r] = a /\ vof[v] \in {a, None}
  <2>1. ASSUME NEW v \in Visuals, Mentions(r, v) PROVE rasset[r] = a
    <3>1. rvisual[r] # None \/ rlist[r] # {}
      BY <2>1, LifecycleAssumption DEF Mentions, Ext
    <3>2. rpc[r] # "idle"
      BY <1>1, <3>1 DEF Shape, WithVisual, WithList
    <3>3. QED
      BY <1>1, <3>2 DEF Shape, Frame
  <2>2. QED
    BY <1>1, <2>1 DEF Own
<1>3. \A v \in Visuals : vof[v] \in Assets \ {a} =>
         vof'[v] = vof[v] /\ vext'[v] = vext[v]
         /\ \A e \in Ext : vfile'[<<v, e>>] = vfile[<<v, e>>]
  BY <1>2, FreshIsUnmentioned, LifecycleAssumption DEF Frame
<1>4. ASSUME NEW b \in Assets \ {a} PROVE VisualsOf(b)' = VisualsOf(b)
  <2>1. b # None /\ b \in Assets \ {a}
    BY LifecycleAssumption
  <2>2. ASSUME NEW v \in Visuals, vof'[v] = b PROVE vof[v] = b
    BY <2>1, <2>2 DEF Frame
  <2>3. \A v \in Visuals : vof[v] = b => vof'[v] = b
    BY <1>3, <2>1
  <2>4. QED
    BY <2>2, <2>3 DEF VisualsOf
<1>5. \A b \in Assets \ {a} : Newest(b)' = Newest(b)
  BY <1>4 DEF Newest
<1>6. \A q \in Requests \ {r}, v \in Visuals : Mentions(q, v)' <=> Mentions(q, v)
  BY DEF Frame, Others, Mentions
<1>7. \A q \in Requests \ {r}, v \in Visuals : Mentions(q, v) /\ rasset[q] # a =>
         ~ Mentions(r, v) /\ ~ Fresh(v)
  BY <1>1, <1>2, FreshIsUnmentioned DEF Own
<1>8. QED
  BY <1>3, <1>4, <1>5, <1>6, <1>7 DEF Frame

LEMMA FrameOwn ==
    ASSUME IInv, NEW r \in Requests, NEW a \in Assets, Frame(r, a)
    PROVE  \A q \in Requests : Own(q)'
<1>1. TypeOK /\ \A q \in Requests : Own(q) /\ Shape(q)
  BY DEF IInv, Request
<1>2. \A q \in Requests, v \in Visuals : Mentions(q, v) => rasset[q] # None
  BY <1>1, LifecycleAssumption DEF Mentions, Shape, WithVisual, WithList, Ext
<1>3. \A q \in Requests \ {r} : rasset'[q] = rasset[q]
  BY DEF Frame, Others
<1>4. \A q \in Requests, v \in Visuals : Mentions(q, v) =>
         vof[v] \in {rasset[q], None} /\ \A p \in Requests : Mentions(p, v) => rasset[p] = rasset[q]
  BY <1>1 DEF Own
<1>5. \A q \in Requests \ {r}, v \in Visuals : Mentions(q, v)' <=> Mentions(q, v)
  BY FrameVisuals
<1>6. ASSUME NEW v \in Visuals, Mentions(r, v)'
      PROVE  /\ rasset'[r] = a /\ vof'[v] \in {a, None}
             /\ \A q \in Requests \ {r} : Mentions(q, v) => rasset[q] = a
  <2>1. rasset'[r] = a /\ (Mentions(r, v) \/ Fresh(v) \/ vof[v] = a)
    BY <1>6 DEF Frame
  <2>2. vof[v] \in {a, None}
    BY <1>2, <1>4, <2>1, FreshIsUnmentioned DEF Frame
  <2>3. \A q \in Requests \ {r} : Mentions(q, v) => rasset[q] = a
    BY <1>2, <1>4, <2>1, FreshIsUnmentioned, LifecycleAssumption DEF Frame
  <2>4. QED
    BY <2>1, <2>2, <2>3 DEF Frame
<1>7. ASSUME NEW q \in Requests \ {r}, NEW v \in Visuals, Mentions(q, v)
      PROVE  vof'[v] \in {rasset[q], None}
  <2>1. CASE vof'[v] = vof[v]
    BY <1>4, <1>7, <2>1
  <2>2. CASE vof'[v] # vof[v]
    <3>1. Mentions(r, v) /\ vof'[v] \in {a, None}
      BY <1>7, <2>2 DEF Frame
    <3>2. rasset[r] = a /\ rasset[q] = a
      BY <1>2, <1>4, <1>7, <3>1 DEF Frame
    <3>3. QED
      BY <3>1, <3>2
  <2>3. QED
    BY <2>1, <2>2
<1>8. ASSUME NEW q \in Requests, NEW v \in Visuals, Mentions(q, v)'
      PROVE  /\ vof'[v] \in {rasset'[q], None}
             /\ \A p \in Requests : Mentions(p, v)' => rasset'[p] = rasset'[q]
  BY <1>3, <1>4, <1>5, <1>6, <1>7, <1>8
<1>9. QED
  BY <1>8 DEF Own

\* What is said of another asset.
LEMMA FrameFacts ==
    ASSUME IInv, NEW r \in Requests, NEW a \in Assets, Frame(r, a), NEW b \in Assets \ {a}
    PROVE  /\ \A q \in Requests : /\ rasset'[q] = b <=> rasset[q] = b
                                  /\ rasset[q] = b => /\ rpc'[q] = rpc[q] /\ rop'[q] = rop[q]
                                                      /\ rvisual'[q] = rvisual[q]
                                                      /\ rlist'[q] = rlist[q]
           /\ VisualsOf(b)' = VisualsOf(b) /\ Newest(b)' = Newest(b)
           /\ file'[b] = file[b] /\ row'[b] = row[b] /\ colors'[b] = colors[b]
           /\ \A p \in Promises : b \in excused'[p] <=> b \in excused[p]
           /\ \A q \in Requests : Working(q, b)' <=> Working(q, b)
           /\ Holding(b)' <=> Holding(b)
           /\ ColorsAgree(b)' <=> ColorsAgree(b)
           /\ Agrees(b)' <=> Agrees(b)
<1>1. b # None
  BY LifecycleAssumption
<1>2. \A q \in Requests : /\ rasset'[q] = b <=> rasset[q] = b
                          /\ rasset[q] = b => /\ rpc'[q] = rpc[q] /\ rop'[q] = rop[q]
                                              /\ rvisual'[q] = rvisual[q]
                                              /\ rlist'[q] = rlist[q]
  BY <1>1 DEF Frame, Others
<1>3. VisualsOf(b)' = VisualsOf(b) /\ Newest(b)' = Newest(b)
  BY FrameVisuals
<1>4. /\ file'[b] = file[b] /\ row'[b] = row[b] /\ colors'[b] = colors[b]
      /\ \A p \in Promises : b \in excused'[p] <=> b \in excused[p]
  BY DEF Frame
<1>5. \A q \in Requests : Working(q, b)' <=> Working(q, b)
  BY <1>2 DEF Working
<1>6. Holding(b)' <=> Holding(b)
  BY DEF Holding, Frame
<1>7. ColorsAgree(b)' <=> ColorsAgree(b)
  BY <1>4 DEF ColorsAgree, IsImage
<1>8. Agrees(b)' <=> Agrees(b)
  <2>1. \A v \in Newest(b) : v \in Visuals /\ vof[v] = b
    BY DEF Newest, VisualsOf
  <2>2. \A v \in Newest(b) : vext[v] \in Ext
    BY <2>1 DEF IInv, TypeOK
  <2>3. \A v \in Newest(b) : vext'[v] = vext[v] /\ vfile'[<<v, vext[v]>>] = vfile[<<v, vext[v]>>]
    BY <2>1, <2>2, FrameVisuals
  <2>4. (\A v \in Newest(b) : vfile[<<v, vext[v]>>] = file[b])'
          <=> \A v \in Newest(b) : vfile[<<v, vext[v]>>] = file[b]
    BY <1>3, <1>4, <2>3
  <2>5. QED
    BY <1>3, <1>4, <1>7, <2>4 DEF Agrees, IsImage
<1>9. QED
  BY <1>2, <1>3, <1>4, <1>5, <1>6, <1>7, <1>8

LEMMA FrameAsset ==
    ASSUME IInv, NEW r \in Requests, NEW a \in Assets, Frame(r, a), NEW b \in Assets \ {a}
    PROVE  Asset(b)'
<1>1. Asset(b)
  BY DEF IInv
<1>2. /\ \A q \in Requests : /\ rasset'[q] = b <=> rasset[q] = b
                             /\ rasset[q] = b => /\ rpc'[q] = rpc[q] /\ rop'[q] = rop[q]
                                                 /\ rvisual'[q] = rvisual[q]
                                                 /\ rlist'[q] = rlist[q]
      /\ VisualsOf(b)' = VisualsOf(b) /\ file'[b] = file[b] /\ row'[b] = row[b]
      /\ \A p \in Promises : b \in excused'[p] <=> b \in excused[p]
      /\ \A q \in Requests : Working(q, b)' <=> Working(q, b)
      /\ Holding(b)' <=> Holding(b)
      /\ Agrees(b)' <=> Agrees(b)
  BY FrameFacts
<1>3. One(b)'
  <2>1. \A q \in Requests : Generating(q, b)' <=> Generating(q, b)
    BY <1>2 DEF Generating
  <2>2. QED
    BY <1>1, <1>2, <2>1 DEF Asset, One, Promises
<1>4. Left(b)'
  <2>1. \A q \in Requests : /\ Brings(q, b)' <=> Brings(q, b)
                            /\ Removes(q, b)' <=> Removes(q, b)
                            /\ \A v : Clears(q, b, v) => Clears(q, b, v)'
    BY <1>2 DEF Brings, Removes, Clears
  <2>2. b \in born' <=> b \in born
    BY DEF Frame
  <2>3. QED
    BY <1>1, <1>2, <2>1, <2>2 DEF Asset, Left, Promises
<1>5. Alone(b)'
  BY <1>1, <1>2 DEF Asset, Alone, Promises
<1>6. Quiet(b)'
  BY <1>1, <1>2 DEF Asset, Quiet, Promises, Frame
<1>7. QED
  BY <1>3, <1>4, <1>5, <1>6 DEF Asset

\* A request of another asset is where it was.
LEMMA FrameRequest ==
    ASSUME IInv, NEW r \in Requests, NEW a \in Assets, Frame(r, a),
           NEW q \in Requests \ {r}, rasset[q] # a
    PROVE  Shape(q)' /\ Alive(q)' /\ Progress(q)'
<1>1. /\ TypeOK /\ Shape(q) /\ Alive(q) /\ Progress(q)
  BY DEF IInv, Request
<1>2. /\ rpc'[q] = rpc[q] /\ rasset'[q] = rasset[q] /\ rop'[q] = rop[q] /\ rdata'[q] = rdata[q]
      /\ rparent'[q] = rparent[q] /\ rvisual'[q] = rvisual[q] /\ rlist'[q] = rlist[q]
  BY DEF Frame, Others
<1>3. Shape(q)'
  BY <1>1, <1>2 DEF Shape, Frame
<1>4. CASE rpc[q] = "idle"
  BY <1>2, <1>3, <1>4 DEF Alive, Progress, Aside
<1>7. CASE rpc[q] = "sc_update" /\ rasset[q] \in Visuals
  <2>1. Naming(r, rasset[q]) /\ rasset[q] \notin Assets
    BY <1>7, LifecycleAssumption DEF Naming
  <2>2. vof[rasset[q]] # None \/ rasset[q] \in excused["cover"]
    BY <1>1, <1>7, <2>1 DEF Alive, Exists
  <2>3. vof'[rasset[q]] # None \/ rasset[q] \in excused'["cover"]
    BY <1>7, <2>1, <2>2 DEF Frame, NamedKept
  <2>4. Alive(q)'
    BY <1>2, <1>7, <2>3 DEF Alive, Exists
  <2>5. QED
    BY <1>2, <1>3, <1>7, <2>4 DEF Progress, Aside
<1>5. CASE rpc[q] # "idle" /\ rasset[q] \in Assets
  <2> DEFINE b == rasset[q]
  <2>1. b \in Assets \ {a}
    BY <1>5
  <2>2. /\ \A p \in Requests : rasset'[p] = b <=> rasset[p] = b
        /\ VisualsOf(b)' = VisualsOf(b) /\ Newest(b)' = Newest(b)
        /\ file'[b] = file[b] /\ row'[b] = row[b]
        /\ \A p \in Promises : b \in excused'[p] <=> b \in excused[p]
        /\ ColorsAgree(b)' <=> ColorsAgree(b)
        /\ Agrees(b)' <=> Agrees(b)
    BY <2>1, FrameFacts
  <2>3. Alive(q)'
    <3>1. b \notin Visuals
      BY <2>1, LifecycleAssumption
    <3>2. QED
      BY <1>1, <1>2, <2>2, <3>1 DEF Alive, Promises, Exists
  <2>4. Progress(q)'
    <3> DEFINE v == rvisual[q][1]
               e == ExtOf(rparent[q])
    <3>1. e \in Ext
      BY DEF Ext, ExtOf
    <3>2. CASE rpc[q] \in {"v_row", "v_over", "v_drop", "v_copy", "v_update"}
      <4>1. rvisual[q] \in Visuals \X Ext
        BY <1>1, <3>2 DEF Shape, WithVisual, TypeOK
      <4>2. v \in Visuals /\ rvisual[q] = <<v, rvisual[q][2]>> /\ rvisual[q][2] \in Ext
        BY <4>1
      <4>3. Mentions(q, v)
        BY <4>2 DEF Mentions
      <4>4. vfile'[<<v, e>>] = vfile[<<v, e>>] /\ vfile'[rvisual[q]] = vfile[rvisual[q]]
        BY <3>1, <4>2, <4>3, FrameVisuals
      <4>5. QED
        BY <1>1, <1>2, <2>2, <3>2, <4>4
           DEF Progress, Aside, Promises, Stored, Colored, Picture, WithList, IsImage, ExtOf
    <3>3. CASE rpc[q] \notin {"v_row", "v_over", "v_drop", "v_copy", "v_update"}
      BY <1>1, <1>2, <2>2, <3>3
         DEF Progress, Aside, Promises, Stored, Colored, Picture, WithList, IsImage, ExtOf
    <3>4. QED
      BY <3>2, <3>3
  <2>5. QED
    BY <1>3, <2>3, <2>4
<1>6. QED
  BY <1>1, <1>4, <1>5, <1>7 DEF Shape, TypeOK

-----------------------------------------------------------------------------
(* What remains to be shown of a step that touches one asset.              *)

LEMMA LocalStep ==
    ASSUME IInv, NEW r \in Requests, NEW a \in Assets, Frame(r, a),
           TypeOK', a \in born', CoverExists', Asset(a)', Shape(r)',
           \A q \in Requests : rasset'[q] = a => Alive(q)' /\ Progress(q)'
    PROVE  IInv'
<1>1. TypeOK /\ Born /\ \A q \in Requests : Shape(q)
  BY DEF IInv, Request
<1>2. Born'
  <2>1. ASSUME NEW b \in Assets \ born' PROVE file'[b] = None /\ VisualsOf(b)' = {}
    <3>1. b \in Assets \ born /\ b \in Assets \ {a}
      BY DEF Frame
    <3>2. QED
      BY <1>1, <3>1, FrameFacts DEF Born
  <2>2. \A b \in Assets : Holding(b)' => b \in born'
    BY <1>1 DEF Born, Holding, Frame
  <2>3. QED
    BY <1>1, <2>1, <2>2 DEF Born, Frame
<1>3. \A b \in Assets : Asset(b)'
  BY FrameAsset
<1>4. ASSUME NEW q \in Requests PROVE Shape(q)' /\ Alive(q)' /\ Progress(q)'
  <2>1. CASE q # r /\ rasset[q] # a
    BY <2>1, FrameRequest
  <2>2. CASE q # r /\ rasset[q] = a
    <3>1. /\ rpc'[q] = rpc[q] /\ rasset'[q] = rasset[q] /\ rop'[q] = rop[q]
          /\ rdata'[q] = rdata[q] /\ rparent'[q] = rparent[q]
          /\ rvisual'[q] = rvisual[q] /\ rlist'[q] = rlist[q]
      BY <2>2 DEF Frame, Others
    <3>2. Shape(q)'
      BY <1>1, <2>2, <3>1 DEF Shape, Frame
    <3>3. QED
      BY <2>2, <3>1, <3>2
  <2>3. CASE q = r
    <3>1. CASE rasset'[r] = a
      BY <2>3, <3>1
    <3>2. CASE rasset'[r] = None
      <4>1. rpc'[r] = "idle"
        BY <3>2 DEF Shape
      <4>2. QED
        BY <2>3, <4>1 DEF Alive, Progress, Aside
    <3>3. QED
      BY <3>1, <3>2 DEF Frame
  <2>4. QED
    BY <2>1, <2>2, <2>3
<1>5. \A q \in Requests : Own(q)'
  BY FrameOwn
<1>6. QED
  BY <1>2, <1>3, <1>4, <1>5 DEF IInv, Request

\* A step of a request that works on a: while a is not excused, r is alone.
LEMMA WorkStep ==
    ASSUME IInv, NEW r \in Requests, NEW a \in Assets, Frame(r, a),
           rasset[r] = a, rpc[r] \notin Aside,
           TypeOK', CoverExists', Shape(r)', One(a)', Left(a)',
           \A p \in Promises : a \in excused[p] => a \in excused'[p],
           row[a] = None => row'[a] = None \/ rpc[r] = "up_row",
           row[a] # None => \/ row'[a] # None \/ a \in excused'["cover"]
                            \/ \A q \in Requests \ {r} : rasset[q] = a => rpc[q] # "sc_update",
           rasset'[r] = a => Alive(r)',
           a \notin excused'["stale"] /\ row'[a] # None =>
              IF rpc'[r] \in Aside THEN Agrees(a)' ELSE Progress(r)'
    PROVE  IInv'
<1>1. /\ TypeOK /\ Asset(a)
      /\ \A q \in Requests : Shape(q) /\ Alive(q)
  BY DEF IInv, Request
<1>2. a \in born'
  BY <1>1 DEF Shape, Frame, Aside
<1>3. \A q \in Requests \ {r} : /\ rasset'[q] = rasset[q] /\ rpc'[q] = rpc[q]
                                /\ rdata'[q] = rdata[q] /\ rvisual'[q] = rvisual[q]
  BY DEF Frame, Others
<1>4. a \notin excused'["stale"] =>
         a \notin excused["stale"] /\ ~ Holding(a)
         /\ \A q \in Requests \ {r} : ~ Working(q, a)
  BY <1>1 DEF Asset, Alone, Working, Promises
<1>5. \A q \in Requests \ {r} : Working(q, a)' <=> Working(q, a)
  BY <1>3 DEF Working
<1>6. Holding(a)' <=> Holding(a)
  BY DEF Holding, Frame
<1>7. Alone(a)'
  BY <1>4, <1>5, <1>6 DEF Alone
<1>8. Quiet(a)'
  <2>1. ASSUME a \notin excused'["stale"], row'[a] # None, \A q \in Requests : ~ Working(q, a)'
        PROVE  Agrees(a)'
    <3>1. rasset'[r] = a => rpc'[r] \in Aside
      BY <2>1 DEF Working
    <3>2. rasset'[r] = None => rpc'[r] \in Aside
      BY DEF Shape, Aside
    <3>3. QED
      BY <2>1, <3>1, <3>2 DEF Frame
  <2>2. QED
    BY <1>4, <1>6, <2>1 DEF Quiet
<1>9. ASSUME NEW q \in Requests \ {r}, rasset'[q] = a PROVE Alive(q)' /\ Progress(q)'
  <2>1. rasset[q] = a /\ rpc[q] # "up_row"
    BY <1>1, <1>3, <1>9 DEF Alive
  <2>2. rpc[q] \in {"dl_cover", "dl_file"} => row'[a] = None
    <3>1. rpc[q] # "idle" => rpc[r] # "up_row"
      BY <1>1, <2>1 DEF Alive
    <3>2. QED
      BY <1>1, <2>1, <3>1 DEF Alive
  <2>3. rpc[q] = "sc_update" => row'[a] # None \/ a \in excused'["cover"]
    BY <1>1, <2>1, LifecycleAssumption DEF Alive, Promises, Exists
  <2>4. Alive(q)'
    BY <1>3, <2>1, <2>2, <2>3 DEF Alive, Exists
  <2>5. Progress(q)'
    BY <1>3, <1>4, <2>1 DEF Progress, Working
  <2>6. QED
    BY <2>4, <2>5
<1>10. rasset'[r] = a => Progress(r)'
  BY DEF Progress
<1>11. Asset(a)'
  BY <1>7, <1>8 DEF Asset
<1>12. \A q \in Requests : rasset'[q] = a => Alive(q)' /\ Progress(q)'
  BY <1>9, <1>10
<1>13. QED
  BY <1>2, <1>11, <1>12, LocalStep

-----------------------------------------------------------------------------
(* What most steps do not disturb.                                         *)

LEMMA CoverKept ==
    ASSUME CoverExists, CoverTypes, NEW r \in Requests, Others(r), rpc[r] # "dl_cover",
           cover' = cover, \A b \in Assets : row[b] # None => row'[b] # None,
           excused["cover"] \subseteq excused'["cover"], NamedKept(r)
    PROVE  CoverExists'
BY DEF CoverExists, CoverTypes, Others, NamedKept, Exists

LEMMA OneKept ==
    ASSUME NEW a \in Assets, One(a), a \in excused["one"] => a \in excused'["one"],
           VisualsOf(a)' \subseteq VisualsOf(a),
           \A q \in Requests : Generating(q, a)' => Generating(q, a)
    PROVE  One(a)'
BY DEF One

\* Where nothing is brought back, and whoever removes something goes on.
LEMMA LeftKept ==
    ASSUME NEW a \in Assets, Left(a), a \in excused["left"] => a \in excused'["left"],
           born' = born,
           a \notin excused'["left"] /\ row'[a] = None =>
              /\ row[a] = None
              /\ \A q \in Requests : Brings(q, a)' => Brings(q, a)
              /\ file'[a] # None => file[a] # None
              /\ \A q \in Requests : Removes(q, a) => Removes(q, a)'
              /\ VisualsOf(a)' \subseteq VisualsOf(a)
              /\ \A q \in Requests, v \in VisualsOf(a) : Clears(q, a, v) => Clears(q, a, v)'
    PROVE  Left(a)'
BY DEF Left

\* Steps with nothing to remove, past the upload's row.
Plain == PC \ ({"up_row", "dl_row", "dl_cover", "dl_file", "v_list", "v_file", "v_gone"}
               \cup Aside)

LEMMA PlainStep ==
    ASSUME IInv, NEW r \in Requests, NEW a \in Assets, Frame(r, a),
           rasset[r] = a, rpc[r] \in Plain, TypeOK', Shape(r)', One(a)',
           born' = born, cover' = cover,
           VisualsOf(a)' \subseteq VisualsOf(a) \/ Brings(r, a),
           \A b \in Assets : row'[b] = None <=> row[b] = None,
           \A p \in Promises : excused[p] \subseteq excused'[p],
           Brings(r, a)' => Brings(r, a) \/ row[a] # None,
           file'[a] = file[a] \/ Brings(r, a),
           rpc'[r] \in Plain \cup {"idle", "v_list"},
           a \notin excused'["stale"] /\ row'[a] # None =>
              IF rpc'[r] = "idle" THEN Agrees(a)' ELSE Progress(r)'
    PROVE  IInv'
<1>1. Asset(a) /\ CoverExists /\ CoverTypes /\ Shape(r) /\ a # None
  BY LifecycleAssumption DEF IInv, Request, TypeOK, CoverTypes
<1>2. Others(r)
  BY DEF Frame
<1>3. rpc[r] \notin {"up_row", "dl_cover", "dl_file", "v_list", "v_file", "v_gone"} \cup Aside
  BY DEF Plain
<1>4. rpc'[r] \notin {"up_row", "dl_cover", "dl_file", "sc_update", "lk_find"}
  BY DEF Plain, Aside
<1>5. CoverExists'
  BY <1>1, <1>2, <1>3, CoverKept DEF Promises, Frame
<1>6. Left(a)'
  <2>1. \A v : \A q \in Requests \ {r} :
           /\ Brings(q, a)' <=> Brings(q, a)
           /\ Removes(q, a)' <=> Removes(q, a)
           /\ Clears(q, a, v)' <=> Clears(q, a, v)
    BY <1>2 DEF Others, Brings, Removes, Clears
  <2>2. ~ Removes(r, a) /\ \A v : ~ Clears(r, a, v)
    BY <1>3 DEF Removes, Clears, WithList
  <2>3. a \notin excused["left"] /\ row[a] = None => ~ Brings(r, a)
    BY <1>1, <1>3 DEF Asset, Left, Shape, Aside
  <2>4. Left(a)
    BY <1>1 DEF Asset
  <2>5. a \in excused["left"] => a \in excused'["left"]
    BY DEF Promises
  <2>6. ASSUME a \notin excused'["left"], row'[a] = None
        PROVE  /\ row[a] = None
               /\ \A q \in Requests : Brings(q, a)' => Brings(q, a)
               /\ file'[a] # None => file[a] # None
               /\ \A q \in Requests : Removes(q, a) => Removes(q, a)'
               /\ VisualsOf(a)' \subseteq VisualsOf(a)
               /\ \A q \in Requests, v \in VisualsOf(a) : Clears(q, a, v) => Clears(q, a, v)'
    BY <2>1, <2>2, <2>3, <2>5, <2>6
  <2>7. QED
    BY <2>4, <2>5, <2>6, LeftKept
<1>7. rasset'[r] = a => Alive(r)'
  BY <1>4 DEF Alive
<1>8. a \notin excused'["stale"] /\ row'[a] # None =>
         IF rpc'[r] \in Aside THEN Agrees(a)' ELSE Progress(r)'
  BY <1>4 DEF Aside
<1>9. \A p \in Promises : a \in excused[p] => a \in excused'[p]
  OBVIOUS
<1>10. rpc[r] \notin Aside
  BY <1>3
<1>11. QED
  BY <1>5, <1>6, <1>7, <1>8, <1>9, <1>10, WorkStep

\* What is known of a request that works on an original.
LEMMA Begun ==
    ASSUME IInv, NEW r \in Requests, rpc[r] \notin {"idle", "sc_update"}
    PROVE  /\ rasset[r] \in Assets /\ rasset[r] \in born /\ rasset[r] # None
           /\ Shape(r) /\ Own(r) /\ Alive(r) /\ Progress(r) /\ Asset(rasset[r])
           /\ OriginalTypes /\ VisualTypes /\ CoverTypes /\ RequestTypes /\ ScanTypes
           /\ HistoryTypes /\ BoundTypes /\ TypeOK /\ CoverExists
<1>1. TypeOK /\ Shape(r) /\ Own(r) /\ Alive(r) /\ Progress(r)
  BY DEF IInv, Request
<1>2. rasset[r] \in Assets /\ rasset[r] \in born /\ rasset[r] # None
  BY <1>1, LifecycleAssumption DEF Shape, TypeOK
<1>3. QED
  BY <1>1, <1>2, TypeParts DEF IInv

\* The steps of Plain, unless they store a file or a row.
LEMMA PassingStep ==
    ASSUME IInv, NEW r \in Requests, NEW a \in Assets, rasset[r] = a, rpc[r] \in Plain,
           UNCHANGED <<originals, visuals, cover, backfill, asked>>,
           Others(r), RequestTypes', rasset'[r] \in {a, None}, Shape(r)',
           \A v \in Visuals : Mentions(r, v)' =>
              rasset'[r] = a /\ (Mentions(r, v) \/ vof[v] = a),
           HistoryTypes', \A p \in Promises : excused[p] \subseteq excused'[p],
           \A p \in Promises : excused'[p] \subseteq excused[p] \cup {a},
           One(a)', Brings(r, a)' => Brings(r, a) \/ row[a] # None,
           rpc'[r] \in Plain \cup {"idle", "v_list"},
           a \notin excused'["stale"] /\ row[a] # None =>
              IF rpc'[r] = "idle" THEN Agrees(a) ELSE Progress(r)'
    PROVE  IInv'
<1>1. /\ born' = born /\ file' = file /\ row' = row /\ colors' = colors /\ vof' = vof
      /\ vext' = vext /\ vfile' = vfile /\ cover' = cover /\ scan' = scan /\ held' = held
      /\ asked' = asked
  BY DEF originals, visuals, backfill
<1>2. TypeOK'
  <2>1. TypeOK
    BY DEF IInv
  <2>2. OriginalTypes' /\ VisualTypes' /\ CoverTypes' /\ ScanTypes' /\ BoundTypes'
    BY <1>1, <2>1 DEF TypeOK, OriginalTypes, VisualTypes, CoverTypes, ScanTypes, BoundTypes
  <2>3. QED
    BY <2>2, TypePartsNext
<1>3. Frame(r, a)
  BY <1>1 DEF Frame, NamedKept, Promises
<1>4. VisualsOf(a)' = VisualsOf(a) /\ Newest(a)' = Newest(a)
  BY <1>1 DEF VisualsOf, Newest
<1>5. Agrees(a)' <=> Agrees(a)
  BY <1>1, <1>4 DEF Agrees, ColorsAgree, IsImage
<1>6. QED
  BY <1>1, <1>2, <1>3, <1>4, <1>5, PlainStep

\* A failure is an excuse for what does not agree; a request that gives up
\* can have taken back the file of the visual it holds.
LEMMA GiveUp ==
    ASSUME IInv, NEW r \in Requests, NEW a \in Assets, rasset[r] = a, rpc[r] \in Plain,
           UNCHANGED <<originals, vof, vext, cover, backfill, asked>>,
           vfile' \in [Visuals \X Ext -> Contents \cup {None}],
           \A v \in Visuals, e \in Ext :
              vfile'[<<v, e>>] # vfile[<<v, e>>] => Mentions(r, v),
           End(r), Excuse({"stale"}, {a})
    PROVE  IInv'
<1>1. /\ born' = born /\ file' = file /\ row' = row /\ colors' = colors /\ vof' = vof
      /\ vext' = vext /\ cover' = cover /\ scan' = scan /\ held' = held /\ asked' = asked
  BY DEF originals, backfill
<1>2. TypeOK /\ RequestTypes /\ HistoryTypes /\ Asset(a)
  BY TypeParts DEF IInv
<1>3. /\ Others(r) /\ RequestTypes' /\ Shape(r)' /\ rpc'[r] = "idle" /\ rasset'[r] = None
      /\ \A v \in Visuals : ~ Mentions(r, v)'
  BY <1>2, EndFacts
<1>4. /\ HistoryTypes' /\ \A p \in Promises : excused[p] \subseteq excused'[p]
      /\ \A p \in Promises : excused'[p] \subseteq excused[p] \cup {a}
      /\ a \in excused'["stale"]
  BY <1>2, ExcuseStale
<1>5. TypeOK'
  <2>1. OriginalTypes' /\ VisualTypes' /\ CoverTypes' /\ ScanTypes' /\ BoundTypes'
    BY <1>1, <1>2 DEF TypeOK, OriginalTypes, VisualTypes, CoverTypes, ScanTypes, BoundTypes
  <2>2. QED
    BY <1>3, <1>4, <2>1, TypePartsNext
<1>6. Frame(r, a)
  BY <1>1, <1>3, <1>4 DEF Frame, NamedKept, Promises
<1>7. VisualsOf(a)' = VisualsOf(a)
  BY <1>1 DEF VisualsOf
<1>8. One(a)'
  <2>1. \A q \in Requests : Generating(q, a)' => Generating(q, a)
    BY <1>3, LifecycleAssumption DEF Generating, Others
  <2>2. a \in excused["one"] => a \in excused'["one"]
    BY <1>4 DEF Promises
  <2>3. QED
    BY <1>2, <1>7, <2>1, <2>2, OneKept DEF Asset
<1>9. ~ Brings(r, a)'
  BY <1>3, LifecycleAssumption DEF Brings
<1>10. QED
  BY <1>1, <1>3, <1>4, <1>5, <1>6, <1>7, <1>8, <1>9, PlainStep

LEMMA SameVisuals ==
    ASSUME IInv, NEW r \in Requests, NEW a \in Assets, Others(r), vof' = vof,
           a \in excused["one"] => a \in excused'["one"],
           rpc'[r] \in {"v_save", "v_row"} => Generating(r, a)
    PROVE  One(a)' /\ VisualsOf(a)' = VisualsOf(a) /\ Newest(a)' = Newest(a)
<1>1. VisualsOf(a)' = VisualsOf(a) /\ Newest(a)' = Newest(a)
  BY DEF VisualsOf, Newest
<1>2. \A q \in Requests : Generating(q, a)' => Generating(q, a)
  BY DEF Generating, Others
<1>3. One(a)
  BY DEF IInv, Asset
<1>4. QED
  BY <1>1, <1>2, <1>3, OneKept

-----------------------------------------------------------------------------
(* Replacement and regeneration.                                           *)

LEMMA ReplaceSaveInv ==
    ASSUME IInv, NEW r \in Requests, NEW a \in Assets, rasset[r] = a,
           ReplaceSave(r), UNCHANGED asked
    PROVE  IInv'
<1> USE DEF ReplaceSave
<1>1. rpc[r] = "rp_save" /\ rpc[r] \in Plain
  BY DEF Plain, PC, Aside
<1>2. /\ a \in born /\ a # None
      /\ Shape(r) /\ OriginalTypes /\ VisualTypes /\ CoverTypes /\ RequestTypes /\ ScanTypes
      /\ HistoryTypes /\ BoundTypes
  BY <1>1, Begun
<1>3. /\ born' = born /\ row' = row /\ colors' = colors /\ vof' = vof /\ vext' = vext
      /\ vfile' = vfile /\ cover' = cover /\ scan' = scan /\ held' = held /\ asked' = asked
  BY DEF visuals, backfill
<1>4. CASE /\ Goto(r, "row")
           /\ file' = [file EXCEPT ![a] = rdata[r]] /\ UNCHANGED excused
  <2>1. /\ Others(r) /\ RequestTypes' /\ rpc'[r] = "row"
        /\ rasset' = rasset /\ rop' = rop /\ rdata' = rdata
        /\ rvisual' = rvisual /\ rlist' = rlist
        /\ \A v : Mentions(r, v)' <=> Mentions(r, v)
    BY <1>2, <1>4, GotoFacts DEF PC
  <2>2. rdata[r] # None /\ rdata[r] \in Contents \cup {None}
    BY <1>1, <1>2 DEF Shape, WithData, RequestTypes
  <2>3. TypeOK'
    BY <1>2, <1>3, <1>4, <2>1, <2>2, TypePartsNext
       DEF OriginalTypes, VisualTypes, CoverTypes, ScanTypes, HistoryTypes, BoundTypes
  <2>4. Frame(r, a)
    BY <1>2, <1>3, <1>4, <2>1 DEF Frame, OriginalTypes, NamedKept, Promises
  <2>5. Shape(r)'
    BY <1>1, <1>2, <1>3, <2>1, <2>2 DEF Shape, WithVisual, WithList, WithData
  <2>6. One(a)' /\ VisualsOf(a)' = VisualsOf(a)
    BY <1>2, <1>3, <1>4, <2>1, SameVisuals
  <2>7. Brings(r, a)
    BY <1>1 DEF Brings
  <2>8. Progress(r)'
    BY <1>2, <1>4, <2>1
       DEF Progress, Stored, Colored, Picture, WithList, OriginalTypes
  <2>9. QED
    BY <1>1, <1>2, <1>3, <1>4, <2>1, <2>3, <2>4, <2>5, <2>6, <2>7, <2>8, PlainStep
       DEF Plain, PC, Aside
<1>5. CASE End(r) /\ Excuse({"stale"}, {a}) /\ UNCHANGED file
  BY <1>1, <1>2, <1>3, <1>5, GiveUp DEF originals, backfill, VisualTypes
<1>6. QED
  BY <1>4, <1>5

LEMMA RegenerateReadInv ==
    ASSUME IInv, NEW r \in Requests, NEW a \in Assets, rasset[r] = a,
           RegenerateRead(r), UNCHANGED asked
    PROVE  IInv'
<1> USE DEF RegenerateRead
<1>1. rpc[r] = "rg_read" /\ rpc[r] \in Plain
  BY DEF Plain, PC, Aside
<1>2. /\ a \in born /\ a # None
      /\ Shape(r) /\ OriginalTypes /\ VisualTypes /\ RequestTypes /\ HistoryTypes
  BY <1>1, Begun
<1>3. UNCHANGED <<originals, visuals, cover, backfill, asked>>
  OBVIOUS
<1>4. CASE /\ file[a] # None
           /\ rpc' = [rpc EXCEPT ![r] = "row"]
           /\ rdata' = [rdata EXCEPT ![r] = file[a]]
           /\ UNCHANGED <<rasset, rop, rparent, rvisual, rlist, excused>>
  <2>1. Others(r) /\ RequestTypes' /\ rpc'[r] = "row" /\ rdata'[r] = file[a]
    BY <1>2, <1>4 DEF Others, RequestTypes, OriginalTypes, PC
  <2>2. Shape(r)'
    BY <1>1, <1>2, <1>3, <1>4, <2>1 DEF Shape, WithVisual, WithList, WithData, originals
  <2>3. One(a)'
    BY <1>2, <1>3, <1>4, <2>1, SameVisuals DEF visuals
  <2>4. Progress(r)'
    BY <1>3, <1>4, <2>1 DEF Progress, Stored, Colored, Picture, WithList, originals
  <2>5. \A v : Mentions(r, v)' <=> Mentions(r, v)
    BY <1>4 DEF Mentions
  <2>6. ~ Brings(r, a)'
    BY <1>1, <1>2, <1>4, <2>1 DEF Brings, Shape
  <2>7. QED
    BY <1>1, <1>2, <1>3, <1>4, <2>1, <2>2, <2>3, <2>4, <2>5, <2>6, PassingStep
       DEF HistoryTypes, Plain, PC, Aside
<1>5. CASE End(r) /\ Excuse({"stale"}, {a})
  BY <1>1, <1>2, <1>3, <1>5, GiveUp DEF originals, visuals, backfill, VisualTypes
<1>6. QED
  BY <1>4, <1>5

LEMMA UpdateRowInv ==
    ASSUME IInv, NEW r \in Requests, NEW a \in Assets, rasset[r] = a,
           UpdateRow(r), UNCHANGED asked
    PROVE  IInv'
<1> USE DEF UpdateRow
<1>1. rpc[r] = "row" /\ rpc[r] \in Plain
  BY DEF Plain, PC, Aside
<1>2. /\ a \in born /\ a # None
      /\ Shape(r) /\ Progress(r)
      /\ OriginalTypes /\ VisualTypes /\ CoverTypes /\ RequestTypes /\ ScanTypes
      /\ HistoryTypes /\ BoundTypes
  BY <1>1, Begun
<1>3. /\ born' = born /\ file' = file /\ colors' = colors /\ vof' = vof /\ vext' = vext
      /\ vfile' = vfile /\ cover' = cover /\ scan' = scan /\ held' = held /\ asked' = asked
  BY DEF visuals, backfill
<1>4. CASE /\ row' = IF row[a] = None THEN row ELSE [row EXCEPT ![a] = rdata[r]]
           /\ Goto(r, "colors") /\ UNCHANGED excused
  <2>1. /\ Others(r) /\ RequestTypes' /\ rpc'[r] = "colors"
        /\ rasset' = rasset /\ rop' = rop /\ rdata' = rdata
        /\ rvisual' = rvisual /\ rlist' = rlist
        /\ \A v : Mentions(r, v)' <=> Mentions(r, v)
    BY <1>2, <1>4, GotoFacts DEF PC
  <2>2. rdata[r] # None /\ rdata[r] \in Contents \cup {None}
    BY <1>1, <1>2 DEF Shape, WithData, RequestTypes
  <2>3. /\ row' \in [Assets -> Contents \cup {None}]
        /\ \A b \in Assets \ {a} : row'[b] = row[b]
        /\ \A b \in Assets : row'[b] = None <=> row[b] = None
        /\ row[a] # None => row'[a] = rdata[r]
    BY <1>2, <1>4, <2>2 DEF OriginalTypes
  <2>4. TypeOK'
    BY <1>2, <1>3, <1>4, <2>1, <2>3, TypePartsNext
       DEF OriginalTypes, VisualTypes, CoverTypes, ScanTypes, HistoryTypes, BoundTypes
  <2>5. Frame(r, a)
    BY <1>2, <1>3, <1>4, <2>1, <2>3 DEF Frame, NamedKept, Promises
  <2>6. Shape(r)'
    BY <1>1, <1>2, <1>3, <2>1, <2>2 DEF Shape, WithVisual, WithList, WithData
  <2>7. One(a)' /\ VisualsOf(a)' = VisualsOf(a)
    BY <1>2, <1>3, <1>4, <2>1, SameVisuals
  <2>8. ~ Brings(r, a)'
    BY <1>1, <1>2, <2>1 DEF Brings, Shape
  <2>9. Progress(r)'
    BY <1>1, <1>2, <1>3, <1>4, <2>1, <2>3
       DEF Progress, Stored, Colored, Picture, WithList, Aside
  <2>10. QED
    BY <1>1, <1>2, <1>3, <1>4, <2>1, <2>3, <2>4, <2>5, <2>6, <2>7, <2>8, <2>9, PlainStep
       DEF Plain, PC, Aside
<1>5. CASE End(r) /\ Excuse({"stale"}, {a}) /\ UNCHANGED row
  BY <1>1, <1>2, <1>3, <1>5, GiveUp DEF originals, backfill, VisualTypes
<1>6. QED
  BY <1>4, <1>5

\* What the colors become agrees with the content that r holds.
LEMMA SaveColorsInv ==
    ASSUME IInv, NEW r \in Requests, NEW a \in Assets, rasset[r] = a,
           SaveColors(r), UNCHANGED asked
    PROVE  IInv'
<1> DEFINE c == rdata[r]
<1>1. rpc[r] = "colors" /\ rpc[r] \in Plain
  BY DEF Plain, PC, Aside, SaveColors
<1>2. /\ a \in born /\ a # None
      /\ Shape(r) /\ Progress(r)
      /\ OriginalTypes /\ VisualTypes /\ CoverTypes /\ RequestTypes /\ ScanTypes
      /\ HistoryTypes /\ BoundTypes
  BY <1>1, Begun
<1>3. /\ born' = born /\ file' = file /\ row' = row /\ vof' = vof /\ vext' = vext
      /\ vfile' = vfile /\ cover' = cover /\ scan' = scan /\ held' = held /\ asked' = asked
  BY DEF visuals, backfill, SaveColors
<1>4. c # None /\ c \in Contents
  BY <1>1, <1>2 DEF Shape, WithData, RequestTypes
<1>5. /\ \/ StoreColors(a, c) /\ UNCHANGED excused
         \/ Excuse({"stale"}, {a}) /\ UNCHANGED colors
      /\ IF rop[r] = "upload" THEN Refresh(r, MediaType[c], c) ELSE Goto(r, "get")
  BY DEF SaveColors
<1>6. /\ colors' \in [Assets -> Contents \cup {None}]
      /\ \A b \in Assets : row[b] = None => colors'[b] = None
      /\ \A b \in Assets \ {a} : colors'[b] = colors[b]
      /\ HistoryTypes' /\ \A p \in Promises : excused[p] \subseteq excused'[p]
      /\ \A p \in Promises : excused'[p] \subseteq excused[p] \cup {a}
      /\ a \notin excused'["stale"] /\ row[a] # None =>
            colors'[a] = (IF IsImage(c) THEN c ELSE None)
  <2>1. CASE StoreColors(a, c) /\ UNCHANGED excused
    BY <1>2, <1>4, <2>1 DEF StoreColors, OriginalTypes, HistoryTypes
  <2>2. CASE Excuse({"stale"}, {a}) /\ UNCHANGED colors
    BY <1>2, <2>2, ExcuseStale DEF OriginalTypes
  <2>3. QED
    BY <1>5, <2>1, <2>2
<1>7. /\ Others(r) /\ RequestTypes' /\ rasset' = rasset /\ rdata'[r] = c
      /\ rvisual' = rvisual /\ rlist' = rlist /\ rop' = rop
      /\ \A v : Mentions(r, v)' <=> Mentions(r, v)
      /\ rpc'[r] \in {"get", "v_list", "v_find"}
      /\ rpc'[r] = "v_list" => IsImage(c)
      /\ rpc'[r] = "v_find" => /\ rop[r] = "upload" /\ rparent'[r] = MediaType[c]
                               /\ ~ IsImage(c)
  <2>1. MediaType[c] \in Types
    BY <1>4, LifecycleAssumption
  <2>2. CASE rop[r] = "upload"
    BY <1>2, <1>4, <1>5, <2>1, <2>2, RefreshFacts DEF IsImage
  <2>3. CASE rop[r] # "upload"
    BY <1>2, <1>4, <1>5, <2>3, GotoFacts DEF PC
  <2>4. QED
    BY <2>2, <2>3
<1>8. TypeOK'
  BY <1>2, <1>3, <1>6, <1>7, TypePartsNext
     DEF OriginalTypes, VisualTypes, CoverTypes, ScanTypes, BoundTypes
<1>9. Frame(r, a)
  BY <1>2, <1>3, <1>6, <1>7 DEF Frame, NamedKept, Promises
<1>10. Shape(r)'
  BY <1>1, <1>2, <1>3, <1>4, <1>7 DEF Shape, WithVisual, WithList, WithData
<1>11. One(a)' /\ VisualsOf(a)' = VisualsOf(a)
  BY <1>2, <1>3, <1>6, <1>7, SameVisuals DEF Promises
<1>12. Brings(r, a)' => Brings(r, a)
  BY <1>1, <1>7 DEF Brings
<1>13. a \notin excused'["stale"] /\ row'[a] # None => Progress(r)'
  <2>1. ASSUME a \notin excused'["stale"], row'[a] # None
        PROVE  row[a] = file[a] /\ file[a] = c /\ ColorsAgree(a)'
    <3>1. a \notin excused["stale"]
      BY <1>6, <2>1 DEF Promises
    <3>2. row[a] = file[a] /\ file[a] = c
      BY <1>1, <1>2, <1>3, <2>1, <3>1 DEF Progress, Stored, Aside
    <3>3. file'[a] = c /\ colors'[a] = (IF IsImage(c) THEN c ELSE None)
      BY <1>3, <1>6, <2>1, <3>2
    <3>4. QED
      BY <3>2, <3>3 DEF ColorsAgree, IsImage
  <2>2. QED
    BY <1>3, <1>7, <2>1 DEF Progress, Stored, Colored, Picture, WithList, IsImage
<1>14. QED
  BY <1>1, <1>2, <1>3, <1>6, <1>7, <1>8, <1>9, <1>10, <1>11, <1>12, <1>13, PlainStep
     DEF Plain, PC, Aside

LEMMA ReloadInv ==
    ASSUME IInv, NEW r \in Requests, NEW a \in Assets, rasset[r] = a,
           Reload(r), UNCHANGED asked
    PROVE  IInv'
<1> USE DEF Reload
<1>1. rpc[r] = "get" /\ rpc[r] \in Plain
  BY DEF Plain, PC, Aside
<1>2. /\ a \in born /\ a # None
      /\ Shape(r) /\ Progress(r)
      /\ OriginalTypes /\ VisualTypes /\ RequestTypes /\ HistoryTypes
  BY <1>1, Begun
<1>3. UNCHANGED <<originals, visuals, cover, backfill, asked>>
  OBVIOUS
<1>4. CASE /\ row[a] # None
           /\ Refresh(r, MediaType[row[a]], rdata[r]) /\ UNCHANGED excused
  <2>1. MediaType[row[a]] \in Types /\ rdata[r] \in Contents \cup {None} /\ rdata[r] # None
    BY <1>1, <1>2, <1>4, LifecycleAssumption
       DEF OriginalTypes, RequestTypes, Shape, WithData
  <2>2. /\ Others(r) /\ RequestTypes'
        /\ rpc'[r] = (IF MediaType[row[a]] = "image" THEN "v_list" ELSE "v_find")
        /\ rdata'[r] = rdata[r] /\ rparent'[r] = MediaType[row[a]]
        /\ rasset' = rasset /\ rop' = rop /\ rvisual' = rvisual /\ rlist' = rlist
        /\ \A v : Mentions(r, v)' <=> Mentions(r, v)
    BY <1>2, <1>4, <2>1, RefreshFacts
  <2>3. Shape(r)'
    BY <1>1, <1>2, <1>3, <2>1, <2>2 DEF Shape, WithVisual, WithList, WithData, originals
  <2>4. One(a)'
    BY <1>2, <1>3, <1>4, <2>2, SameVisuals DEF visuals
  <2>5. a \notin excused["stale"] => row[a] = file[a] /\ file[a] = rdata[r] /\ ColorsAgree(a)
    BY <1>1, <1>2, <1>4 DEF Progress, Stored, Colored, Aside
  <2>6. ColorsAgree(a)' <=> ColorsAgree(a)
    <3>1. file' = file /\ colors' = colors
      BY <1>3 DEF originals
    <3>2. QED
      BY <3>1 DEF ColorsAgree, IsImage
  <2>7. Progress(r)'
    BY <1>3, <1>4, <2>2, <2>5, <2>6
       DEF Progress, Stored, Colored, Picture, WithList, IsImage, originals
  <2>8. QED
    BY <1>1, <1>2, <1>3, <1>4, <2>2, <2>3, <2>4, <2>7, PassingStep
       DEF HistoryTypes, Plain, PC, Aside
<1>5. CASE End(r) /\ Excuse({"stale"}, {a})
  BY <1>1, <1>2, <1>3, <1>5, GiveUp DEF originals, visuals, backfill, VisualTypes
<1>6. QED
  BY <1>4, <1>5

-----------------------------------------------------------------------------
(* The generation of a missing picture.                                    *)

LEMMA LookupGetInv ==
    ASSUME IInv, NEW r \in Requests, NEW a \in Assets, rasset[r] = a,
           LookupGet(r), UNCHANGED asked
    PROVE  IInv'
<1> USE DEF LookupGet
<1>1. rpc[r] = "lk_get" /\ rpc[r] \in Plain
  BY DEF Plain, PC, Aside
<1>2. /\ a \in born /\ a # None
      /\ Shape(r) /\ Progress(r) /\ RequestTypes /\ HistoryTypes
  BY <1>1, Begun
<1>3. UNCHANGED <<originals, visuals, cover, backfill, asked>> /\ excused' = excused
  OBVIOUS
<1>4. CASE row[a] # None /\ Goto(r, "lk_open")
  <2>1. /\ Others(r) /\ RequestTypes' /\ rpc'[r] = "lk_open"
        /\ rasset' = rasset /\ rop' = rop /\ rdata' = rdata /\ rparent' = rparent
        /\ rvisual' = rvisual /\ rlist' = rlist
        /\ \A v : Mentions(r, v)' <=> Mentions(r, v)
    BY <1>2, <1>4, GotoFacts DEF PC
  <2>2. Shape(r)'
    BY <1>1, <1>2, <1>3, <2>1 DEF Shape, WithVisual, WithList, WithData, originals
  <2>3. One(a)' /\ VisualsOf(a)' = VisualsOf(a) /\ Newest(a)' = Newest(a)
    BY <1>2, <1>3, <2>1, SameVisuals DEF visuals
  <2>4. file' = file /\ row' = row /\ colors' = colors /\ vext' = vext /\ vfile' = vfile
    BY <1>3 DEF originals, visuals
  <2>5. Agrees(a)' <=> Agrees(a)
    BY <2>3, <2>4 DEF Agrees, ColorsAgree, IsImage
  <2>6. Progress(r)'
    BY <1>1, <1>2, <1>3, <2>1, <2>3, <2>4, <2>5
       DEF Progress, Stored, Colored, Picture, WithList, IsImage, Aside
  <2>7. QED
    BY <1>1, <1>2, <1>3, <1>4, <2>1, <2>2, <2>3, <2>6, PassingStep
       DEF HistoryTypes, Plain, PC, Aside
<1>5. CASE End(r)
  <2>1. /\ Others(r) /\ RequestTypes' /\ Shape(r)' /\ rpc'[r] = "idle" /\ rasset'[r] = None
        /\ \A v \in Visuals : ~ Mentions(r, v)'
    BY <1>2, <1>5, EndFacts
  <2>2. One(a)'
    BY <1>2, <1>3, <2>1, SameVisuals DEF visuals
  <2>3. ~ Brings(r, a)'
    BY <1>2, <2>1 DEF Brings
  <2>4. a \notin excused["stale"] /\ row[a] # None => Agrees(a)
    BY <1>1, <1>2 DEF Progress, Aside
  <2>5. QED
    BY <1>1, <1>2, <1>3, <2>1, <2>2, <2>3, <2>4, PassingStep DEF HistoryTypes
<1>6. QED
  BY <1>4, <1>5

\* r goes on with the type it read before and the content as it is now.
LEMMA LookupOpenInv ==
    ASSUME IInv, NEW r \in Requests, NEW a \in Assets, rasset[r] = a,
           LookupOpen(r), UNCHANGED asked
    PROVE  IInv'
<1> USE DEF LookupOpen
<1>1. rpc[r] = "lk_open" /\ rpc[r] \in Plain
  BY DEF Plain, PC, Aside
<1>2. /\ a \in born /\ a # None
      /\ Shape(r) /\ Progress(r) /\ RequestTypes /\ HistoryTypes /\ OriginalTypes
  BY <1>1, Begun
<1>3. UNCHANGED <<originals, visuals, cover, backfill, asked>> /\ excused' = excused
  OBVIOUS
<1>4. Brings(r, a)
  BY <1>1 DEF Brings
<1>5. a \notin excused["stale"] /\ row[a] # None =>
         Agrees(a) /\ rparent[r] = MediaType[row[a]] /\ ~ IsImage(row[a])
  BY <1>1, <1>2 DEF Progress, Aside
<1>6. CASE file[a] # None /\ Refresh(r, rparent[r], file[a])
  <2>1. rparent[r] \in Types \cup {None} /\ file[a] \in Contents \cup {None}
    BY <1>2 DEF OriginalTypes, RequestTypes
  <2>2. /\ Others(r) /\ RequestTypes'
        /\ rpc'[r] = (IF rparent[r] = "image" THEN "v_list" ELSE "v_find")
        /\ rdata'[r] = file[a] /\ rparent'[r] = rparent[r]
        /\ rasset' = rasset /\ rop' = rop /\ rvisual' = rvisual /\ rlist' = rlist
        /\ \A v : Mentions(r, v)' <=> Mentions(r, v)
    BY <1>2, <1>6, <2>1, RefreshFacts
  <2>3. Shape(r)'
    BY <1>1, <1>2, <1>3, <1>6, <2>2 DEF Shape, WithVisual, WithList, WithData, originals
  <2>4. One(a)'
    BY <1>2, <1>3, <2>2, SameVisuals DEF visuals
  <2>5. file' = file /\ row' = row /\ colors' = colors
    BY <1>3 DEF originals
  <2>6. ColorsAgree(a)' <=> ColorsAgree(a)
    BY <2>5 DEF ColorsAgree, IsImage
  <2>7. a \notin excused["stale"] /\ row[a] # None =>
           /\ rpc'[r] = "v_find" /\ row[a] = file[a] /\ ColorsAgree(a)
           /\ rparent[r] = MediaType[file[a]] /\ ~ IsImage(file[a])
    BY <1>5, <2>2 DEF Agrees, IsImage
  <2>8. Progress(r)'
    BY <1>3, <2>2, <2>5, <2>6, <2>7
       DEF Progress, Stored, Colored, Picture, WithList, IsImage
  <2>9. QED
    BY <1>1, <1>2, <1>3, <1>4, <2>2, <2>3, <2>4, <2>8, PassingStep
       DEF HistoryTypes, Plain, PC, Aside
<1>7. CASE End(r)
  <2>1. /\ Others(r) /\ RequestTypes' /\ Shape(r)' /\ rpc'[r] = "idle" /\ rasset'[r] = None
        /\ \A v \in Visuals : ~ Mentions(r, v)'
    BY <1>2, <1>7, EndFacts
  <2>2. One(a)'
    BY <1>2, <1>3, <2>1, SameVisuals DEF visuals
  <2>3. QED
    BY <1>1, <1>2, <1>3, <1>4, <1>5, <2>1, <2>2, PassingStep DEF HistoryTypes
<1>8. QED
  BY <1>6, <1>7

\* A second generation of the same visual is excused when it starts.
LEMMA FindVisualInv ==
    ASSUME IInv, NEW r \in Requests, NEW a \in Assets, rasset[r] = a,
           FindVisual(r), UNCHANGED asked
    PROVE  IInv'
<1> DEFINE also == \E q \in Requests \ {r} : rasset[q] = a /\ rpc[q] \in {"v_save", "v_row"}
<1> USE DEF FindVisual
<1>1. rpc[r] = "v_find" /\ rpc[r] \in Plain
  BY DEF Plain, PC, Aside
<1>2. /\ a \in born /\ a # None
      /\ Shape(r) /\ Progress(r) /\ RequestTypes /\ HistoryTypes /\ OriginalTypes /\ VisualTypes
      /\ Asset(a)
  BY <1>1, Begun
<1>3. UNCHANGED <<originals, visuals, cover, backfill, asked>>
  OBVIOUS
<1>4. /\ born' = born /\ file' = file /\ row' = row /\ colors' = colors /\ vof' = vof
      /\ vext' = vext /\ vfile' = vfile
  BY <1>3 DEF originals, visuals
<1>5. VisualsOf(a)' = VisualsOf(a) /\ Newest(a)' = Newest(a)
  BY <1>4 DEF VisualsOf, Newest
<1>6. ColorsAgree(a)' <=> ColorsAgree(a)
  BY <1>4 DEF ColorsAgree, IsImage
<1>7. Brings(r, a) /\ rdata[r] # None /\ rvisual[r] = None /\ rlist[r] = {}
  BY <1>1, <1>2 DEF Brings, Shape, WithData, WithVisual, WithList
<1>8. a \notin excused["stale"] /\ row[a] # None =>
         /\ row[a] = file[a] /\ file[a] = rdata[r] /\ ColorsAgree(a)
         /\ rparent[r] = MediaType[file[a]] /\ ~ IsImage(file[a])
  BY <1>1, <1>2 DEF Progress, Aside, Stored, Colored, Picture
<1>9. CASE /\ VisualsOf(a) = {} /\ Goto(r, "v_save")
           /\ Excuse({"one"}, IF also THEN {a} ELSE {})
  <2>1. /\ Others(r) /\ RequestTypes' /\ rpc'[r] = "v_save"
        /\ rasset' = rasset /\ rop' = rop /\ rdata' = rdata /\ rparent' = rparent
        /\ rvisual' = rvisual /\ rlist' = rlist
        /\ \A v : Mentions(r, v)' <=> Mentions(r, v)
    BY <1>2, <1>9, GotoFacts DEF PC
  <2>2. {"one"} \in SUBSET Promises /\ (IF also THEN {a} ELSE {}) \in SUBSET (Assets \cup Visuals)
    BY DEF Promises
  <2>3. /\ HistoryTypes' /\ \A p \in Promises : excused[p] \subseteq excused'[p]
        /\ \A p \in Promises : excused'[p] \subseteq excused[p] \cup (IF also THEN {a} ELSE {})
        /\ (IF also THEN {a} ELSE {}) \subseteq excused'["one"]
    BY <1>2, <1>9, <2>2, ExcuseFacts
  <2>4. \A p \in Promises : excused'[p] \subseteq excused[p] \cup {a}
    BY <2>3
  <2>5. Shape(r)'
    BY <1>1, <1>2, <1>4, <2>1 DEF Shape, WithVisual, WithList, WithData
  <2>6. One(a)'
    <3>1. ASSUME a \notin excused'["one"]
          PROVE  \A q \in Requests : Generating(q, a)' => q = r
      BY <2>1, <2>3, <3>1 DEF Generating, Others
    <3>2. QED
      BY <1>5, <1>9, <3>1 DEF One
  <2>7. a \notin excused'["stale"] => a \notin excused["stale"]
    BY <2>3 DEF Promises
  <2>8. a \notin excused'["stale"] /\ row[a] # None => Progress(r)'
    BY <1>4, <1>5, <1>6, <1>8, <1>9, <2>1, <2>7
       DEF Progress, Stored, Colored, Picture, WithList, IsImage
  <2>9. \A v \in Visuals : Mentions(r, v)' =>
           rasset'[r] = a /\ (Mentions(r, v) \/ vof[v] = a)
    BY <2>1
  <2>10. rpc'[r] \in Plain
    BY <2>1 DEF Plain, PC, Aside
  <2>11. QED
    BY <1>1, <1>3, <1>7, <2>1, <2>3, <2>4, <2>5, <2>6, <2>8, <2>9, <2>10, PassingStep
       DEF Plain, Aside
<1>10. CASE /\ \E v \in Newest(a) : rvisual' = [rvisual EXCEPT ![r] = <<v, vext[v]>>]
            /\ rpc' = [rpc EXCEPT ![r] = "v_over"]
            /\ UNCHANGED <<rasset, rop, rdata, rparent, rlist, excused>>
  <2>1. PICK v \in Newest(a) : rvisual' = [rvisual EXCEPT ![r] = <<v, vext[v]>>]
    BY <1>10
  <2>2. v \in Visuals /\ vof[v] = a /\ vext[v] \in Ext
    BY <1>2 DEF Newest, VisualsOf, VisualTypes
  <2>3. Others(r) /\ RequestTypes' /\ rpc'[r] = "v_over" /\ rvisual'[r] = <<v, vext[v]>>
    BY <1>2, <1>10, <2>1, <2>2 DEF Others, RequestTypes, PC
  <2>4. <<v, vext[v]>> # None /\ <<v, vext[v]>>[1] = v
    BY <2>2, LifecycleAssumption DEF Ext
  <2>5. Shape(r)'
    BY <1>1, <1>2, <1>4, <1>7, <1>10, <2>3, <2>4 DEF Shape, WithVisual, WithList, WithData
  <2>6. One(a)'
    BY <1>2, <1>4, <1>10, <2>3, SameVisuals
  <2>7. \A w \in Visuals : Mentions(r, w)' => w = v
    BY <1>7, <1>10, <2>3 DEF Mentions
  <2>8. Progress(r)'
    BY <1>4, <1>5, <1>6, <1>8, <1>10, <2>3, <2>4
       DEF Progress, Stored, Colored, Picture, WithList, IsImage
  <2>9. QED
    BY <1>1, <1>2, <1>3, <1>7, <1>10, <2>2, <2>3, <2>5, <2>6, <2>7, <2>8, PassingStep
       DEF HistoryTypes, Plain, PC, Aside
<1>11. CASE End(r) /\ Excuse({"stale"}, {a})
  BY <1>1, <1>2, <1>3, <1>11, GiveUp DEF originals, visuals, backfill, VisualTypes
<1>12. QED
  BY <1>9, <1>10, <1>11

\* The file is stored under a key that no row and no request has.
LEMMA SaveVisualInv ==
    ASSUME IInv, NEW r \in Requests, NEW a \in Assets, rasset[r] = a,
           SaveVisual(r), UNCHANGED asked
    PROVE  IInv'
<1>1. rpc[r] = "v_save" /\ rpc[r] \in Plain
  BY DEF Plain, PC, Aside, SaveVisual
<1>2. /\ a \in born /\ a # None
      /\ Shape(r) /\ Progress(r) /\ OriginalTypes /\ VisualTypes /\ CoverTypes
      /\ RequestTypes /\ ScanTypes /\ HistoryTypes /\ BoundTypes /\ Asset(a)
  BY <1>1, Begun
<1>3. /\ born' = born /\ file' = file /\ row' = row /\ colors' = colors /\ vof' = vof
      /\ vext' = vext /\ cover' = cover /\ scan' = scan /\ held' = held /\ asked' = asked
  BY DEF originals, backfill, SaveVisual
<1>4. VisualsOf(a)' = VisualsOf(a) /\ Newest(a)' = Newest(a)
  BY <1>3 DEF VisualsOf, Newest
<1>5. ColorsAgree(a)' <=> ColorsAgree(a)
  BY <1>3 DEF ColorsAgree, IsImage
<1>6. /\ Brings(r, a) /\ Generating(r, a)
      /\ rdata[r] # None /\ rdata[r] \in Contents \cup {None} /\ rlist[r] = {}
  BY <1>1, <1>2 DEF Brings, Generating, Shape, WithData, WithList, RequestTypes
<1>7. ASSUME NEW v \in Visuals, NEW key, key = <<v, ExtOf(rparent[r])>>,
             Fresh(v), vfile' = [vfile EXCEPT ![key] = rdata[r]],
             rvisual' = [rvisual EXCEPT ![r] = key],
             rpc' = [rpc EXCEPT ![r] = "v_row"],
             UNCHANGED <<rasset, rop, rdata, rparent, rlist, excused>>
      PROVE  IInv'
  <2>1. key \in Visuals \X Ext /\ key # None /\ key[1] = v /\ key[2] = ExtOf(rparent[r])
    BY <1>7, LifecycleAssumption DEF Ext, ExtOf
  <2>2. Others(r) /\ RequestTypes' /\ rpc'[r] = "v_row" /\ rvisual'[r] = key
    BY <1>2, <1>7, <2>1 DEF Others, RequestTypes, PC
  <2>3. /\ vfile' \in [Visuals \X Ext -> Contents \cup {None}] /\ vfile'[key] = rdata[r]
        /\ \A w \in Visuals, e \in Ext : vfile'[<<w, e>>] # vfile[<<w, e>>] => w = v
    BY <1>2, <1>6, <1>7, <2>1 DEF VisualTypes
  <2>4. TypeOK'
    BY <1>2, <1>3, <1>7, <2>2, <2>3, TypePartsNext
       DEF OriginalTypes, VisualTypes, CoverTypes, ScanTypes, HistoryTypes, BoundTypes
  <2>5. \A w \in Visuals : Mentions(r, w)' => w = v
    BY <1>6, <1>7, <2>2 DEF Mentions
  <2>6. Frame(r, a)
    BY <1>3, <1>7, <2>2, <2>3, <2>5 DEF Frame, NamedKept, Promises
  <2>7. Shape(r)'
    BY <1>1, <1>2, <1>3, <1>6, <1>7, <2>1, <2>2 DEF Shape, WithVisual, WithList, WithData
  <2>8. One(a)'
    BY <1>3, <1>6, <1>7, <2>2, SameVisuals
  <2>9. Progress(r)'
    BY <1>1, <1>2, <1>3, <1>4, <1>5, <1>7, <2>1, <2>2, <2>3
       DEF Progress, Stored, Colored, Picture, WithList, IsImage, ExtOf, Aside
  <2>10. rpc'[r] \in Plain
    BY <2>2 DEF Plain, PC, Aside
  <2>11. QED
    BY <1>1, <1>3, <1>4, <1>6, <1>7, <2>4, <2>6, <2>7, <2>8, <2>9, <2>10, PlainStep
       DEF Plain, Aside
<1>8. CASE End(r) /\ Excuse({"stale"}, {a}) /\ UNCHANGED vfile
  BY <1>1, <1>2, <1>3, <1>8, GiveUp DEF originals, backfill, VisualTypes
<1>9. QED
  BY <1>7, <1>8 DEF SaveVisual

\* The key that a request writes is that of one visual.
LEMMA VisualInHand ==
    ASSUME IInv, NEW r \in Requests, rpc[r] \in WithVisual
    PROVE  /\ rvisual[r] \in Visuals \X Ext /\ rvisual[r] # None
           /\ rvisual[r] = <<rvisual[r][1], rvisual[r][2]>>
           /\ rvisual[r][1] \in Visuals /\ rvisual[r][2] \in Ext
           /\ Mentions(r, rvisual[r][1])
<1>1. rvisual[r] \in Visuals \X Ext /\ rvisual[r] # None
  BY DEF IInv, Request, Shape, TypeOK
<1>2. /\ rvisual[r] = <<rvisual[r][1], rvisual[r][2]>>
      /\ rvisual[r][1] \in Visuals /\ rvisual[r][2] \in Ext
  BY <1>1
<1>3. Mentions(r, rvisual[r][1])
  BY <1>2 DEF Mentions
<1>4. QED
  BY <1>1, <1>2, <1>3

\* The first visual of an asset, unless two generations overlap.
LEMMA CreateVisualInv ==
    ASSUME IInv, NEW r \in Requests, NEW a \in Assets, rasset[r] = a,
           CreateVisual(r), UNCHANGED asked
    PROVE  IInv'
<1>1. rpc[r] = "v_row" /\ rpc[r] \in Plain
  BY DEF Plain, PC, Aside, CreateVisual
<1>2. /\ a \in born /\ a # None
      /\ Shape(r) /\ Progress(r) /\ OriginalTypes /\ VisualTypes /\ CoverTypes
      /\ RequestTypes /\ ScanTypes /\ HistoryTypes /\ BoundTypes /\ Asset(a)
  BY <1>1, Begun
<1>3. /\ born' = born /\ file' = file /\ row' = row /\ colors' = colors
      /\ cover' = cover /\ scan' = scan /\ held' = held /\ asked' = asked
  BY DEF originals, backfill, CreateVisual
<1> DEFINE key == rvisual[r]
<1>4. PICK v \in Visuals, e \in Ext : key = <<v, e>> /\ key # None /\ Mentions(r, v)
  BY <1>1, VisualInHand DEF WithVisual
<1>5. key[1] = v /\ key[2] = e
  BY <1>4
<1>6. Brings(r, a) /\ Generating(r, a) /\ rdata[r] # None
  BY <1>1, <1>2 DEF Brings, Generating, Shape, WithData
<1>7. CASE /\ vof' = [vof EXCEPT ![v] = a] /\ vext' = [vext EXCEPT ![v] = e]
           /\ Goto(r, "v_attrs") /\ UNCHANGED <<vfile, excused>>
  <2>1. /\ Others(r) /\ RequestTypes' /\ rpc'[r] = "v_attrs"
        /\ rasset' = rasset /\ rop' = rop /\ rdata' = rdata /\ rparent' = rparent
        /\ rvisual' = rvisual /\ rlist' = rlist
        /\ \A w : Mentions(r, w)' <=> Mentions(r, w)
    BY <1>2, <1>7, GotoFacts DEF PC
  <2>2. /\ vof' \in [Visuals -> Assets \cup {None}] /\ vext' \in [Visuals -> Ext]
        /\ vof'[v] = a /\ vext'[v] = e
        /\ \A w \in Visuals \ {v} : vof'[w] = vof[w] /\ vext'[w] = vext[w]
    BY <1>2, <1>7 DEF VisualTypes
  <2>3. TypeOK'
    BY <1>2, <1>3, <1>7, <2>1, <2>2, TypePartsNext
       DEF OriginalTypes, VisualTypes, CoverTypes, ScanTypes, HistoryTypes, BoundTypes
  <2>4. Frame(r, a)
    <3>1. NamedKept(r)
      BY <1>2, <1>7, <2>2 DEF NamedKept
    <3>2. QED
      BY <1>3, <1>4, <1>7, <2>1, <2>2, <3>1 DEF Frame
  <2>5. Shape(r)'
    BY <1>1, <1>2, <1>3, <1>4, <2>1 DEF Shape, WithVisual, WithList, WithData
  <2>6. VisualsOf(a)' = VisualsOf(a) \cup {v}
    BY <2>2 DEF VisualsOf
  <2>7. One(a)'
    <3>1. a \notin excused["one"] => VisualsOf(a) = {} /\ \A q \in Requests : ~ Generating(q, a)'
      BY <1>2, <1>6, <2>1 DEF Asset, One, Generating, Others
    <3>2. QED
      BY <1>7, <2>6, <3>1 DEF One
  <2>8. a \notin excused["stale"] /\ row[a] # None => Agrees(a)' /\ Progress(r)'
    <3>1. SUFFICES ASSUME a \notin excused["stale"], row[a] # None
                   PROVE  Agrees(a)' /\ Progress(r)'
      OBVIOUS
    <3>2. /\ row[a] = file[a] /\ file[a] = rdata[r] /\ ColorsAgree(a)
          /\ rparent[r] = MediaType[file[a]] /\ ~ IsImage(file[a])
          /\ VisualsOf(a) = {} /\ vfile[key] = rdata[r]
      BY <1>1, <1>2, <3>1 DEF Progress, Aside, Stored, Colored, Picture
    <3>3. ColorsAgree(a)' <=> ColorsAgree(a)
      BY <1>3 DEF ColorsAgree, IsImage
    <3>4. \A w \in Newest(a)' : w = v
      BY <2>6, <3>2 DEF Newest
    <3>5. vfile'[<<v, vext'[v]>>] = file'[a]
      BY <1>3, <1>4, <1>7, <2>2, <3>2
    <3>6. Agrees(a)'
      BY <1>3, <3>2, <3>3, <3>4, <3>5 DEF Agrees, IsImage
    <3>7. QED
      BY <1>3, <2>1, <3>2, <3>3, <3>6
         DEF Progress, Stored, Colored, Picture, WithList, IsImage
  <2>9. rpc'[r] \in Plain
    BY <2>1 DEF Plain, PC, Aside
  <2>10. QED
    BY <1>1, <1>3, <1>6, <1>7, <2>1, <2>3, <2>4, <2>5, <2>7, <2>8, <2>9, PlainStep
       DEF Plain, Aside
<1>8. CASE /\ vfile' = [vfile EXCEPT ![key] = None]
           /\ End(r) /\ Excuse({"stale"}, {a}) /\ UNCHANGED <<vof, vext>>
  <2>1. /\ vfile' \in [Visuals \X Ext -> Contents \cup {None}]
        /\ \A w \in Visuals, x \in Ext : vfile'[<<w, x>>] # vfile[<<w, x>>] => w = v
    BY <1>2, <1>4, <1>8 DEF VisualTypes
  <2>2. QED
    BY <1>1, <1>2, <1>3, <1>4, <1>8, <2>1, GiveUp DEF originals, backfill
<1>9. QED
  BY <1>5, <1>7, <1>8 DEF CreateVisual

LEMMA CopyAttributesInv ==
    ASSUME IInv, NEW r \in Requests, NEW a \in Assets, rasset[r] = a,
           CopyAttributes(r), UNCHANGED asked
    PROVE  IInv'
<1> USE DEF CopyAttributes
<1>1. rpc[r] = "v_attrs" /\ rpc[r] \in Plain
  BY DEF Plain, PC, Aside
<1>2. /\ a \in born /\ a # None
      /\ Shape(r) /\ Progress(r) /\ VisualTypes /\ RequestTypes /\ HistoryTypes
  BY <1>1, Begun
<1>3. UNCHANGED <<originals, vof, vext, cover, backfill, asked>>
  OBVIOUS
<1>4. CASE UNCHANGED <<vfile, excused>>
  <2>1. /\ Others(r) /\ RequestTypes' /\ Shape(r)' /\ rpc'[r] = "idle" /\ rasset'[r] = None
        /\ \A v \in Visuals : ~ Mentions(r, v)'
    BY <1>2, EndFacts
  <2>2. One(a)'
    BY <1>2, <1>3, <1>4, <2>1, SameVisuals
  <2>3. ~ Brings(r, a)'
    BY <1>2, <2>1 DEF Brings
  <2>4. a \notin excused["stale"] /\ row[a] # None => Agrees(a)
    BY <1>1, <1>2 DEF Progress, Aside
  <2>5. UNCHANGED <<originals, visuals, cover, backfill, asked>>
    BY <1>4 DEF visuals
  <2>6. QED
    BY <1>1, <1>2, <1>4, <2>1, <2>2, <2>3, <2>4, <2>5, PassingStep DEF HistoryTypes
<1>5. CASE vfile' = [vfile EXCEPT ![rvisual[r]] = None] /\ Excuse({"stale"}, {a})
  <2>1. PICK v \in Visuals, e \in Ext : rvisual[r] = <<v, e>> /\ Mentions(r, v)
    BY <1>1, VisualInHand DEF WithVisual
  <2>2. /\ vfile' \in [Visuals \X Ext -> Contents \cup {None}]
        /\ \A w \in Visuals, x \in Ext : vfile'[<<w, x>>] # vfile[<<w, x>>] => w = v
    BY <1>2, <1>5, <2>1 DEF VisualTypes
  <2>3. QED
    BY <1>1, <1>2, <1>3, <1>5, <2>1, <2>2, GiveUp DEF originals, backfill
<1>6. QED
  BY <1>4, <1>5

-----------------------------------------------------------------------------
(* The picture made anew.  Until a step fails, r has the newest visual and *)
(* its file under the new extension.                                       *)

LEMMA OverwriteVisualInv ==
    ASSUME IInv, NEW r \in Requests, NEW a \in Assets, rasset[r] = a,
           OverwriteVisual(r), UNCHANGED asked
    PROVE  IInv'
<1>1. rpc[r] = "v_over" /\ rpc[r] \in Plain
  BY DEF Plain, PC, Aside, OverwriteVisual
<1>2. /\ a \in born /\ a # None
      /\ Shape(r) /\ Progress(r) /\ OriginalTypes /\ VisualTypes /\ CoverTypes
      /\ RequestTypes /\ ScanTypes /\ HistoryTypes /\ BoundTypes /\ Asset(a)
  BY <1>1, Begun
<1>3. /\ born' = born /\ file' = file /\ row' = row /\ colors' = colors
      /\ vof' = vof /\ vext' = vext
      /\ cover' = cover /\ scan' = scan /\ held' = held /\ asked' = asked
  BY DEF originals, backfill, OverwriteVisual
<1> DEFINE v == rvisual[r][1]
           e == ExtOf(rparent[r])
<1>4. rvisual[r] # None /\ v \in Visuals /\ Mentions(r, v) /\ e \in Ext
  BY <1>1, VisualInHand DEF WithVisual, ExtOf, Ext
<1>5. rdata[r] # None /\ rdata[r] \in Contents \cup {None}
  BY <1>1, <1>2 DEF Shape, WithData, RequestTypes
<1>6. CASE /\ vfile' = [vfile EXCEPT ![<<v, e>>] = rdata[r]]
           /\ Goto(r, IF rvisual[r][2] # e THEN "v_drop" ELSE "v_copy")
           /\ UNCHANGED excused
  <2>1. /\ Others(r) /\ RequestTypes' /\ rpc'[r] \in {"v_drop", "v_copy"}
        /\ rpc'[r] = "v_drop" => rvisual[r][2] # e
        /\ rasset' = rasset /\ rop' = rop /\ rdata' = rdata /\ rparent' = rparent
        /\ rvisual' = rvisual /\ rlist' = rlist
        /\ \A w : Mentions(r, w)' <=> Mentions(r, w)
    <3>1. (IF rvisual[r][2] # e THEN "v_drop" ELSE "v_copy") \in PC
      BY DEF PC
    <3>2. QED
      BY <1>2, <1>6, <3>1, GotoFacts
  <2>2. /\ vfile' \in [Visuals \X Ext -> Contents \cup {None}] /\ vfile'[<<v, e>>] = rdata[r]
        /\ \A w \in Visuals, x \in Ext : vfile'[<<w, x>>] # vfile[<<w, x>>] => w = v
    BY <1>2, <1>4, <1>5, <1>6 DEF VisualTypes
  <2>3. TypeOK'
    BY <1>2, <1>3, <1>6, <2>1, <2>2, TypePartsNext
       DEF OriginalTypes, VisualTypes, CoverTypes, ScanTypes, HistoryTypes, BoundTypes
  <2>4. Frame(r, a)
    BY <1>3, <1>4, <1>6, <2>1, <2>2 DEF Frame, NamedKept, Promises
  <2>5. Shape(r)'
    BY <1>1, <1>2, <1>3, <1>4, <1>5, <2>1 DEF Shape, WithVisual, WithList, WithData
  <2>6. One(a)' /\ VisualsOf(a)' = VisualsOf(a) /\ Newest(a)' = Newest(a)
    BY <1>2, <1>3, <1>6, <2>1, SameVisuals
  <2>7. ~ Brings(r, a)'
    BY <2>1 DEF Brings
  <2>8. ColorsAgree(a)' <=> ColorsAgree(a)
    BY <1>3 DEF ColorsAgree, IsImage
  <2>9. Progress(r)'
    BY <1>1, <1>2, <1>3, <1>6, <2>1, <2>2, <2>6, <2>8
       DEF Progress, Stored, Colored, Picture, WithList, IsImage, ExtOf, Aside
  <2>10. rpc'[r] \in Plain
    BY <2>1 DEF Plain, PC, Aside
  <2>11. QED
    BY <1>1, <1>3, <1>6, <2>1, <2>3, <2>4, <2>5, <2>6, <2>7, <2>9, <2>10, PlainStep
       DEF Plain, Aside
<1>7. CASE End(r) /\ Excuse({"stale"}, {a}) /\ UNCHANGED vfile
  BY <1>1, <1>2, <1>3, <1>7, GiveUp DEF originals, backfill, VisualTypes
<1>8. QED
  BY <1>6, <1>7 DEF OverwriteVisual

LEMMA DropOldFileInv ==
    ASSUME IInv, NEW r \in Requests, NEW a \in Assets, rasset[r] = a,
           DropOldFile(r), UNCHANGED asked
    PROVE  IInv'
<1>1. rpc[r] = "v_drop" /\ rpc[r] \in Plain
  BY DEF Plain, PC, Aside, DropOldFile
<1>2. /\ a \in born /\ a # None
      /\ Shape(r) /\ Progress(r) /\ OriginalTypes /\ VisualTypes /\ CoverTypes
      /\ RequestTypes /\ ScanTypes /\ HistoryTypes /\ BoundTypes /\ Asset(a)
  BY <1>1, Begun
<1>3. /\ born' = born /\ file' = file /\ row' = row /\ colors' = colors
      /\ vof' = vof /\ vext' = vext /\ excused' = excused
      /\ cover' = cover /\ scan' = scan /\ held' = held /\ asked' = asked
  BY DEF originals, backfill, DropOldFile
<1> DEFINE v == rvisual[r][1]
           x == rvisual[r][2]
           e == ExtOf(rparent[r])
<1>4. /\ rvisual[r] # None /\ rvisual[r] = <<v, x>> /\ v \in Visuals /\ x \in Ext
      /\ Mentions(r, v) /\ e \in Ext
  BY <1>1, VisualInHand DEF WithVisual, ExtOf, Ext
<1>5. rdata[r] # None
  BY <1>1, <1>2 DEF Shape, WithData
<1>6. vfile' = [vfile EXCEPT ![<<v, x>>] = None] /\ Goto(r, "v_copy")
  BY <1>4 DEF DropOldFile
<1>7. /\ Others(r) /\ RequestTypes' /\ rpc'[r] = "v_copy"
      /\ rasset' = rasset /\ rop' = rop /\ rdata' = rdata /\ rparent' = rparent
      /\ rvisual' = rvisual /\ rlist' = rlist
      /\ \A w : Mentions(r, w)' <=> Mentions(r, w)
  BY <1>2, <1>6, GotoFacts DEF PC
<1>8. /\ vfile' \in [Visuals \X Ext -> Contents \cup {None}]
      /\ \A w \in Visuals, y \in Ext : vfile'[<<w, y>>] # vfile[<<w, y>>] => w = v /\ y = x
  BY <1>2, <1>4, <1>6 DEF VisualTypes
<1>9. TypeOK'
  BY <1>2, <1>3, <1>7, <1>8, TypePartsNext
     DEF OriginalTypes, VisualTypes, CoverTypes, ScanTypes, HistoryTypes, BoundTypes
<1>10. Frame(r, a)
  BY <1>3, <1>4, <1>7, <1>8 DEF Frame, NamedKept, Promises
<1>11. Shape(r)'
  BY <1>1, <1>2, <1>3, <1>4, <1>5, <1>7 DEF Shape, WithVisual, WithList, WithData
<1>12. One(a)' /\ VisualsOf(a)' = VisualsOf(a) /\ Newest(a)' = Newest(a)
  BY <1>2, <1>3, <1>7, SameVisuals
<1>13. ~ Brings(r, a)'
  BY <1>7 DEF Brings
<1>14. Progress(r)'
  <2>1. ColorsAgree(a)' <=> ColorsAgree(a)
    BY <1>3 DEF ColorsAgree, IsImage
  <2>2. x # e => vfile'[<<v, e>>] = vfile[<<v, e>>]
    BY <1>4, <1>8
  <2>3. QED
    BY <1>1, <1>2, <1>3, <1>7, <1>12, <2>1, <2>2
       DEF Progress, Stored, Colored, Picture, WithList, IsImage, ExtOf, Aside
<1>15. rpc'[r] \in Plain
  BY <1>7 DEF Plain, PC, Aside
<1>16. QED
  BY <1>1, <1>3, <1>7, <1>9, <1>10, <1>11, <1>12, <1>13, <1>14, <1>15, PlainStep
     DEF Plain, Aside

LEMMA RecopyAttributesInv ==
    ASSUME IInv, NEW r \in Requests, NEW a \in Assets, rasset[r] = a,
           RecopyAttributes(r), UNCHANGED asked
    PROVE  IInv'
<1> USE DEF RecopyAttributes
<1>1. rpc[r] = "v_copy" /\ rpc[r] \in Plain
  BY DEF Plain, PC, Aside
<1>2. /\ a \in born /\ a # None
      /\ Shape(r) /\ Progress(r) /\ RequestTypes /\ HistoryTypes /\ VisualTypes
  BY <1>1, Begun
<1>3. UNCHANGED <<originals, visuals, cover, backfill, asked>>
  OBVIOUS
<1>4. CASE Goto(r, "v_update") /\ UNCHANGED excused
  <2>1. /\ Others(r) /\ RequestTypes' /\ rpc'[r] = "v_update"
        /\ rasset' = rasset /\ rop' = rop /\ rdata' = rdata /\ rparent' = rparent
        /\ rvisual' = rvisual /\ rlist' = rlist
        /\ \A v : Mentions(r, v)' <=> Mentions(r, v)
    BY <1>2, <1>4, GotoFacts DEF PC
  <2>2. Shape(r)'
    BY <1>1, <1>2, <1>3, <2>1 DEF Shape, WithVisual, WithList, WithData, originals
  <2>3. One(a)' /\ Newest(a)' = Newest(a)
    BY <1>2, <1>3, <1>4, <2>1, SameVisuals DEF visuals
  <2>4. file' = file /\ row' = row /\ colors' = colors /\ vfile' = vfile
    BY <1>3 DEF originals, visuals
  <2>5. ColorsAgree(a)' <=> ColorsAgree(a)
    BY <2>4 DEF ColorsAgree, IsImage
  <2>6. Progress(r)'
    BY <1>1, <1>2, <1>4, <2>1, <2>3, <2>4, <2>5
       DEF Progress, Stored, Colored, Picture, WithList, IsImage, ExtOf, Aside
  <2>7. ~ Brings(r, a)'
    BY <2>1 DEF Brings
  <2>8. QED
    BY <1>1, <1>2, <1>3, <1>4, <2>1, <2>2, <2>3, <2>6, <2>7, PassingStep
       DEF HistoryTypes, Plain, PC, Aside
<1>5. CASE End(r) /\ Excuse({"stale"}, {a})
  BY <1>1, <1>2, <1>3, <1>5, GiveUp DEF originals, visuals, backfill, VisualTypes
<1>6. QED
  BY <1>4, <1>5

\* The row of the visual gets the extension that its file has.
LEMMA UpdateVisualInv ==
    ASSUME IInv, NEW r \in Requests, NEW a \in Assets, rasset[r] = a,
           UpdateVisual(r), UNCHANGED asked
    PROVE  IInv'
<1>1. rpc[r] = "v_update" /\ rpc[r] \in Plain
  BY DEF Plain, PC, Aside, UpdateVisual
<1>2. /\ a \in born /\ a # None
      /\ Shape(r) /\ Progress(r) /\ OriginalTypes /\ VisualTypes /\ CoverTypes
      /\ RequestTypes /\ ScanTypes /\ HistoryTypes /\ BoundTypes /\ Asset(a)
  BY <1>1, Begun
<1>3. /\ born' = born /\ file' = file /\ row' = row /\ colors' = colors
      /\ vof' = vof /\ vfile' = vfile
      /\ cover' = cover /\ scan' = scan /\ held' = held /\ asked' = asked
  BY DEF originals, backfill, UpdateVisual
<1>4. PICK v \in Visuals, e \in Ext :
         v = rvisual[r][1] /\ e = ExtOf(rparent[r]) /\ Mentions(r, v)
  BY <1>1, VisualInHand DEF WithVisual, ExtOf, Ext
<1>5. /\ Others(r) /\ RequestTypes' /\ Shape(r)' /\ rpc'[r] = "idle" /\ rasset'[r] = None
      /\ \A w \in Visuals : ~ Mentions(r, w)'
  BY <1>2, EndFacts DEF UpdateVisual
<1>6. CASE /\ vext' = IF vof[v] = None THEN vext ELSE [vext EXCEPT ![v] = e]
           /\ UNCHANGED excused
  <2>1. /\ vext' \in [Visuals -> Ext]
        /\ vof[v] # None => vext'[v] = e
        /\ \A w \in Visuals : vext'[w] # vext[w] => w = v
    BY <1>2, <1>6 DEF VisualTypes
  <2>2. TypeOK'
    BY <1>2, <1>3, <1>5, <1>6, <2>1, TypePartsNext
       DEF OriginalTypes, VisualTypes, CoverTypes, ScanTypes, HistoryTypes, BoundTypes
  <2>3. Frame(r, a)
    BY <1>3, <1>4, <1>5, <1>6, <2>1 DEF Frame, NamedKept, Promises
  <2>4. One(a)' /\ VisualsOf(a)' = VisualsOf(a) /\ Newest(a)' = Newest(a)
    BY <1>2, <1>3, <1>5, <1>6, SameVisuals
  <2>5. ~ Brings(r, a)'
    BY <1>2, <1>5 DEF Brings
  <2>6. a \notin excused["stale"] /\ row[a] # None => Agrees(a)'
    <3>1. SUFFICES ASSUME a \notin excused["stale"], row[a] # None PROVE Agrees(a)'
      OBVIOUS
    <3>2. /\ row[a] = file[a] /\ file[a] = rdata[r] /\ ColorsAgree(a)
          /\ ~ IsImage(file[a]) /\ v \in Newest(a) /\ vfile[<<v, e>>] = rdata[r]
      BY <1>1, <1>2, <1>4, <3>1 DEF Progress, Aside, Stored, Colored, Picture
    <3>3. \A w \in Newest(a) : w = v
      <4>1. ASSUME NEW w \in Newest(a) PROVE w <= v /\ v <= w /\ w \in Nat /\ v \in Nat
        BY <3>2, LifecycleAssumption DEF Newest, VisualsOf
      <4>2. QED
        BY <4>1
    <3>4. vof[v] = a
      BY <3>2 DEF Newest, VisualsOf
    <3>5. vfile'[<<v, vext'[v]>>] = file'[a]
      <4>1. vext'[v] = e
        BY <1>2, <2>1, <3>4
      <4>2. QED
        BY <1>3, <3>2, <4>1
    <3>6. ColorsAgree(a)' <=> ColorsAgree(a)
      BY <1>3 DEF ColorsAgree, IsImage
    <3>7. QED
      BY <1>3, <2>4, <3>2, <3>3, <3>5, <3>6 DEF Agrees, IsImage
  <2>7. QED
    BY <1>1, <1>3, <1>5, <1>6, <2>2, <2>3, <2>4, <2>5, <2>6, PlainStep
<1>7. CASE Excuse({"stale"}, {a}) /\ UNCHANGED vext
  BY <1>1, <1>2, <1>3, <1>7, GiveUp DEF originals, backfill, VisualTypes, UpdateVisual
<1>8. QED
  BY <1>4, <1>6, <1>7 DEF UpdateVisual

-----------------------------------------------------------------------------
(* Uploads.                                                                *)

LEMMA UploadRowInv ==
    ASSUME IInv, NEW r \in Requests, NEW a \in Assets, rasset[r] = a,
           UploadRow(r), UNCHANGED asked
    PROVE  IInv'
<1>1. rpc[r] = "up_row" /\ rpc[r] \notin Aside
  BY DEF Aside, UploadRow
<1>2. /\ a \in born /\ a # None /\ CoverExists
      /\ Shape(r) /\ Alive(r) /\ OriginalTypes /\ VisualTypes /\ CoverTypes
      /\ RequestTypes /\ ScanTypes /\ HistoryTypes /\ BoundTypes /\ Asset(a)
  BY <1>1, Begun
<1>3. /\ born' = born /\ colors' = colors /\ vof' = vof /\ vext' = vext /\ vfile' = vfile
      /\ excused' = excused /\ cover' = cover /\ scan' = scan /\ held' = held /\ asked' = asked
  BY DEF visuals, backfill, UploadRow
<1>4. /\ row[a] = None /\ file[a] = rdata[r] /\ rdata[r] # None
      /\ rdata[r] \in Contents \cup {None} /\ \A q \in Requests \ {r} : rasset[q] # a
  BY <1>1, <1>2 DEF Alive, Shape, WithData, RequestTypes
<1>5. CASE Goto(r, "up_attrs") /\ row' = [row EXCEPT ![a] = rdata[r]] /\ UNCHANGED file
  <2>1. /\ Others(r) /\ RequestTypes' /\ rpc'[r] = "up_attrs"
        /\ rasset' = rasset /\ rop' = rop /\ rdata' = rdata
        /\ rvisual' = rvisual /\ rlist' = rlist
        /\ \A v : Mentions(r, v)' <=> Mentions(r, v)
    BY <1>2, <1>5, GotoFacts DEF PC
  <2>2. /\ row' \in [Assets -> Contents \cup {None}] /\ row'[a] = rdata[r]
        /\ \A b \in Assets \ {a} : row'[b] = row[b]
        /\ \A b \in Assets : row[b] # None => row'[b] # None
    BY <1>2, <1>4, <1>5 DEF OriginalTypes
  <2>3. TypeOK'
    BY <1>2, <1>3, <1>4, <1>5, <2>1, <2>2, TypePartsNext
       DEF OriginalTypes, VisualTypes, CoverTypes, ScanTypes, HistoryTypes, BoundTypes
  <2>4. Frame(r, a)
    BY <1>3, <1>5, <2>1, <2>2 DEF Frame, NamedKept, Promises
  <2>5. Shape(r)'
    BY <1>1, <1>2, <1>3, <1>4, <2>1 DEF Shape, WithVisual, WithList, WithData
  <2>6. One(a)'
    BY <1>3, <2>1, SameVisuals
  <2>7. Left(a)'
    BY <1>4, <2>2 DEF Left
  <2>8. CoverExists'
    BY <1>1, <1>2, <1>3, <2>1, <2>2, <2>4, CoverKept DEF Frame
  <2>9. Alive(r)' /\ Progress(r)'
    BY <1>4, <1>5, <2>1, <2>2
       DEF Alive, Progress, Stored, Colored, Picture, WithList
  <2>10. rpc'[r] \notin Aside
    BY <2>1 DEF Aside
  <2>11. QED
    BY <1>1, <1>3, <1>4, <2>3, <2>4, <2>5, <2>6, <2>7, <2>8, <2>9, <2>10, WorkStep
<1>6. CASE End(r) /\ file' = [file EXCEPT ![a] = None] /\ UNCHANGED row
  <2>1. /\ Others(r) /\ RequestTypes' /\ Shape(r)' /\ rpc'[r] = "idle" /\ rasset'[r] = None
        /\ \A v \in Visuals : ~ Mentions(r, v)'
    BY <1>2, <1>6, EndFacts
  <2>2. TypeOK'
    BY <1>2, <1>3, <1>6, <2>1, TypePartsNext
       DEF OriginalTypes, VisualTypes, CoverTypes, ScanTypes, HistoryTypes, BoundTypes
  <2>3. Frame(r, a)
    BY <1>2, <1>3, <1>6, <2>1 DEF Frame, OriginalTypes, NamedKept, Promises
  <2>4. One(a)' /\ VisualsOf(a)' = VisualsOf(a)
    BY <1>3, <2>1, SameVisuals
  <2>5. Left(a)'
    <3>1. \A q \in Requests : rasset'[q] # a
      BY <1>2, <1>4, <2>1 DEF Others
    <3>2. \A q \in Requests, v \in Visuals : ~ Clears(q, a, v)
      BY <1>1, <1>4 DEF Clears, WithList
    <3>3. a \notin excused["left"] => VisualsOf(a) = {}
      BY <1>2, <1>4, <3>2 DEF Asset, Left, VisualsOf
    <3>4. file'[a] = None
      BY <1>2, <1>6 DEF OriginalTypes
    <3>5. QED
      BY <1>3, <2>4, <3>1, <3>3, <3>4 DEF Left, Brings
  <2>6. CoverExists'
    BY <1>1, <1>2, <1>3, <1>6, <2>1, <2>3, CoverKept DEF Frame
  <2>7. rasset'[r] # a /\ row'[a] = None
    BY <1>2, <1>4, <1>6, <2>1
  <2>8. QED
    BY <1>1, <1>3, <1>4, <2>1, <2>2, <2>3, <2>4, <2>5, <2>6, <2>7, WorkStep
<1>7. QED
  BY <1>5, <1>6 DEF UploadRow

LEMMA UploadAttributesInv ==
    ASSUME IInv, NEW r \in Requests, NEW a \in Assets, rasset[r] = a,
           UploadAttributes(r), UNCHANGED asked
    PROVE  IInv'
<1>1. rpc[r] = "up_attrs" /\ rpc[r] \in Plain /\ rpc[r] \notin Aside
  BY DEF Plain, PC, Aside, UploadAttributes
<1>2. /\ a \in born /\ a # None /\ CoverExists
      /\ Shape(r) /\ Progress(r) /\ OriginalTypes /\ VisualTypes /\ CoverTypes
      /\ RequestTypes /\ ScanTypes /\ HistoryTypes /\ BoundTypes /\ Asset(a)
  BY <1>1, Begun
<1>3. /\ born' = born /\ vof' = vof /\ vext' = vext /\ vfile' = vfile
      /\ cover' = cover /\ scan' = scan /\ held' = held /\ asked' = asked
  BY DEF visuals, backfill, UploadAttributes
<1>4. CASE Goto(r, "colors") /\ UNCHANGED <<file, row, colors, excused>>
  <2>1. /\ Others(r) /\ RequestTypes' /\ rpc'[r] = "colors"
        /\ rasset' = rasset /\ rop' = rop /\ rdata' = rdata
        /\ rvisual' = rvisual /\ rlist' = rlist
        /\ \A v : Mentions(r, v)' <=> Mentions(r, v)
    BY <1>2, <1>4, GotoFacts DEF PC
  <2>2. Shape(r)'
    BY <1>1, <1>2, <1>3, <2>1 DEF Shape, WithVisual, WithList, WithData
  <2>3. One(a)'
    BY <1>3, <1>4, <2>1, SameVisuals
  <2>4. Progress(r)'
    BY <1>1, <1>2, <1>4, <2>1 DEF Progress, Stored, Colored, Picture, WithList, Aside
  <2>5. Brings(r, a)' => Brings(r, a)
    BY <1>1, <2>1 DEF Brings
  <2>6. UNCHANGED <<originals, visuals, cover, backfill, asked>>
    BY <1>3, <1>4 DEF originals, visuals, backfill
  <2>7. QED
    BY <1>1, <1>2, <1>4, <2>1, <2>2, <2>3, <2>4, <2>5, <2>6, PassingStep
       DEF HistoryTypes, Plain, PC, Aside
<1>5. CASE /\ End(r)
           /\ file' = [file EXCEPT ![a] = None]
           /\ \/ row' = [row EXCEPT ![a] = None] /\ colors' = [colors EXCEPT ![a] = None]
              \/ UNCHANGED <<row, colors>>
           /\ Excuse({"left", "cover", "stale"}, {a})
  <2>1. /\ Others(r) /\ RequestTypes' /\ Shape(r)' /\ rpc'[r] = "idle" /\ rasset'[r] = None
        /\ \A v \in Visuals : ~ Mentions(r, v)'
    BY <1>2, <1>5, EndFacts
  <2>2. {"left", "cover", "stale"} \in SUBSET Promises /\ {a} \in SUBSET (Assets \cup Visuals)
    BY DEF Promises
  <2>3. /\ HistoryTypes'
        /\ \A p \in Promises : excused[p] \subseteq excused'[p]
        /\ \A p \in {"left", "cover", "stale"} : {a} \subseteq excused'[p]
        /\ \A p \in Promises : excused'[p] \subseteq excused[p] \cup {a}
    BY <1>2, <1>5, <2>2, ExcuseFacts
  <2>4. /\ file' \in [Assets -> Contents \cup {None}] /\ row' \in [Assets -> Contents \cup {None}]
        /\ colors' \in [Assets -> Contents \cup {None}]
        /\ \A b \in Assets \ {a} : file'[b] = file[b] /\ row'[b] = row[b] /\ colors'[b] = colors[b]
        /\ \A b \in Assets : row'[b] # None => row[b] # None
        /\ \A b \in Assets : row'[b] = None => colors'[b] = None
    BY <1>2, <1>5 DEF OriginalTypes
  <2>5. TypeOK'
    BY <1>2, <1>3, <2>1, <2>3, <2>4, TypePartsNext
       DEF OriginalTypes, VisualTypes, CoverTypes, ScanTypes, BoundTypes
  <2>6. Frame(r, a)
    BY <1>3, <2>1, <2>3, <2>4 DEF Frame, NamedKept, Promises
  <2>7. a \in excused'["left"] /\ a \in excused'["cover"] /\ a \in excused'["stale"]
    BY <2>3
  <2>8. One(a)'
    BY <1>3, <2>1, <2>3, SameVisuals DEF Promises
  <2>9. CoverExists'
    BY <1>1, <1>2, <1>3, <2>1, <2>3, <2>4, <2>7, <2>6 DEF CoverExists, CoverTypes, Others, Promises, Frame, NamedKept, Exists
  <2>10. row[a] = None => row'[a] = None
    BY <1>5, <2>4
  <2>11. QED
    BY <1>1, <1>2, <2>1, <2>3, <2>5, <2>6, <2>7, <2>8, <2>9, <2>10, WorkStep DEF Left
<1>6. QED
  BY <1>4, <1>5 DEF UploadAttributes

-----------------------------------------------------------------------------
(* Deletion: while it goes on, what is left is in its hands.               *)

\* A deletion that fails half way leaves the rest.
LEMMA Abandon ==
    ASSUME IInv, NEW r \in Requests, NEW a \in Assets, rasset[r] = a,
           rpc[r] \in {"v_list", "v_gone"}, UNCHANGED <<originals, visuals, cover, backfill, asked>>,
           End(r), Excuse({"stale", "left"}, {a})
    PROVE  IInv'
<1>1. rpc[r] \notin Aside /\ rpc[r] # "dl_cover"
  BY DEF Aside
<1>2. /\ a \in born /\ a # None /\ CoverExists
      /\ OriginalTypes /\ VisualTypes /\ CoverTypes
      /\ RequestTypes /\ ScanTypes /\ HistoryTypes /\ BoundTypes /\ Asset(a)
  BY <1>1, Begun DEF Aside
<1>3. /\ born' = born /\ file' = file /\ row' = row /\ colors' = colors /\ vof' = vof
      /\ vext' = vext /\ vfile' = vfile /\ cover' = cover /\ scan' = scan /\ held' = held
      /\ asked' = asked
  BY DEF originals, visuals, backfill
<1>4. /\ Others(r) /\ RequestTypes' /\ Shape(r)' /\ rpc'[r] = "idle" /\ rasset'[r] = None
      /\ \A v \in Visuals : ~ Mentions(r, v)'
  BY <1>2, EndFacts
<1>5. {"stale", "left"} \in SUBSET Promises /\ {a} \in SUBSET (Assets \cup Visuals)
  BY DEF Promises
<1>6. /\ HistoryTypes'
      /\ \A p \in Promises : excused[p] \subseteq excused'[p]
      /\ \A p \in {"stale", "left"} : {a} \subseteq excused'[p]
      /\ \A p \in Promises : excused'[p] \subseteq excused[p] \cup {a}
  BY <1>2, <1>5, ExcuseFacts
<1>7. TypeOK'
  BY <1>2, <1>3, <1>4, <1>6, TypePartsNext
     DEF OriginalTypes, VisualTypes, CoverTypes, ScanTypes, BoundTypes
<1>8. Frame(r, a)
  BY <1>3, <1>4, <1>6 DEF Frame, NamedKept, Promises
<1>9. a \in excused'["left"] /\ a \in excused'["stale"]
  BY <1>6
<1>10. One(a)'
  BY <1>3, <1>4, <1>6, SameVisuals DEF Promises
<1>11. CoverExists'
  BY <1>1, <1>2, <1>3, <1>4, <1>6, <1>8, CoverKept DEF Promises, Frame
<1>12. Left(a)'
  BY <1>9 DEF Left
<1>13. QED
  BY <1>1, <1>2, <1>3, <1>4, <1>6, <1>7, <1>8, <1>9, <1>10, <1>11, <1>12, WorkStep

LEMMA ListVisualsInv ==
    ASSUME IInv, NEW r \in Requests, NEW a \in Assets, rasset[r] = a,
           ListVisuals(r), UNCHANGED asked
    PROVE  IInv'
<1>1. rpc[r] = "v_list" /\ rpc[r] \notin Aside
  BY DEF Aside, ListVisuals
<1>2. /\ a \in born /\ a # None /\ CoverExists /\ Shape(r) /\ Progress(r)
      /\ OriginalTypes /\ VisualTypes /\ CoverTypes
      /\ RequestTypes /\ ScanTypes /\ HistoryTypes /\ BoundTypes /\ Asset(a)
  BY <1>1, Begun
<1>3. UNCHANGED <<originals, visuals, cover, backfill, asked>>
  BY DEF ListVisuals
<1>4. /\ born' = born /\ file' = file /\ row' = row /\ colors' = colors /\ vof' = vof
      /\ vext' = vext /\ vfile' = vfile /\ cover' = cover /\ scan' = scan /\ held' = held
      /\ asked' = asked
  BY <1>3 DEF originals, visuals, backfill
<1>5. ColorsAgree(a)' <=> ColorsAgree(a)
  BY <1>4 DEF ColorsAgree, IsImage
<1>6. a \notin excused["stale"] /\ row[a] # None =>
         row[a] = file[a] /\ file[a] = rdata[r] /\ ColorsAgree(a) /\ IsImage(file[a])
  BY <1>1, <1>2 DEF Progress, Aside, Stored, Colored
<1>7. VisualsOf(a)' = VisualsOf(a)
  BY <1>4 DEF VisualsOf
<1>8. rvisual[r] = None
  BY <1>1, <1>2 DEF Shape, WithVisual, WithList
<1>9. CASE /\ VisualsOf(a) # {}
           /\ rlist' = [rlist EXCEPT ![r] = {<<v, vext[v]>> : v \in VisualsOf(a)}]
           /\ rpc' = [rpc EXCEPT ![r] = "v_file"]
           /\ UNCHANGED <<rasset, rop, rdata, rparent, rvisual, excused>>
  <2> DEFINE list == {<<v, vext[v]>> : v \in VisualsOf(a)}
  <2>1. list \subseteq Visuals \X Ext
    BY <1>2 DEF VisualsOf, VisualTypes
  <2>2. Others(r) /\ RequestTypes' /\ rpc'[r] = "v_file" /\ rlist'[r] = list
    BY <1>2, <1>9, <2>1 DEF Others, RequestTypes, PC
  <2>3. \A v \in VisualsOf(a) : \E e \in Ext : <<v, e>> \in list
    BY <1>2 DEF VisualsOf, VisualTypes
  <2>4. TypeOK'
    BY <1>2, <1>4, <1>9, <2>2, TypePartsNext
       DEF OriginalTypes, VisualTypes, CoverTypes, ScanTypes, HistoryTypes, BoundTypes
  <2>5. \A v \in Visuals : Mentions(r, v)' => vof[v] = a
    <3>1. \A v \in Visuals, e \in Ext : <<v, e>> \in list => vof[v] = a
      BY DEF VisualsOf
    <3>2. \A v \in Visuals, e \in Ext : rvisual'[r] # <<v, e>>
      BY <1>8, <1>9, LifecycleAssumption DEF Ext
    <3>3. QED
      BY <2>2, <3>1, <3>2 DEF Mentions
  <2>6. Frame(r, a)
    BY <1>4, <1>9, <2>2, <2>5 DEF Frame, NamedKept, Promises
  <2>7. Shape(r)'
    BY <1>2, <1>4, <1>9, <2>2 DEF Shape, WithVisual, WithList, WithData
  <2>8. One(a)'
    BY <1>4, <1>9, <2>2, SameVisuals
  <2>9. CoverExists'
    BY <1>1, <1>2, <1>4, <1>9, <2>2, <2>6, CoverKept DEF Frame
  <2>10. Left(a)'
    <3>1. \A q \in Requests : /\ Brings(q, a)' => Brings(q, a)
                              /\ Removes(q, a) => Removes(q, a)'
      BY <1>1, <1>9, <2>2 DEF Brings, Removes, Others
    <3>2. \A v \in VisualsOf(a) : Clears(r, a, v)'
      BY <1>9, <2>2, <2>3 DEF Clears, WithList
    <3>3. QED
      BY <1>2, <1>4, <1>7, <1>9, <3>1, <3>2 DEF Asset, Left
  <2>11. Progress(r)'
    BY <1>4, <1>5, <1>6, <1>7, <1>9, <2>2, <2>3
       DEF Progress, Stored, Colored, Picture, WithList, IsImage
  <2>12. Alive(r)' /\ rpc'[r] \notin Aside
    BY <2>2 DEF Alive, Aside
  <2>13. QED
    BY <1>1, <1>4, <1>9, <2>4, <2>6, <2>7, <2>8, <2>9, <2>10, <2>11, <2>12, WorkStep
<1>10. CASE VisualsOf(a) = {} /\ End(r) /\ UNCHANGED excused
  <2>1. /\ Others(r) /\ RequestTypes' /\ Shape(r)' /\ rpc'[r] = "idle" /\ rasset'[r] = None
        /\ \A v \in Visuals : ~ Mentions(r, v)'
    BY <1>2, <1>10, EndFacts
  <2>2. TypeOK'
    BY <1>2, <1>4, <1>10, <2>1, TypePartsNext
       DEF OriginalTypes, VisualTypes, CoverTypes, ScanTypes, HistoryTypes, BoundTypes
  <2>3. Frame(r, a)
    BY <1>4, <1>10, <2>1 DEF Frame, NamedKept, Promises
  <2>4. One(a)'
    BY <1>4, <1>10, <2>1, SameVisuals
  <2>5. CoverExists'
    BY <1>1, <1>2, <1>4, <1>10, <2>1, <2>3, CoverKept DEF Frame
  <2>6. Left(a)'
    <3>1. \A q \in Requests : /\ Brings(q, a)' => Brings(q, a)
                              /\ Removes(q, a) => Removes(q, a)'
      BY <1>1, <1>2, <2>1 DEF Brings, Removes, Others
    <3>2. QED
      BY <1>2, <1>4, <1>7, <1>10, <3>1 DEF Asset, Left
  <2>7. a \notin excused["stale"] /\ row[a] # None => Agrees(a)'
    BY <1>4, <1>5, <1>6, <1>7, <1>10 DEF Agrees, IsImage
  <2>8. rasset'[r] # a /\ rpc'[r] \in Aside
    BY <1>2, <2>1 DEF Aside
  <2>9. QED
    BY <1>1, <1>4, <1>10, <2>1, <2>2, <2>3, <2>4, <2>5, <2>6, <2>7, <2>8, WorkStep
<1>11. CASE End(r) /\ Excuse({"stale", "left"}, {a})
  BY <1>1, <1>3, <1>11, Abandon
<1>12. QED
  BY <1>9, <1>10, <1>11 DEF ListVisuals

LEMMA DeleteVisualFileInv ==
    ASSUME IInv, NEW r \in Requests, NEW a \in Assets, rasset[r] = a,
           DeleteVisualFile(r), UNCHANGED asked
    PROVE  IInv'
<1>1. rpc[r] = "v_file" /\ rpc[r] \notin Aside
  BY DEF Aside, DeleteVisualFile
<1>2. /\ a \in born /\ a # None /\ CoverExists /\ Shape(r) /\ Progress(r)
      /\ OriginalTypes /\ VisualTypes /\ CoverTypes
      /\ RequestTypes /\ ScanTypes /\ HistoryTypes /\ BoundTypes /\ Asset(a)
  BY <1>1, Begun
<1>3. /\ born' = born /\ file' = file /\ row' = row /\ colors' = colors /\ vof' = vof
      /\ vext' = vext /\ cover' = cover /\ scan' = scan /\ held' = held
      /\ excused' = excused /\ asked' = asked /\ rasset' = rasset /\ rop' = rop
      /\ rdata' = rdata /\ rparent' = rparent /\ rpc' = [rpc EXCEPT ![r] = "v_gone"]
  BY DEF originals, backfill, DeleteVisualFile
<1>4. PICK key \in rlist[r] :
         /\ vfile' = [vfile EXCEPT ![key] = None]
         /\ rvisual' = [rvisual EXCEPT ![r] = key]
         /\ rlist' = [rlist EXCEPT ![r] = rlist[r] \ {key}]
  BY DEF DeleteVisualFile
<1>5. key \in Visuals \X Ext /\ key # None
  BY <1>2, <1>4, LifecycleAssumption DEF RequestTypes, Ext
<1>6. PICK v \in Visuals, e \in Ext : key = <<v, e>>
  BY <1>5
<1>7. key[1] = v
  BY <1>6
<1>8. /\ Others(r) /\ RequestTypes' /\ rpc'[r] = "v_gone" /\ rvisual'[r] = key
      /\ rlist'[r] = rlist[r] \ {key}
  BY <1>2, <1>3, <1>4, <1>5 DEF Others, RequestTypes, PC
<1>9. /\ vfile' \in [Visuals \X Ext -> Contents \cup {None}]
      /\ \A w \in Visuals, x \in Ext : vfile'[<<w, x>>] # vfile[<<w, x>>] => w = v
  BY <1>2, <1>4, <1>6 DEF VisualTypes
<1>10. TypeOK'
  BY <1>2, <1>3, <1>8, <1>9, TypePartsNext
     DEF OriginalTypes, VisualTypes, CoverTypes, ScanTypes, HistoryTypes, BoundTypes
<1>11. Mentions(r, v) /\ \A w \in Visuals : Mentions(r, w)' => Mentions(r, w)
  BY <1>4, <1>6, <1>8 DEF Mentions
<1>12. Frame(r, a)
  BY <1>3, <1>8, <1>9, <1>11 DEF Frame, NamedKept, Promises
<1>13. Shape(r)'
  BY <1>2, <1>3, <1>5, <1>8 DEF Shape, WithVisual, WithList, WithData
<1>14. One(a)' /\ VisualsOf(a)' = VisualsOf(a)
  BY <1>3, <1>8, SameVisuals
<1>15. CoverExists'
  BY <1>1, <1>2, <1>3, <1>8, <1>12, CoverKept DEF Frame
<1>16. \A w \in Visuals : (\E x \in Ext : <<w, x>> \in rlist[r]) =>
          (\E x \in Ext : <<w, x>> \in rlist'[r]) \/ w = v
  BY <1>6, <1>8
<1>17. Left(a)'
  <2>1. \A q \in Requests : /\ Brings(q, a)' => Brings(q, a)
                            /\ Removes(q, a) => Removes(q, a)'
    BY <1>1, <1>3, <1>8 DEF Brings, Removes, Others
  <2>2. ASSUME NEW q \in Requests, NEW w \in VisualsOf(a), Clears(q, a, w)
        PROVE  Clears(q, a, w)'
    <3>1. CASE q = r
      <4>1. w \in Visuals /\ \E x \in Ext : <<w, x>> \in rlist[r]
        BY <1>1, <2>2, <3>1 DEF Clears, VisualsOf
      <4>2. (\E x \in Ext : <<w, x>> \in rlist'[r]) \/ w = v
        BY <1>16, <4>1
      <4>3. QED
        BY <1>3, <1>7, <1>8, <3>1, <4>2 DEF Clears, WithList
    <3>2. CASE q # r
      BY <1>8, <2>2, <3>2 DEF Clears, Others
    <3>3. QED
      BY <3>1, <3>2
  <2>3. QED
    BY <1>2, <1>3, <1>14, <2>1, <2>2 DEF Asset, Left
<1>18. Progress(r)'
  <2>1. ColorsAgree(a)' <=> ColorsAgree(a)
    BY <1>3 DEF ColorsAgree, IsImage
  <2>2. a \notin excused["stale"] /\ row[a] # None =>
           /\ row[a] = file[a] /\ file[a] = rdata[r] /\ ColorsAgree(a) /\ IsImage(file[a])
           /\ \A w \in VisualsOf(a) : \E x \in Ext : <<w, x>> \in rlist[r]
    BY <1>1, <1>2 DEF Progress, Aside, Stored, Colored, WithList
  <2>3. \A w \in VisualsOf(a) : w \in Visuals
    BY DEF VisualsOf
  <2>4. QED
    BY <1>3, <1>7, <1>8, <1>14, <1>16, <2>1, <2>2, <2>3
       DEF Progress, Stored, Colored, Picture, WithList, IsImage
<1>19. Alive(r)' /\ rpc'[r] \notin Aside
  BY <1>8 DEF Alive, Aside
<1>20. QED
  BY <1>1, <1>3, <1>8, <1>10, <1>12, <1>13, <1>14, <1>15, <1>17, <1>18, <1>19, WorkStep

LEMMA DeleteVisualRowInv ==
    ASSUME IInv, NEW r \in Requests, NEW a \in Assets, rasset[r] = a,
           DeleteVisualRow(r), UNCHANGED asked
    PROVE  IInv'
<1> DEFINE gone == rvisual[r][1]
           lost == IF cover = gone \/ Naming(r, gone) THEN {gone} ELSE {}
<1>1. rpc[r] = "v_gone" /\ rpc[r] \notin Aside
  BY DEF Aside, DeleteVisualRow
<1>2. /\ a \in born /\ a # None /\ CoverExists /\ Shape(r) /\ Progress(r)
      /\ OriginalTypes /\ VisualTypes /\ CoverTypes
      /\ RequestTypes /\ ScanTypes /\ HistoryTypes /\ BoundTypes /\ Asset(a)
  BY <1>1, Begun
<1>3. /\ born' = born /\ file' = file /\ row' = row /\ colors' = colors /\ vfile' = vfile
      /\ cover' = cover /\ scan' = scan /\ held' = held /\ asked' = asked
  BY DEF originals, backfill, DeleteVisualRow
<1>4. PICK v \in Visuals : v = rvisual[r][1] /\ Mentions(r, v)
  BY <1>1, VisualInHand DEF WithVisual
<1>5. CASE /\ vof' = [vof EXCEPT ![v] = None] /\ vext' = [vext EXCEPT ![v] = "jpg"]
           /\ IF rlist[r] = {} THEN End(r) ELSE Goto(r, "v_file")
           /\ Excuse({"cover"}, lost)
  <2>0. /\ HistoryTypes' /\ \A p \in Promises : excused[p] \subseteq excused'[p]
        /\ lost \subseteq excused'["cover"]
        /\ \A p \in Promises : excused'[p] \subseteq excused[p] \cup {v}
    <3>1. {"cover"} \in SUBSET Promises /\ lost \in SUBSET (Assets \cup Visuals)
      BY <1>4 DEF Promises
    <3>2. Excuse({"cover"}, lost)
      BY <1>5
    <3> HIDE DEF lost
    <3>3. /\ HistoryTypes' /\ \A p \in Promises : excused[p] \subseteq excused'[p]
          /\ lost \subseteq excused'["cover"]
          /\ \A p \in Promises : excused'[p] \subseteq excused[p] \cup lost
      BY <1>2, <3>1, <3>2, ExcuseFacts
    <3>4. lost \subseteq {v}
      BY <1>4 DEF lost
    <3>5. QED
      BY <3>3, <3>4
  <2>12. \A p \in Promises, b \in Assets : b \in excused'[p] <=> b \in excused[p]
    BY <2>0, LifecycleAssumption
  <2>1. /\ Others(r) /\ RequestTypes' /\ Shape(r)' /\ rop'[r] \in {rop[r], None}
        /\ rasset'[r] \in {a, None} /\ rpc'[r] \in {"v_file", "idle"}
        /\ rpc'[r] = "idle" => rlist[r] = {}
        /\ rpc'[r] = "v_file" => /\ rasset'[r] = a /\ rdata'[r] = rdata[r]
                                 /\ rlist'[r] = rlist[r]
        /\ \A w \in Visuals : Mentions(r, w)' => Mentions(r, w) /\ rasset'[r] = a
    <3>1. CASE rlist[r] = {}
      <4>1. End(r)
        BY <1>5, <3>1
      <4>2. QED
        BY <1>2, <3>1, <4>1, EndFacts
    <3>2. CASE rlist[r] # {}
      <4>1. Goto(r, "v_file")
        BY <1>5, <3>2
      <4>2. /\ Others(r) /\ RequestTypes' /\ rpc'[r] = "v_file"
            /\ rasset' = rasset /\ rop' = rop /\ rdata' = rdata
            /\ rvisual' = rvisual /\ rlist' = rlist
            /\ \A w : Mentions(r, w)' <=> Mentions(r, w)
        BY <1>2, <4>1, GotoFacts DEF PC
      <4>3. Shape(r)'
        BY <1>2, <1>3, <4>2 DEF Shape, WithVisual, WithList, WithData
      <4>4. QED
        BY <4>2, <4>3
    <3>3. QED
      BY <3>1, <3>2
  <2>2. /\ vof' \in [Visuals -> Assets \cup {None}] /\ vext' \in [Visuals -> Ext]
        /\ vof'[v] = None
        /\ \A w \in Visuals \ {v} : vof'[w] = vof[w] /\ vext'[w] = vext[w]
    BY <1>2, <1>5 DEF VisualTypes, Ext
  <2>3. TypeOK'
    BY <1>2, <1>3, <2>0, <2>1, <2>2, TypePartsNext
       DEF OriginalTypes, VisualTypes, CoverTypes, ScanTypes, BoundTypes
  <2>4. Frame(r, a)
    <3>1. NamedKept(r)
      BY <1>4, <2>0, <2>2 DEF NamedKept, Promises
    <3>2. QED
      BY <1>3, <1>4, <2>12, <2>1, <2>2, <3>1 DEF Frame
  <2>5. VisualsOf(a)' = VisualsOf(a) \ {v}
    BY <1>2, <2>2 DEF VisualsOf
  <2>6. One(a)'
    <3>1. \A q \in Requests : Generating(q, a)' => Generating(q, a)
      BY <2>1 DEF Generating, Others
    <3>2. QED
      BY <1>2, <2>12, <2>5, <3>1, OneKept DEF Asset, Promises
  <2>7. CoverExists'
    BY <1>1, <1>2, <1>3, <2>0, <2>1, <2>4, CoverKept DEF Frame, Promises
  <2>8. Left(a)'
    <3>1. \A q \in Requests : /\ Brings(q, a)' => Brings(q, a)
                              /\ Removes(q, a) => Removes(q, a)'
      BY <1>1, <1>2, <2>1 DEF Brings, Removes, Others
    <3>2. ASSUME NEW q \in Requests, NEW w \in VisualsOf(a)', Clears(q, a, w)
          PROVE  Clears(q, a, w)'
      <4>1. w \in VisualsOf(a) /\ w # v /\ w \in Visuals
        BY <2>5 DEF VisualsOf
      <4>2. CASE q = r
        <5>1. \E x \in Ext : <<w, x>> \in rlist[r]
          BY <1>1, <1>4, <3>2, <4>1, <4>2 DEF Clears
        <5>2. QED
          BY <2>1, <4>2, <5>1 DEF Clears, WithList
      <4>3. CASE q # r
        BY <2>1, <3>2, <4>3 DEF Clears, Others
      <4>4. QED
        BY <4>2, <4>3
    <3>3. QED
      BY <1>2, <1>3, <2>12, <2>5, <3>1, <3>2 DEF Asset, Left, Promises
  <2>9. a \notin excused'["stale"] /\ row'[a] # None =>
           IF rpc'[r] \in Aside THEN Agrees(a)' ELSE Progress(r)'
    <3>1. SUFFICES ASSUME a \notin excused["stale"], row[a] # None
                   PROVE  IF rpc'[r] = "idle" THEN Agrees(a)' ELSE Progress(r)'
      BY <1>3, <2>12, <2>1 DEF Aside, Promises
    <3>2. ColorsAgree(a)' <=> ColorsAgree(a)
      BY <1>3 DEF ColorsAgree, IsImage
    <3>3. /\ row[a] = file[a] /\ file[a] = rdata[r] /\ ColorsAgree(a) /\ IsImage(file[a])
          /\ \A w \in VisualsOf(a) \ {v} : \E x \in Ext : <<w, x>> \in rlist[r]
      BY <1>1, <1>2, <1>4, <3>1 DEF Progress, Aside, Stored, Colored, WithList
    <3>4. rpc'[r] = "idle" => VisualsOf(a)' = {}
      BY <2>1, <2>5, <3>3
    <3>5. CASE rpc'[r] = "idle"
      BY <1>3, <3>2, <3>3, <3>4, <3>5 DEF Agrees, IsImage
    <3>6. CASE rpc'[r] = "v_file"
      BY <1>3, <2>1, <2>5, <3>2, <3>3, <3>6
         DEF Progress, Stored, Colored, Picture, WithList, IsImage
    <3>7. QED
      BY <2>1, <3>5, <3>6
  <2>10. Alive(r)'
    BY <2>1 DEF Alive
  <2>11. QED
    BY <1>1, <1>3, <2>0, <2>1, <2>3, <2>4, <2>6, <2>7, <2>8, <2>9, <2>10, WorkStep
<1>6. CASE End(r) /\ Excuse({"stale", "left"}, {a}) /\ UNCHANGED <<vof, vext>>
  <2>1. UNCHANGED <<originals, visuals, cover, backfill, asked>>
    BY <1>3, <1>6 DEF originals, visuals, backfill
  <2>2. QED
    BY <1>1, <1>6, <2>1, Abandon
<1>7. QED
  BY <1>4, <1>5, <1>6 DEF DeleteVisualRow

\* Who is late is excused; everything else is in the deletion's hands.
LEMMA DeleteRowInv ==
    ASSUME IInv, NEW r \in Requests, NEW a \in Assets, rasset[r] = a,
           DeleteRow(r), UNCHANGED asked
    PROVE  IInv'
<1>1. rpc[r] = "dl_row" /\ rpc[r] \notin Aside
  BY DEF Aside, DeleteRow
<1>2. /\ a \in born /\ a # None /\ CoverExists /\ Shape(r) /\ Progress(r)
      /\ OriginalTypes /\ VisualTypes /\ CoverTypes
      /\ RequestTypes /\ ScanTypes /\ HistoryTypes /\ BoundTypes /\ Asset(a)
  BY <1>1, Begun
<1>3. /\ born' = born /\ file' = file /\ vof' = vof /\ vext' = vext /\ vfile' = vfile
      /\ cover' = cover /\ scan' = scan /\ held' = held /\ asked' = asked
  BY DEF visuals, backfill, DeleteRow
<1>4. CASE /\ row[a] # None
           /\ row' = [row EXCEPT ![a] = None] /\ colors' = [colors EXCEPT ![a] = None]
           /\ excused' = [excused EXCEPT
                 !["left"]  = IF Late(r, a) THEN @ \cup {a} ELSE @,
                 !["cover"] = IF Naming(r, a) THEN @ \cup {a} ELSE @]
           /\ Goto(r, "dl_cover")
  <2>1. /\ Others(r) /\ RequestTypes' /\ rpc'[r] = "dl_cover"
        /\ rasset' = rasset /\ rop' = rop /\ rdata' = rdata
        /\ rvisual' = rvisual /\ rlist' = rlist
        /\ \A v : Mentions(r, v)' <=> Mentions(r, v)
    BY <1>2, <1>4, GotoFacts DEF PC
  <2>2. /\ HistoryTypes' /\ \A p \in Promises : excused[p] \subseteq excused'[p]
        /\ \A p \in Promises : excused'[p] \subseteq excused[p] \cup {a}
        /\ Late(r, a) => a \in excused'["left"]
        /\ Naming(r, a) => a \in excused'["cover"]
    BY <1>2, <1>4 DEF HistoryTypes, Promises
  <2>3. /\ row' \in [Assets -> Contents \cup {None}] /\ colors' \in [Assets -> Contents \cup {None}]
        /\ row'[a] = None /\ colors'[a] = None
        /\ \A b \in Assets \ {a} : row'[b] = row[b] /\ colors'[b] = colors[b]
    BY <1>2, <1>4 DEF OriginalTypes
  <2>4. TypeOK'
    BY <1>2, <1>3, <2>1, <2>2, <2>3, TypePartsNext
       DEF OriginalTypes, VisualTypes, CoverTypes, ScanTypes, BoundTypes
  <2>5. Frame(r, a)
    BY <1>3, <2>1, <2>2, <2>3 DEF Frame, NamedKept, Promises
  <2>6. Shape(r)'
    BY <1>1, <1>2, <1>3, <2>1 DEF Shape, WithVisual, WithList, WithData
  <2>7. One(a)' /\ VisualsOf(a)' = VisualsOf(a)
    BY <1>3, <2>1, <2>2, SameVisuals DEF Promises
  <2>8. CoverExists'
    <3>1. CASE cover = a
      BY <1>3, <2>1, <3>1 DEF CoverExists
    <3>2. CASE cover # a
      <4>1. Exists(cover) => Exists(cover)'
        BY <1>3, <2>3, <3>2 DEF Exists
      <4>2. \A q \in Requests : rpc[q] = "dl_cover" => rpc'[q] = "dl_cover" /\ rasset'[q] = rasset[q]
        BY <2>1 DEF Others
      <4>3. cover \in excused["cover"] => cover \in excused'["cover"]
        BY <2>2 DEF Promises
      <4>4. QED
        BY <1>2, <1>3, <4>1, <4>2, <4>3 DEF CoverExists
    <3>3. QED
      BY <3>1, <3>2
  <2>9. Left(a)'
    <3>1. a \notin excused'["left"] => \A q \in Requests : ~ Brings(q, a)'
      BY <2>1, <2>2 DEF Brings, Others, Late
    <3>2. Removes(r, a)' /\ \A v : Clears(r, a, v)'
      BY <2>1 DEF Removes, Clears
    <3>3. QED
      BY <3>1, <3>2 DEF Left
  <2>10. \/ a \in excused'["cover"]
         \/ \A q \in Requests \ {r} : rasset[q] = a => rpc[q] # "sc_update"
    BY <2>2 DEF Naming
  <2>11. Alive(r)' /\ rpc'[r] \notin Aside
    BY <1>2, <2>1, <2>3 DEF Alive, Aside
  <2>12. QED
    BY <1>1, <1>4, <2>1, <2>2, <2>3, <2>4, <2>5, <2>6, <2>7, <2>8, <2>9, <2>10, <2>11, WorkStep
<1>5. CASE End(r) /\ UNCHANGED <<row, colors, excused>>
  <2>1. /\ Others(r) /\ RequestTypes' /\ Shape(r)' /\ rpc'[r] = "idle" /\ rasset'[r] = None
        /\ \A v \in Visuals : ~ Mentions(r, v)'
    BY <1>2, <1>5, EndFacts
  <2>2. TypeOK'
    BY <1>2, <1>3, <1>5, <2>1, TypePartsNext
       DEF OriginalTypes, VisualTypes, CoverTypes, ScanTypes, HistoryTypes, BoundTypes
  <2>3. Frame(r, a)
    BY <1>3, <1>5, <2>1 DEF Frame, NamedKept, Promises
  <2>4. One(a)' /\ VisualsOf(a)' = VisualsOf(a) /\ Newest(a)' = Newest(a)
    BY <1>3, <1>5, <2>1, SameVisuals
  <2>5. CoverExists'
    BY <1>1, <1>2, <1>3, <1>5, <2>1, <2>3, CoverKept DEF Frame
  <2>6. Left(a)'
    <3>1. \A q \in Requests : /\ Brings(q, a)' => Brings(q, a)
                              /\ Removes(q, a) => Removes(q, a)'
                              /\ \A v : Clears(q, a, v) => Clears(q, a, v)'
      BY <1>1, <1>2, <2>1 DEF Brings, Removes, Clears, Others, WithList
    <3>2. QED
      BY <1>2, <1>3, <1>5, <2>4, <3>1 DEF Asset, Left
  <2>7. a \notin excused["stale"] /\ row[a] # None => Agrees(a)'
    <3>1. a \notin excused["stale"] /\ row[a] # None => Agrees(a)
      BY <1>1, <1>2 DEF Progress, Aside
    <3>2. Agrees(a)' <=> Agrees(a)
      BY <1>3, <1>5, <2>4 DEF Agrees, ColorsAgree, IsImage
    <3>3. QED
      BY <3>1, <3>2
  <2>8. rasset'[r] # a /\ rpc'[r] \in Aside
    BY <1>2, <2>1 DEF Aside
  <2>9. QED
    BY <1>1, <1>3, <1>5, <2>1, <2>2, <2>3, <2>4, <2>5, <2>6, <2>7, <2>8, WorkStep
<1>6. QED
  BY <1>4, <1>5 DEF DeleteRow

LEMMA ClearReferencesInv ==
    ASSUME IInv, NEW r \in Requests, NEW a \in Assets, rasset[r] = a,
           ClearReferences(r), UNCHANGED asked
    PROVE  IInv'
<1>1. rpc[r] = "dl_cover" /\ rpc[r] \notin Aside
  BY DEF Aside, ClearReferences
<1>2. /\ a \in born /\ a # None /\ CoverExists /\ Shape(r) /\ Alive(r)
      /\ OriginalTypes /\ VisualTypes /\ CoverTypes
      /\ RequestTypes /\ ScanTypes /\ HistoryTypes /\ BoundTypes /\ Asset(a)
  BY <1>1, Begun
<1>3. /\ born' = born /\ file' = file /\ row' = row /\ colors' = colors /\ vof' = vof
      /\ vext' = vext /\ vfile' = vfile /\ scan' = scan /\ held' = held /\ asked' = asked
  BY DEF originals, visuals, backfill, ClearReferences
<1>4. row[a] = None
  BY <1>1, <1>2 DEF Alive
<1>5. /\ Others(r) /\ RequestTypes' /\ rpc'[r] = "dl_file"
      /\ rasset' = rasset /\ rop' = rop /\ rdata' = rdata
      /\ rvisual' = rvisual /\ rlist' = rlist
      /\ \A v : Mentions(r, v)' <=> Mentions(r, v)
  BY <1>2, GotoFacts DEF PC, ClearReferences
<1>6. /\ HistoryTypes' /\ \A p \in Promises : excused[p] \subseteq excused'[p]
      /\ \A p \in Promises : excused'[p] \subseteq excused[p] \cup {a}
      /\ cover' = cover \/ cover' = None
      /\ cover' = a => a \in excused'["cover"]
  <2>1. CASE cover' = (IF cover = a THEN None ELSE cover) /\ UNCHANGED excused
    BY <1>2, <2>1 DEF HistoryTypes
  <2>2. CASE UNCHANGED cover /\ Excuse({"cover"}, {a})
    <3>1. {"cover"} \in SUBSET Promises /\ {a} \in SUBSET (Assets \cup Visuals)
      BY DEF Promises
    <3>2. /\ HistoryTypes' /\ \A p \in Promises : excused[p] \subseteq excused'[p]
          /\ \A p \in Promises : excused'[p] \subseteq excused[p] \cup {a}
          /\ \A p \in {"cover"} : {a} \subseteq excused'[p]
      BY <1>2, <2>2, <3>1, ExcuseFacts
    <3>3. QED
      BY <2>2, <3>2
  <2>3. QED
    BY <2>1, <2>2 DEF ClearReferences
<1>7. TypeOK'
  BY <1>2, <1>3, <1>5, <1>6, TypePartsNext
     DEF OriginalTypes, VisualTypes, CoverTypes, ScanTypes, BoundTypes
<1>8. Frame(r, a)
  BY <1>3, <1>5, <1>6 DEF Frame, NamedKept, Promises
<1>9. Shape(r)'
  BY <1>2, <1>1, <1>3, <1>5 DEF Shape, WithVisual, WithList, WithData
<1>10. One(a)' /\ VisualsOf(a)' = VisualsOf(a)
  BY <1>3, <1>5, <1>6, SameVisuals DEF Promises
<1>11. CoverExists'
  <2>1. CASE cover' = None
    BY <2>1 DEF CoverExists
  <2>2. CASE cover' = a
    BY <1>6, <2>2 DEF CoverExists
  <2>3. CASE cover' = cover /\ cover # a /\ cover # None
    <3>1. \/ cover \in excused["cover"] \/ Exists(cover)
          \/ \E q \in Requests : rasset[q] = cover /\ rpc[q] = "dl_cover"
      BY <1>2, <2>3 DEF CoverExists
    <3>2. cover \in excused["cover"] => cover \in excused'["cover"]
      BY <1>6 DEF Promises
    <3>3. \A q \in Requests : rasset[q] = cover /\ rpc[q] = "dl_cover" =>
             rasset'[q] = cover /\ rpc'[q] = "dl_cover"
      BY <1>5, <2>3 DEF Others
    <3>4. QED
      BY <1>3, <2>3, <3>1, <3>2, <3>3 DEF CoverExists, Exists
  <2>4. QED
    BY <1>6, <2>1, <2>2, <2>3
<1>12. Left(a)'
  <2>1. \A q \in Requests : /\ Brings(q, a)' => Brings(q, a)
                            /\ Removes(q, a) => Removes(q, a)'
                            /\ \A v : Clears(q, a, v) => Clears(q, a, v)'
    BY <1>1, <1>5 DEF Brings, Removes, Clears, Others, WithList
  <2>2. a \in excused["left"] => a \in excused'["left"]
    BY <1>6 DEF Promises
  <2>3. QED
    BY <1>2, <1>3, <1>10, <2>1, <2>2 DEF Asset, Left
<1>13. Alive(r)' /\ rpc'[r] \notin Aside
  BY <1>3, <1>4, <1>5 DEF Alive, Aside
<1>14. QED
  BY <1>1, <1>3, <1>4, <1>5, <1>6, <1>7, <1>8, <1>9, <1>10, <1>11, <1>12, <1>13, WorkStep

LEMMA DeleteFileInv ==
    ASSUME IInv, NEW r \in Requests, NEW a \in Assets, rasset[r] = a,
           DeleteFile(r), UNCHANGED asked
    PROVE  IInv'
<1>1. rpc[r] = "dl_file" /\ rpc[r] \notin Aside
  BY DEF Aside, DeleteFile
<1>2. /\ a \in born /\ a # None /\ CoverExists /\ Shape(r) /\ Alive(r)
      /\ OriginalTypes /\ VisualTypes /\ CoverTypes
      /\ RequestTypes /\ ScanTypes /\ HistoryTypes /\ BoundTypes /\ Asset(a)
  BY <1>1, Begun
<1>3. /\ born' = born /\ row' = row /\ colors' = colors /\ vof' = vof
      /\ vext' = vext /\ vfile' = vfile /\ cover' = cover /\ scan' = scan /\ held' = held
      /\ excused' = excused /\ asked' = asked
      /\ file' = [file EXCEPT ![a] = None]
  BY DEF visuals, backfill, DeleteFile
<1>4. row[a] = None
  BY <1>1, <1>2 DEF Alive
<1>5. /\ Others(r) /\ RequestTypes' /\ rpc'[r] = "v_list"
      /\ rasset' = rasset /\ rop' = rop /\ rdata' = rdata
      /\ rvisual' = rvisual /\ rlist' = rlist
      /\ \A v : Mentions(r, v)' <=> Mentions(r, v)
  BY <1>2, GotoFacts DEF PC, DeleteFile
<1>6. TypeOK'
  BY <1>2, <1>3, <1>5, TypePartsNext
     DEF OriginalTypes, VisualTypes, CoverTypes, ScanTypes, HistoryTypes, BoundTypes
<1>7. Frame(r, a)
  BY <1>2, <1>3, <1>5 DEF Frame, OriginalTypes, NamedKept, Promises
<1>8. Shape(r)'
  BY <1>1, <1>2, <1>3, <1>5 DEF Shape, WithVisual, WithList, WithData
<1>9. One(a)' /\ VisualsOf(a)' = VisualsOf(a)
  BY <1>3, <1>5, SameVisuals
<1>10. CoverExists'
  BY <1>1, <1>2, <1>3, <1>5, <1>7, CoverKept DEF Frame
<1>11. Left(a)'
  <2>1. \A q \in Requests : /\ Brings(q, a)' => Brings(q, a)
                            /\ \A v : Clears(q, a, v) => Clears(q, a, v)'
    BY <1>1, <1>5 DEF Brings, Clears, Others, WithList
  <2>2. file'[a] = None
    BY <1>2, <1>3 DEF OriginalTypes
  <2>3. QED
    BY <1>2, <1>3, <1>9, <2>1, <2>2 DEF Asset, Left
<1>12. rpc'[r] \notin Aside /\ Alive(r)'
  BY <1>5 DEF Alive, Aside
<1>13. QED
  BY <1>1, <1>3, <1>4, <1>5, <1>6, <1>7, <1>8, <1>9, <1>10, <1>11, <1>12, WorkStep

-----------------------------------------------------------------------------
(* Steps that start or end a request without having written anything.      *)

LEMMA UnwrittenStep ==
    ASSUME IInv, NEW r \in Requests, NEW a \in Assets, rpc[r] \in Aside,
           UNCHANGED <<originals, visuals, cover, backfill>>,
           asked' \in 0 .. MaxAsks, Others(r), RequestTypes', HistoryTypes',
           rasset[r] \in {a, None}, rasset'[r] \in {a, None},
           rasset'[r] = a => rasset[r] = a \/ row[a] # None,
           \A v \in Visuals : ~ Mentions(r, v)',
           \A p \in Promises, b \in Assets \ {a} : b \in excused'[p] <=> b \in excused[p],
           \A p \in Promises \ {"stale"} : excused[p] \subseteq excused'[p],
           IF rpc'[r] \in Aside THEN excused'["stale"] = excused["stale"]
                                ELSE a \notin excused'["stale"] => ~ Busy(r, a),
           rpc'[r] \notin {"v_save", "v_row"}, Brings(r, a)' => row[a] # None,
           a \in born, CoverExists', Shape(r)', Alive(r)', Progress(r)'
    PROVE  IInv'
<1>1. /\ born' = born /\ file' = file /\ row' = row /\ colors' = colors /\ vof' = vof
      /\ vext' = vext /\ vfile' = vfile /\ cover' = cover /\ scan' = scan /\ held' = held
  BY DEF originals, visuals, backfill
<1>2. /\ TypeOK /\ Asset(a)
      /\ \A q \in Requests : Shape(q) /\ Alive(q) /\ Progress(q)
  BY DEF IInv, Request
<1>3. TypeOK'
  <2>1. OriginalTypes' /\ VisualTypes' /\ CoverTypes' /\ ScanTypes' /\ BoundTypes'
    BY <1>1, <1>2 DEF TypeOK, OriginalTypes, VisualTypes, CoverTypes, ScanTypes, BoundTypes
  <2>2. QED
    BY <2>1, TypePartsNext
<1>4. Frame(r, a)
  BY <1>1 DEF Frame, NamedKept, Promises
<1>5. \A q \in Requests \ {r} : /\ rpc'[q] = rpc[q] /\ rasset'[q] = rasset[q]
                                /\ rop'[q] = rop[q] /\ rdata'[q] = rdata[q]
                                /\ rparent'[q] = rparent[q] /\ rvisual'[q] = rvisual[q]
                                /\ rlist'[q] = rlist[q]
  BY DEF Others
<1>6. One(a)' /\ VisualsOf(a)' = VisualsOf(a) /\ Newest(a)' = Newest(a)
  BY <1>1, SameVisuals DEF Promises
<1>7. /\ ColorsAgree(a)' <=> ColorsAgree(a)
      /\ Agrees(a)' <=> Agrees(a)
  BY <1>1, <1>6 DEF Agrees, ColorsAgree, IsImage
<1>8. Left(a)'
  <2>1. \A q \in Requests : /\ Brings(q, a)' => Brings(q, a) \/ row[a] # None
                            /\ Removes(q, a) => Removes(q, a)'
                            /\ \A v : Clears(q, a, v) => Clears(q, a, v)'
    BY <1>5 DEF Brings, Removes, Clears, WithList, Aside
  <2>2. a \in excused["left"] => a \in excused'["left"]
    BY DEF Promises
  <2>3. QED
    BY <1>1, <1>2, <1>6, <2>1, <2>2 DEF Asset, Left
<1>9. \A q \in Requests \ {r} : Working(q, a)' <=> Working(q, a)
  BY <1>5 DEF Working
<1>10. ~ Working(r, a) /\ (Holding(a)' <=> Holding(a))
  BY <1>1 DEF Working, Holding
<1>11. CASE rpc'[r] \in Aside
  <2>1. ~ Working(r, a)' /\ excused'["stale"] = excused["stale"]
    BY <1>11 DEF Working
  <2>2. Alone(a)'
    BY <1>2, <1>9, <1>10, <2>1 DEF Asset, Alone
  <2>3. Quiet(a)'
    BY <1>1, <1>2, <1>7, <1>9, <1>10, <2>1 DEF Asset, Quiet
  <2>4. ASSUME NEW q \in Requests \ {r}, rasset'[q] = a PROVE Alive(q)' /\ Progress(q)'
    <3>1. rasset[q] = a /\ rasset'[q] = a
      BY <1>5, <2>4
    <3>2. rpc[q] = "up_row" => rasset'[r] # a
      BY <1>2, <3>1, LifecycleAssumption DEF Alive
    <3>3. a \in excused["cover"] => a \in excused'["cover"]
      BY DEF Promises
    <3>4. Alive(q)'
      BY <1>1, <1>2, <1>5, <3>1, <3>2, <3>3 DEF Alive, Exists
    <3>5. Progress(q)'
      <4>1. /\ rpc'[q] = rpc[q] /\ rasset'[q] = a /\ rasset[q] = a /\ rdata'[q] = rdata[q]
            /\ rparent'[q] = rparent[q] /\ rvisual'[q] = rvisual[q] /\ rlist'[q] = rlist[q]
        BY <1>5, <3>1
      <4>2. /\ file'[a] = file[a] /\ row'[a] = row[a] /\ vfile' = vfile
            /\ VisualsOf(a)' = VisualsOf(a) /\ Newest(a)' = Newest(a)
            /\ ColorsAgree(a)' <=> ColorsAgree(a)
            /\ Agrees(a)' <=> Agrees(a)
            /\ a \in excused'["stale"] <=> a \in excused["stale"]
        BY <1>1, <1>6, <1>7, <2>1
      <4>3. Progress(q)
        BY <1>2
      <4>4. QED
        BY <4>1, <4>2, <4>3
           DEF Progress, Aside, Stored, Colored, Picture, WithList, IsImage, ExtOf
    <3>6. QED
      BY <3>4, <3>5
  <2>5. QED
    BY <1>1, <1>3, <1>4, <1>6, <1>8, <2>2, <2>3, <2>4, LocalStep DEF Asset
<1>12. CASE rpc'[r] \notin Aside
  <2>1. a \notin excused'["stale"] =>
           ~ Holding(a) /\ \A q \in Requests \ {r} : ~ Working(q, a)
    BY <1>12 DEF Busy, Holding, Working, Aside
  <2>2. rasset'[r] = a
    BY <1>12 DEF Shape, Aside
  <2>3. Alone(a)'
    BY <1>9, <1>10, <2>1 DEF Alone
  <2>4. Quiet(a)'
    BY <1>10, <1>12, <2>1, <2>2 DEF Quiet, Working
  <2>5. ASSUME NEW q \in Requests \ {r}, rasset'[q] = a PROVE Alive(q)' /\ Progress(q)'
    <3>1. rasset[q] = a /\ rasset'[q] = a
      BY <1>5, <2>5
    <3>2. rpc[q] # "up_row"
      BY <1>2, <2>2, <3>1 DEF Alive
    <3>3. a \in excused["cover"] => a \in excused'["cover"]
      BY DEF Promises
    <3>4. Alive(q)'
      BY <1>1, <1>2, <1>5, <3>1, <3>2, <3>3 DEF Alive, Exists
    <3>5. Progress(q)'
      BY <1>5, <2>1, <3>1 DEF Progress, Working
    <3>6. QED
      BY <3>4, <3>5
  <2>6. QED
    BY <1>1, <1>3, <1>4, <1>6, <1>8, <2>3, <2>4, <2>5, LocalStep DEF Asset
<1>13. QED
  BY <1>11, <1>12

LEMMA LookupFindInv ==
    ASSUME IInv, NEW r \in Requests, NEW a \in Assets, rasset[r] = a,
           LookupFind(r), UNCHANGED asked
    PROVE  IInv'
<1> DEFINE changed == row[a] # None /\ MediaType[row[a]] # rparent[r]
           late == IF Busy(r, a) \/ changed THEN {a} ELSE {}
<1>1. rpc[r] = "lk_find" /\ rpc[r] \in Aside
  BY DEF Aside, LookupFind
<1>2. /\ a \in born /\ a # None /\ CoverExists /\ Shape(r)
      /\ OriginalTypes /\ VisualTypes /\ CoverTypes
      /\ RequestTypes /\ ScanTypes /\ HistoryTypes /\ BoundTypes /\ Asset(a)
  BY <1>1, Begun
<1>3. UNCHANGED <<originals, visuals, cover, backfill, asked>>
  BY DEF LookupFind
<1>4. /\ born' = born /\ file' = file /\ row' = row /\ colors' = colors /\ vof' = vof
      /\ vext' = vext /\ vfile' = vfile /\ cover' = cover /\ asked' = asked
  BY <1>3 DEF originals, visuals
<1>5. \A v \in Visuals : ~ Mentions(r, v)
  <2>1. rvisual[r] = None /\ rlist[r] = {}
    BY <1>1, <1>2 DEF Shape, WithVisual, WithList
  <2>2. QED
    BY <2>1, LifecycleAssumption DEF Mentions, Ext
<1>6. CASE /\ VisualsOf(a) = {} /\ Goto(r, "lk_get") /\ Excuse({"stale"}, late)
  <2>1. /\ Others(r) /\ RequestTypes' /\ rpc'[r] = "lk_get"
        /\ rasset' = rasset /\ rop' = rop /\ rdata' = rdata /\ rparent' = rparent
        /\ rvisual' = rvisual /\ rlist' = rlist
        /\ \A v : Mentions(r, v)' <=> Mentions(r, v)
    BY <1>2, <1>6, GotoFacts DEF PC
  <2>2. {"stale"} \in SUBSET Promises /\ late \in SUBSET (Assets \cup Visuals)
    BY DEF Promises
  <2>3. /\ HistoryTypes' /\ \A p \in Promises : excused[p] \subseteq excused'[p]
        /\ \A p \in {"stale"} : late \subseteq excused'[p]
        /\ \A p \in Promises : excused'[p] \subseteq excused[p] \cup late
    BY <1>2, <1>6, <2>2, ExcuseFacts
  <2>4. /\ \A p \in Promises, b \in Assets \ {a} : b \in excused'[p] <=> b \in excused[p]
        /\ a \notin excused'["stale"] => ~ Busy(r, a) /\ ~ changed /\ a \notin excused["stale"]
    BY <2>3 DEF Promises
  <2>5. rpc'[r] \notin Aside /\ Alive(r)' /\ ~ Brings(r, a)'
    BY <2>1 DEF Aside, Alive, Brings
  <2>6. Shape(r)'
    BY <1>1, <1>2, <1>4, <2>1 DEF Shape, WithVisual, WithList, WithData
  <2>7. VisualsOf(a)' = VisualsOf(a) /\ Newest(a)' = Newest(a)
    BY <1>4 DEF VisualsOf, Newest
  <2>8. Agrees(a)' <=> Agrees(a)
    BY <1>4, <2>7 DEF Agrees, ColorsAgree, IsImage
  <2>9. a \notin excused'["stale"] /\ row[a] # None =>
           /\ Agrees(a) /\ rparent[r] = MediaType[row[a]] /\ ~ IsImage(row[a])
    <3>1. SUFFICES ASSUME a \notin excused'["stale"], row[a] # None
                   PROVE  Agrees(a) /\ rparent[r] = MediaType[row[a]] /\ ~ IsImage(row[a])
      OBVIOUS
    <3>2. \A q \in Requests : ~ Working(q, a)
      BY <1>1, <2>4, <3>1 DEF Busy, Working, Aside
    <3>3. Agrees(a)
      BY <1>2, <2>4, <3>1, <3>2 DEF Asset, Quiet
    <3>4. rparent[r] = MediaType[row[a]] /\ rparent[r] \in {"video", "audio"}
      BY <1>1, <1>2, <2>4, <3>1 DEF Shape
    <3>5. QED
      BY <3>3, <3>4 DEF IsImage
  <2>10. Progress(r)'
    BY <1>4, <1>6, <2>1, <2>7, <2>8, <2>9
       DEF Progress, Stored, Colored, Picture, WithList, IsImage
  <2>11. UNCHANGED <<originals, visuals, cover, backfill>> /\ asked' \in 0 .. MaxAsks
    BY <1>2, <1>3, <1>4 DEF BoundTypes
  <2>12. CoverExists'
    BY <1>1, <1>2, <1>4, <2>1, <2>3, CoverKept DEF Promises, NamedKept
  <2>13. QED
    BY <1>1, <1>2, <1>5, <2>1, <2>3, <2>4, <2>5, <2>6, <2>10, <2>11, <2>12, UnwrittenStep
<1>7. CASE End(r) /\ UNCHANGED excused
  <2>1. /\ Others(r) /\ RequestTypes' /\ Shape(r)' /\ rpc'[r] = "idle" /\ rasset'[r] = None
        /\ \A v \in Visuals : ~ Mentions(r, v)'
    BY <1>2, <1>7, EndFacts
  <2>2. CoverExists'
    BY <1>1, <1>2, <1>4, <1>7, <2>1, CoverKept DEF NamedKept
  <2>3. rpc'[r] \in Aside /\ Alive(r)' /\ Progress(r)' /\ ~ Brings(r, a)'
    BY <2>1 DEF Aside, Alive, Progress, Brings
  <2>4. /\ UNCHANGED <<originals, visuals, cover, backfill>>
        /\ asked' \in 0 .. MaxAsks /\ HistoryTypes'
    BY <1>2, <1>3, <1>4, <1>7 DEF BoundTypes, HistoryTypes
  <2>5. QED
    BY <1>1, <1>2, <1>7, <2>1, <2>2, <2>3, <2>4, UnwrittenStep
<1>8. QED
  BY <1>6, <1>7 DEF LookupFind

\* Steps of a request that names an asset, or stops naming one.
LEMMA NamingStep ==
    ASSUME IInv, NEW r \in Requests, rpc[r] \in {"idle", "sc_update"},
           UNCHANGED <<originals, visuals, backfill, excused>>,
           cover' \in Assets \cup Visuals \cup {None}, asked' \in 0 .. MaxAsks,
           Others(r), RequestTypes', rpc'[r] \in {"idle", "sc_update"},
           rasset'[r] \in {rasset[r], None} \/ Exists(rasset'[r]),
           CoverExists', Shape(r)', Alive(r)'
    PROVE  IInv'
<1>1. /\ born' = born /\ file' = file /\ row' = row /\ colors' = colors /\ vof' = vof
      /\ vext' = vext /\ vfile' = vfile /\ scan' = scan /\ held' = held
      /\ excused' = excused
  BY DEF originals, visuals, backfill
<1>2. /\ TypeOK /\ Born /\ \A a \in Assets : Asset(a)
      /\ \A q \in Requests : Shape(q) /\ Own(q) /\ Alive(q) /\ Progress(q)
  BY DEF IInv, Request
<1>3. TypeOK'
  <2>1. OriginalTypes' /\ VisualTypes' /\ CoverTypes' /\ ScanTypes' /\ HistoryTypes' /\ BoundTypes'
    BY <1>1, <1>2 DEF TypeOK, OriginalTypes, VisualTypes, CoverTypes, ScanTypes,
                      HistoryTypes, BoundTypes
  <2>2. QED
    BY <2>1, TypePartsNext
<1>4. \A q \in Requests \ {r} : /\ rpc'[q] = rpc[q] /\ rasset'[q] = rasset[q]
                                /\ rop'[q] = rop[q] /\ rdata'[q] = rdata[q]
                                /\ rparent'[q] = rparent[q] /\ rvisual'[q] = rvisual[q]
                                /\ rlist'[q] = rlist[q]
  BY DEF Others
<1>5. \A a : /\ VisualsOf(a)' = VisualsOf(a) /\ Newest(a)' = Newest(a)
             /\ ColorsAgree(a)' <=> ColorsAgree(a)
             /\ Holding(a)' <=> Holding(a)
  BY <1>1 DEF VisualsOf, Newest, ColorsAgree, IsImage, Holding
<1>6. \A a : Agrees(a)' <=> Agrees(a)
  BY <1>1, <1>5 DEF Agrees, IsImage
<1>7. \A a, v : /\ ~ Working(r, a) /\ ~ Generating(r, a) /\ ~ Brings(r, a)
                /\ ~ Removes(r, a) /\ ~ Clears(r, a, v)
                /\ ~ Working(r, a)' /\ ~ Generating(r, a)' /\ ~ Brings(r, a)'
                /\ ~ Removes(r, a)' /\ ~ Clears(r, a, v)'
  BY DEF Working, Generating, Brings, Removes, Clears, Aside, WithList
<1>8. /\ \A q \in Requests, a \in Assets : Working(q, a)' <=> Working(q, a)
      /\ \A q \in Requests, a \in Assets : Generating(q, a)' <=> Generating(q, a)
      /\ \A q \in Requests, a \in Assets : Brings(q, a)' <=> Brings(q, a)
      /\ \A q \in Requests, a \in Assets : Removes(q, a)' <=> Removes(q, a)
      /\ \A q \in Requests, a \in Assets : \A v : Clears(q, a, v)' <=> Clears(q, a, v)
  <2>1. \A q \in Requests, a \in Assets : Working(q, a)' <=> Working(q, a)
    BY <1>4, <1>7 DEF Working
  <2>2. \A q \in Requests, a \in Assets : Generating(q, a)' <=> Generating(q, a)
    BY <1>4, <1>7 DEF Generating
  <2>3. \A q \in Requests, a \in Assets : Brings(q, a)' <=> Brings(q, a)
    BY <1>4, <1>7 DEF Brings
  <2>4. \A q \in Requests, a \in Assets : Removes(q, a)' <=> Removes(q, a)
    BY <1>4, <1>7 DEF Removes
  <2>5. \A q \in Requests, a \in Assets : \A v : Clears(q, a, v)' <=> Clears(q, a, v)
    BY <1>4, <1>7 DEF Clears
  <2>6. QED
    BY <2>1, <2>2, <2>3, <2>4, <2>5
<1>9. ASSUME NEW a \in Assets PROVE Asset(a)'
  <2>1. One(a) /\ Left(a) /\ Alone(a) /\ Quiet(a)
    BY <1>2 DEF Asset
  <2>2. One(a)'
    <3>1. \A q \in Requests : Generating(q, a)' <=> Generating(q, a)
      BY <1>8
    <3>2. QED
      BY <1>1, <1>5, <2>1, <3>1 DEF One
  <2>3. Left(a)'
    <3>1. \A q \in Requests : Brings(q, a)' <=> Brings(q, a)
      BY <1>8
    <3>2. \A q \in Requests : Removes(q, a)' <=> Removes(q, a)
      BY <1>8
    <3>3. \A v : \A q \in Requests : Clears(q, a, v)' <=> Clears(q, a, v)
      BY <1>8
    <3>4. VisualsOf(a)' = VisualsOf(a)
      BY <1>5
    <3>5. QED
      BY <1>1, <2>1, <3>1, <3>2, <3>3, <3>4 DEF Left
  <2>4. \A q \in Requests : Working(q, a)' <=> Working(q, a)
    BY <1>8
  <2>5. (Holding(a)' <=> Holding(a)) /\ (Agrees(a)' <=> Agrees(a))
    BY <1>5, <1>6
  <2>6. Alone(a)' /\ Quiet(a)'
    BY <1>1, <2>1, <2>4, <2>5 DEF Alone, Quiet
  <2>7. QED
    BY <2>2, <2>3, <2>6 DEF Asset
<1>10. \A v \in Visuals : ~ Mentions(r, v)'
  <2>1. rvisual'[r] = None /\ rlist'[r] = {}
    BY DEF Shape, WithVisual, WithList
  <2>2. QED
    BY <2>1, LifecycleAssumption DEF Mentions, Ext
<1>11. \A q \in Requests : Own(q)'
  <2>1. \A q \in Requests \ {r}, v \in Visuals : Mentions(q, v)' <=> Mentions(q, v)
    BY <1>4 DEF Mentions
  <2>2. QED
    BY <1>1, <1>2, <1>4, <1>10, <2>1 DEF Own
<1>12. ASSUME NEW q \in Requests \ {r} PROVE Shape(q)' /\ Alive(q)' /\ Progress(q)'
  <2>1. Shape(q)'
    BY <1>1, <1>2, <1>4 DEF Shape
  <2>2. Alive(q)'
    <3>1. CASE rpc[q] = "up_row"
      <4>1. rasset[q] \in Assets /\ row[rasset[q]] = None /\ rasset[r] # rasset[q]
        BY <1>2, <3>1 DEF Shape, Alive, TypeOK
      <4>2. rasset'[r] # rasset[q]
        BY <4>1, LifecycleAssumption DEF Exists
      <4>3. QED
        BY <1>1, <1>2, <1>4, <3>1, <4>2 DEF Alive
    <3>2. CASE rpc[q] # "up_row"
      BY <1>1, <1>2, <1>4, <3>2 DEF Alive, Exists
    <3>3. QED
      BY <3>1, <3>2
  <2>3. Progress(q)'
    <3>1. PICK a : a = rasset[q]
      OBVIOUS
    <3>2. /\ rpc'[q] = rpc[q] /\ rasset'[q] = a /\ rasset[q] = a /\ rdata'[q] = rdata[q]
          /\ rparent'[q] = rparent[q] /\ rvisual'[q] = rvisual[q] /\ rlist'[q] = rlist[q]
          /\ file' = file /\ row' = row /\ vfile' = vfile /\ excused' = excused
          /\ VisualsOf(a)' = VisualsOf(a) /\ Newest(a)' = Newest(a)
          /\ ColorsAgree(a)' <=> ColorsAgree(a)
          /\ Agrees(a)' <=> Agrees(a)
      BY <1>1, <1>4, <1>5, <1>6, <3>1
    <3>3. Progress(q)
      BY <1>2
    <3>4. QED
      BY <3>2, <3>3
         DEF Progress, Aside, Stored, Colored, Picture, WithList, IsImage, ExtOf
  <2>4. QED
    BY <2>1, <2>2, <2>3
<1>13. Progress(r)'
  BY DEF Progress, Aside
<1>14. Born'
  BY <1>1, <1>2, <1>5 DEF Born
<1>15. QED
  BY <1>3, <1>9, <1>11, <1>12, <1>13, <1>14 DEF IInv, Request

\* The update sets what existed when it was asked for, or what is excused.
LEMMA UpdateCoverInv ==
    ASSUME IInv, NEW r \in Requests, UpdateCover(r), UNCHANGED asked
    PROVE  IInv'
<1>1. rpc[r] = "sc_update"
  BY DEF UpdateCover
<1>2. /\ CoverExists /\ Shape(r) /\ Alive(r)
      /\ CoverTypes /\ RequestTypes /\ BoundTypes
  BY TypeParts DEF IInv, Request
<1>3. UNCHANGED <<originals, visuals, backfill, excused, asked>> /\ cover' \in {cover, rasset[r]}
  BY DEF UpdateCover
<1>4. row' = row /\ vof' = vof /\ excused' = excused /\ asked' = asked
  BY <1>3 DEF originals, visuals
<1>5. /\ Others(r) /\ RequestTypes' /\ Shape(r)' /\ rpc'[r] = "idle" /\ rasset'[r] = None
  BY <1>2, EndFacts DEF UpdateCover
<1>6. CoverExists'
  <2>1. CASE cover' = cover
    BY <1>1, <1>2, <1>4, <1>5, <2>1 DEF CoverExists, Exists, Others
  <2>2. CASE cover' = rasset[r]
    BY <1>1, <1>2, <1>4, <2>2 DEF Alive, CoverExists, Exists
  <2>3. QED
    BY <1>3, <2>1, <2>2
<1>7. Alive(r)'
  BY <1>5 DEF Alive
<1>8. cover' \in Assets \cup Visuals \cup {None} /\ asked' \in 0 .. MaxAsks
  BY <1>2, <1>3, <1>4 DEF CoverTypes, RequestTypes, BoundTypes
<1>9. QED
  BY <1>1, <1>3, <1>5, <1>6, <1>7, <1>8, NamingStep

-----------------------------------------------------------------------------
(* Requests that come in.                                                  *)

\* What the operations on an asset with a row have in common.
LEMMA AskStep ==
    ASSUME IInv, NEW r \in Requests, NEW a \in Assets, rpc[r] = "idle", row[a] # None,
           UNCHANGED <<originals, visuals, cover, backfill>>, asked' \in 0 .. MaxAsks,
           Others(r), RequestTypes', HistoryTypes', rasset'[r] = a,
           rvisual' = rvisual, rlist' = rlist,
           \A p \in Promises, b \in Assets \ {a} : b \in excused'[p] <=> b \in excused[p],
           \A p \in Promises \ {"stale"} : excused'[p] = excused[p],
           IF rpc'[r] \in Aside THEN excused'["stale"] = excused["stale"]
                                ELSE a \notin excused'["stale"] => ~ Busy(r, a),
           rpc'[r] \in {"rp_save", "rg_read", "lk_find", "dl_row"},
           rpc'[r] = "rp_save" => rdata'[r] # None,
           rpc'[r] \in {"rp_save", "rg_read"} => rop'[r] \in {"replace", "regenerate"},
           rpc'[r] = "lk_find" => rparent'[r] \in {"video", "audio"},
           rpc'[r] = "dl_row" /\ a \notin excused'["stale"] => Agrees(a)
    PROVE  IInv'
<1>1. TypeOK /\ Shape(r) /\ CoverExists /\ HistoryTypes /\ a # None
  BY TypeParts, LifecycleAssumption DEF IInv, Request
<1>2. /\ born' = born /\ file' = file /\ row' = row /\ colors' = colors /\ vof' = vof
      /\ vext' = vext /\ vfile' = vfile /\ cover' = cover
  BY DEF originals, visuals
<1>3. a \in born /\ rasset[r] = None /\ rvisual[r] = None /\ rlist[r] = {}
  BY <1>1 DEF TypeOK, Shape, WithVisual, WithList
<1>4. \A v \in Visuals : ~ Mentions(r, v)'
  BY <1>3, LifecycleAssumption DEF Mentions, Ext
<1>5. Shape(r)'
  BY <1>1, <1>2, <1>3 DEF Shape, WithVisual, WithList, WithData
<1>6. Alive(r)'
  BY <1>2 DEF Alive
<1>7. Agrees(a)' <=> Agrees(a)
  <2>1. VisualsOf(a)' = VisualsOf(a) /\ Newest(a)' = Newest(a)
    BY <1>2 DEF VisualsOf, Newest
  <2>2. QED
    BY <1>2, <2>1 DEF Agrees, ColorsAgree, IsImage
<1>8. Progress(r)'
  BY <1>7 DEF Progress, Stored, Colored, Picture, WithList, Aside
<1>9. CoverExists'
  BY <1>1, <1>2, CoverKept DEF Promises, TypeOK, CoverTypes, NamedKept
<1>10. rpc[r] \in Aside /\ rpc'[r] \notin {"v_save", "v_row"}
  BY DEF Aside
<1>11. \A p \in Promises \ {"stale"} : excused[p] \subseteq excused'[p]
  OBVIOUS
<1>12. QED
  BY <1>3, <1>4, <1>5, <1>6, <1>8, <1>9, <1>10, <1>11, UnwrittenStep

LEMMA EnterStep ==
    ASSUME IInv, NEW r \in Requests, NEW a \in Assets, NEW pc \in {"rp_save", "rg_read"},
           NEW op \in {"replace", "regenerate"}, NEW data \in Contents \cup {None},
           pc = "rp_save" => data # None, row[a] # None,
           Begin(r, pc, op, a, data), Enter(r, a),
           UNCHANGED <<originals, visuals, cover, backfill>>, asked' \in 0 .. MaxAsks
    PROVE  IInv'
<1>1. RequestTypes /\ HistoryTypes
  BY TypeParts DEF IInv
<1>2. pc \in PC /\ op \in Ops
  BY DEF PC, Ops
<1>3. /\ Others(r) /\ RequestTypes' /\ rpc[r] = "idle"
      /\ rpc'[r] = pc /\ rasset'[r] = a /\ rop'[r] = op /\ rdata'[r] = data
      /\ rparent' = rparent /\ rvisual' = rvisual /\ rlist' = rlist
  BY <1>1, <1>2, BeginFacts
<1>4. /\ HistoryTypes'
      /\ \A p \in Promises \ {"stale"} : excused'[p] = excused[p]
      /\ a \in excused'["stale"] <=> Busy(r, a)
      /\ \A b \in Assets \ {a} : b \in excused'["stale"] <=> b \in excused["stale"]
  BY <1>1, EnterFacts
<1>5. \A p \in Promises, b \in Assets \ {a} : b \in excused'[p] <=> b \in excused[p]
  BY <1>4
<1>6. rpc'[r] \notin Aside
  BY <1>3 DEF Aside
<1>7. QED
  BY <1>3, <1>4, <1>5, <1>6, AskStep

LEMMA ReplaceContentInv ==
    ASSUME IInv, NEW r \in Requests, NEW a \in Assets, NEW c \in Contents,
           ReplaceContent(r, a, c), asked' \in 0 .. MaxAsks
    PROVE  IInv'
<1>1. c # None /\ c \in Contents \cup {None}
  BY LifecycleAssumption
<1>2. QED
  BY <1>1, EnterStep DEF ReplaceContent

LEMMA RegeneratePreviewInv ==
    ASSUME IInv, NEW r \in Requests, NEW a \in Assets,
           RegeneratePreview(r, a), asked' \in 0 .. MaxAsks
    PROVE  IInv'
BY EnterStep DEF RegeneratePreview

LEMMA SetCoverInv ==
    ASSUME IInv, NEW r \in Requests, NEW x \in Assets \cup Visuals,
           SetCover(r, x), asked' \in 0 .. MaxAsks
    PROVE  IInv'
<1>1. /\ CoverTypes /\ RequestTypes /\ OriginalTypes /\ VisualTypes
      /\ CoverExists /\ Shape(r) /\ x # None
  BY TypeParts, LifecycleAssumption DEF IInv, Request
<1>2. UNCHANGED <<originals, visuals, cover, backfill, excused>> /\ Exists(x)
  BY DEF SetCover
<1>3. /\ born' = born /\ row' = row /\ vof' = vof /\ cover' = cover /\ excused' = excused
  BY <1>2 DEF originals, visuals
<1>4. /\ Others(r) /\ RequestTypes' /\ rpc[r] = "idle"
      /\ rpc'[r] = "sc_update" /\ rasset'[r] = x
      /\ rvisual' = rvisual /\ rlist' = rlist
  BY <1>1 DEF SetCover, Begin, PC, Ops, Others, RequestTypes
<1>5. Shape(r)'
  <2>1. rvisual[r] = None /\ rlist[r] = {}
    BY <1>1, <1>4 DEF Shape, WithVisual, WithList
  <2>2. x \in born \cup Visuals
    BY <1>1, <1>2 DEF Exists, OriginalTypes
  <2>3. QED
    BY <1>1, <1>3, <1>4, <2>1, <2>2 DEF Shape, WithVisual, WithList, WithData
<1>6. Alive(r)'
  BY <1>2, <1>3, <1>4 DEF Alive, Exists
<1>7. CoverExists'
  BY <1>1, <1>3, <1>4 DEF CoverExists, Exists, Others
<1>8. cover' \in Assets \cup Visuals \cup {None}
  BY <1>1, <1>3 DEF CoverTypes
<1>9. QED
  BY <1>2, <1>4, <1>5, <1>6, <1>7, <1>8, NamingStep

LEMMA LookupInv ==
    ASSUME IInv, NEW r \in Requests, NEW a \in Assets, Lookup(r, a), asked' \in 0 .. MaxAsks
    PROVE  IInv'
<1>1. RequestTypes /\ HistoryTypes
  BY TypeParts DEF IInv
<1>2. /\ Others(r) /\ RequestTypes' /\ rpc[r] = "idle"
      /\ rpc'[r] = "lk_find" /\ rasset'[r] = a /\ rparent'[r] \in {"video", "audio"}
      /\ rvisual' = rvisual /\ rlist' = rlist
  BY <1>1 DEF Lookup, PC, Ops, Types, Others, RequestTypes
<1>3. HistoryTypes' /\ excused' = excused
  BY <1>1 DEF Lookup, HistoryTypes
<1>4. rpc'[r] \in Aside
  BY <1>2 DEF Aside
<1>5. row[a] # None /\ UNCHANGED <<originals, visuals, cover, backfill>>
  BY DEF Lookup
<1>6. QED
  BY <1>2, <1>3, <1>4, <1>5, AskStep

LEMMA DeleteInv ==
    ASSUME IInv, NEW r \in Requests, NEW a \in Assets, Delete(r, a), asked' \in 0 .. MaxAsks
    PROVE  IInv'
<1> DEFINE late == IF Busy(r, a) THEN {a} ELSE {}
<1>1. RequestTypes /\ HistoryTypes /\ Asset(a) /\ Shape(r) /\ a # None
  BY TypeParts, LifecycleAssumption DEF IInv, Request
<1>2. /\ Others(r) /\ RequestTypes' /\ rpc[r] = "idle"
      /\ rpc'[r] = "dl_row" /\ rasset'[r] = a
      /\ rvisual' = rvisual /\ rlist' = rlist
  BY <1>1, BeginFacts DEF Delete, PC, Ops
<1>3. {"stale"} \in SUBSET Promises /\ late \in SUBSET (Assets \cup Visuals)
  BY DEF Promises
<1>4. /\ HistoryTypes' /\ \A p \in Promises : excused[p] \subseteq excused'[p]
      /\ \A p \in {"stale"} : late \subseteq excused'[p]
      /\ \A p \in Promises : excused'[p] \subseteq excused[p] \cup late
  BY <1>1, <1>3, ExcuseFacts DEF Delete
<1>5. /\ \A p \in Promises, b \in Assets \ {a} : b \in excused'[p] <=> b \in excused[p]
      /\ a \notin excused'["stale"] => ~ Busy(r, a) /\ a \notin excused["stale"]
  BY <1>4 DEF Promises
<1>6. \A p \in Promises \ {"stale"} : excused'[p] = excused[p]
  BY DEF Delete, Excuse
<1>7. row[a] # None /\ UNCHANGED <<originals, visuals, cover, backfill>>
  BY DEF Delete
<1>8. a \notin excused'["stale"] => Agrees(a)
  <2>1. SUFFICES ASSUME a \notin excused'["stale"] PROVE Agrees(a)
    OBVIOUS
  <2>2. \A q \in Requests : ~ Working(q, a)
    BY <1>1, <1>2, <1>5, <2>1 DEF Busy, Working, Aside
  <2>3. QED
    BY <1>1, <1>5, <1>7, <2>1, <2>2 DEF Asset, Quiet
<1>9. rpc'[r] \notin Aside
  BY <1>2 DEF Aside
<1>10. QED
  BY <1>2, <1>4, <1>5, <1>6, <1>7, <1>8, <1>9, AskStep

\* Nobody has anything to do with an id that was not used before.
LEMMA UploadInv ==
    ASSUME IInv, NEW r \in Requests, NEW a \in Assets, NEW c \in Contents,
           Upload(r, a, c), asked' \in 0 .. MaxAsks
    PROVE  IInv'
<1>1. /\ OriginalTypes /\ VisualTypes /\ CoverTypes /\ RequestTypes /\ ScanTypes /\ HistoryTypes
      /\ Born /\ CoverExists /\ TypeOK /\ \A q \in Requests : Shape(q)
  BY TypeParts DEF IInv, Request
<1>2. /\ row' = row /\ colors' = colors /\ vof' = vof /\ vext' = vext /\ vfile' = vfile
      /\ cover' = cover /\ scan' = scan /\ held' = held /\ excused' = excused
      /\ a \notin born /\ born' = born \cup {a} /\ file' = [file EXCEPT ![a] = c]
  BY DEF Upload, visuals, backfill
<1>3. a # None /\ c # None
  BY LifecycleAssumption
<1>4. /\ Others(r) /\ RequestTypes' /\ rpc[r] = "idle" /\ rpc'[r] = "up_row"
      /\ rasset'[r] = a /\ rop'[r] = "upload" /\ rdata'[r] = c
      /\ rvisual' = rvisual /\ rlist' = rlist
  BY <1>1, BeginFacts DEF Upload, PC, Ops
<1>5. \A q \in Requests : rasset[q] # a
  BY <1>1, <1>2, <1>3, LifecycleAssumption DEF Shape
<1>6. row[a] = None /\ VisualsOf(a) = {} /\ ~ Holding(a)
  BY <1>1, <1>2 DEF OriginalTypes, Born
<1>7. rasset[r] = None /\ rvisual[r] = None /\ rlist[r] = {}
  BY <1>1, <1>4 DEF Shape, WithVisual, WithList
<1>8. \A v \in Visuals : ~ Mentions(r, v)'
  BY <1>4, <1>7, LifecycleAssumption DEF Mentions, Ext
<1>9. TypeOK'
  BY <1>1, <1>2, <1>4, TypePartsNext
     DEF OriginalTypes, VisualTypes, CoverTypes, ScanTypes, HistoryTypes, BoundTypes
<1>10. Frame(r, a)
  BY <1>1, <1>2, <1>4, <1>7, <1>8 DEF Frame, OriginalTypes, NamedKept, Promises
<1>11. file'[a] = c /\ VisualsOf(a)' = {} /\ ~ Holding(a)'
  BY <1>1, <1>2, <1>6 DEF OriginalTypes, VisualsOf, Holding
<1>12. \A q \in Requests \ {r} : rasset'[q] # a
  BY <1>4, <1>5 DEF Others
<1>13. Shape(r)'
  BY <1>2, <1>3, <1>4, <1>7 DEF Shape, WithVisual, WithList, WithData
<1>14. Alive(r)' /\ Progress(r)'
  BY <1>2, <1>4, <1>6, <1>11, <1>12 DEF Alive, Progress
<1>15. One(a)' /\ Alone(a)' /\ Quiet(a)'
  BY <1>2, <1>4, <1>6, <1>11, <1>12 DEF One, Generating, Alone, Working, Quiet
<1>16. Left(a)'
  <2>1. \A q \in Requests : ~ Brings(q, a)'
    BY <1>4, <1>12 DEF Brings
  <2>2. Removes(r, a)'
    BY <1>4 DEF Removes
  <2>3. QED
    BY <1>11, <2>1, <2>2 DEF Left
<1>17. CoverExists'
  BY <1>1, <1>2, <1>4, CoverKept DEF NamedKept
<1>18. \A q \in Requests : rasset'[q] = a => Alive(q)' /\ Progress(q)'
  BY <1>12, <1>14
<1>19. QED
  BY <1>2, <1>9, <1>10, <1>13, <1>15, <1>16, <1>17, <1>18, LocalStep DEF Asset

-----------------------------------------------------------------------------
(* The backfill of colors, the cover taken away, restarts.                 *)

\* Steps that change no request, no original and no visual.
LEMMA BesideStep ==
    ASSUME IInv, UNCHANGED <<originals, visuals, requests, asked>>,
           cover' \in {cover, None}, scan' \subseteq scan,
           held' \in (Assets \X Contents) \cup {None},
           HistoryTypes', \A p \in Promises : excused[p] \subseteq excused'[p],
           \A a \in Assets : Holding(a)' =>
              \/ held' = held
              \/ /\ a \in born /\ held'[2] = file[a]
                 /\ a \notin excused'["stale"] => \A q \in Requests : ~ Working(q, a)
    PROVE  IInv'
<1>1. TypeOK /\ Born /\ CoverExists
  BY DEF IInv
<1>2. /\ born' = born /\ file' = file /\ row' = row /\ colors' = colors /\ vof' = vof
      /\ vext' = vext /\ vfile' = vfile /\ asked' = asked
      /\ rpc' = rpc /\ rasset' = rasset /\ rop' = rop /\ rdata' = rdata
      /\ rparent' = rparent /\ rvisual' = rvisual /\ rlist' = rlist
  BY DEF originals, visuals, requests
<1>3. TypeOK'
  BY <1>1, <1>2 DEF TypeOK, HistoryTypes
<1>4. \A a : /\ VisualsOf(a)' = VisualsOf(a) /\ Newest(a)' = Newest(a)
             /\ ColorsAgree(a)' <=> ColorsAgree(a)
             /\ \A q : Working(q, a)' <=> Working(q, a)
  BY <1>2 DEF VisualsOf, Newest, ColorsAgree, IsImage, Working
<1>5. \A a : Agrees(a)' <=> Agrees(a)
  BY <1>2, <1>4 DEF Agrees, IsImage
<1>6. Born'
  BY <1>1, <1>2, <1>4 DEF Born, Holding
<1>7. CoverExists'
  BY <1>1, <1>2 DEF CoverExists, Promises, Exists
<1>8. ASSUME NEW q \in Requests PROVE Request(q)'
  <2>1. Shape(q) /\ Own(q) /\ Alive(q) /\ Progress(q)
    BY DEF IInv, Request
  <2>2. Shape(q)'
    BY <1>2, <2>1 DEF Shape
  <2>3. Own(q)'
    BY <1>2, <2>1 DEF Own, Mentions
  <2>4. Alive(q)'
    BY <1>2, <2>1 DEF Alive, Promises, Exists
  <2>5. Progress(q)'
    <3>1. rasset[q] \in excused["stale"] => rasset[q] \in excused'["stale"]
      BY DEF Promises
    <3>2. /\ VisualsOf(rasset[q])' = VisualsOf(rasset[q])
          /\ Newest(rasset[q])' = Newest(rasset[q])
      BY <1>2 DEF VisualsOf, Newest
    <3>3. /\ ColorsAgree(rasset[q])' <=> ColorsAgree(rasset[q])
          /\ Agrees(rasset[q])' <=> Agrees(rasset[q])
      BY <1>2, <3>2 DEF ColorsAgree, Agrees, IsImage
    <3>4. QED
      BY <1>2, <2>1, <3>1, <3>2, <3>3
         DEF Progress, Aside, Stored, Colored, Picture, WithList, IsImage, ExtOf
  <2>6. QED
    BY <2>2, <2>3, <2>4, <2>5 DEF Request
<1>9. ASSUME NEW a \in Assets PROVE Asset(a)'
  <2>1. One(a) /\ Left(a) /\ Alone(a) /\ Quiet(a)
    BY DEF IInv, Asset
  <2>2. \A p \in Promises : a \in excused[p] => a \in excused'[p]
    OBVIOUS
  <2>3. One(a)'
    BY <1>2, <1>4, <2>1, <2>2 DEF One, Generating, Promises
  <2>4. Left(a)'
    <3>1. \A q : /\ Brings(q, a)' <=> Brings(q, a)
                 /\ Removes(q, a)' <=> Removes(q, a)
                 /\ \A v : Clears(q, a, v)' <=> Clears(q, a, v)
      BY <1>2 DEF Brings, Removes, Clears
    <3>2. QED
      BY <1>2, <1>4, <2>1, <2>2, <3>1 DEF Left, Promises
  <2>5. Holding(a)' => \/ Holding(a) /\ held' = held
                       \/ /\ held'[2] = file[a]
                          /\ a \notin excused'["stale"] => \A q \in Requests : ~ Working(q, a)
    BY DEF Holding
  <2>6. Alone(a)'
    BY <1>4, <2>1, <2>2, <2>5 DEF Alone, Promises
  <2>7. Quiet(a)'
    BY <1>2, <1>4, <1>5, <2>1, <2>2, <2>5 DEF Quiet, Promises
  <2>8. QED
    BY <2>3, <2>4, <2>6, <2>7 DEF Asset
<1>10. QED
  BY <1>3, <1>6, <1>7, <1>8, <1>9 DEF IInv

LEMMA BackfillOpenInv ==
    ASSUME IInv, NEW a \in Assets, BackfillOpen(a), UNCHANGED asked PROVE IInv'
<1> DEFINE late == IF Busy(None, a) THEN {a} ELSE {}
<1>1. TypeOK /\ HistoryTypes /\ Born
  BY TypeParts DEF IInv
<1>2. /\ a \in scan /\ held = None /\ scan' \subseteq scan /\ cover' = cover
      /\ UNCHANGED <<originals, visuals, requests, asked>>
  BY DEF BackfillOpen
<1>3. a \in born /\ file[a] \in Contents \cup {None}
  BY <1>1, <1>2 DEF Born, TypeOK
<1>4. CASE /\ file[a] # None /\ held' = <<a, file[a]>> /\ Excuse({"stale"}, late)
  <2>1. {"stale"} \in SUBSET Promises /\ late \in SUBSET (Assets \cup Visuals)
    BY DEF Promises
  <2>2. /\ HistoryTypes' /\ \A p \in Promises : excused[p] \subseteq excused'[p]
        /\ \A p \in {"stale"} : late \subseteq excused'[p]
    BY <1>1, <1>4, <2>1, ExcuseFacts
  <2>3. held' \in (Assets \X Contents) \cup {None} /\ held'[1] = a /\ held'[2] = file[a]
    BY <1>3, <1>4
  <2>4. a \notin excused'["stale"] => \A q \in Requests : ~ Working(q, a)
    <3>1. a \notin excused'["stale"] => ~ Busy(None, a)
      BY <2>2
    <3>2. \A q \in Requests : q \in Requests \ {None}
      BY LifecycleAssumption
    <3>3. QED
      BY <3>1, <3>2 DEF Busy, Working, Aside
  <2>5. \A b \in Assets : Holding(b)' => b = a
    BY <2>3 DEF Holding
  <2>6. QED
    BY <1>2, <1>3, <2>2, <2>3, <2>4, <2>5, BesideStep
<1>5. CASE UNCHANGED <<held, excused>>
  BY <1>1, <1>2, <1>5, BesideStep DEF TypeOK, HistoryTypes
<1>6. QED
  BY <1>4, <1>5 DEF BackfillOpen

\* Colors that are stored for a row; who works on the asset meanwhile is
\* excused, and whoever does not has left the content that was read.
LEMMA ColorsStored ==
    ASSUME IInv, NEW a \in Assets, NEW c \in Contents, held = <<a, c>>, held' = None,
           row[a] # None, colors' = [colors EXCEPT ![a] = IF IsImage(c) THEN c ELSE None],
           UNCHANGED <<born, file, row, visuals, cover, requests, scan, excused, asked>>
    PROVE  IInv'
<1>1. TypeOK /\ Born /\ CoverExists /\ OriginalTypes
  BY TypeParts DEF IInv
<1>2. /\ born' = born /\ file' = file /\ row' = row /\ vof' = vof /\ vext' = vext
      /\ vfile' = vfile /\ cover' = cover /\ scan' = scan /\ excused' = excused /\ asked' = asked
      /\ rpc' = rpc /\ rasset' = rasset /\ rop' = rop /\ rdata' = rdata
      /\ rparent' = rparent /\ rvisual' = rvisual /\ rlist' = rlist
  BY DEF visuals, requests
<1>3. /\ colors'[a] = (IF IsImage(c) THEN c ELSE None)
      /\ \A b \in Assets \ {a} : colors'[b] = colors[b]
      /\ colors' \in [Assets -> Contents \cup {None}]
  BY <1>1 DEF OriginalTypes
<1>4. TypeOK'
  BY <1>1, <1>2, <1>3 DEF TypeOK
<1>5. /\ Holding(a) /\ held[2] = c
      /\ \A b : ~ Holding(b)'
  BY LifecycleAssumption DEF Holding
<1>6. \A b : /\ VisualsOf(b)' = VisualsOf(b) /\ Newest(b)' = Newest(b)
             /\ \A q : Working(q, b)' <=> Working(q, b)
  BY <1>2 DEF VisualsOf, Newest, Working
<1>7. \A b \in Assets \ {a} : ColorsAgree(b)' <=> ColorsAgree(b)
  BY <1>2, <1>3 DEF ColorsAgree, IsImage
<1>8. \A b \in Assets \ {a} : Agrees(b)' <=> Agrees(b)
  BY <1>2, <1>6, <1>7 DEF Agrees, IsImage
<1>9. Born'
  BY <1>1, <1>2, <1>5, <1>6 DEF Born
<1>10. CoverExists'
  BY <1>1, <1>2 DEF CoverExists, Exists
<1>11. ASSUME NEW q \in Requests PROVE Request(q)'
  <2>1. Shape(q) /\ Own(q) /\ Alive(q) /\ Progress(q)
    BY DEF IInv, Request
  <2>2. Shape(q)' /\ Alive(q)'
    BY <1>2, <2>1 DEF Shape, Alive, Exists
  <2>3. Own(q)'
    BY <1>2, <2>1 DEF Own, Mentions
  <2>4. Progress(q)'
    <3>1. CASE rpc[q] \in Aside
      BY <1>2, <3>1 DEF Progress
    <3>2. CASE rpc[q] \notin Aside /\ rasset[q] = a
      <4>1. Alone(a) /\ Working(q, a)
        BY <3>2 DEF IInv, Asset, Working
      <4>2. a \in excused["stale"]
        BY <1>5, <4>1 DEF Alone
      <4>3. QED
        BY <1>2, <3>2, <4>2 DEF Progress
    <3>3. CASE rpc[q] \notin Aside /\ rasset[q] # a
      <4>1. rasset[q] \in Assets \ {a}
        BY <3>3, Begun DEF Aside
      <4>2. /\ VisualsOf(rasset[q])' = VisualsOf(rasset[q])
            /\ Newest(rasset[q])' = Newest(rasset[q])
        BY <1>2 DEF VisualsOf, Newest
      <4>3. colors'[rasset[q]] = colors[rasset[q]] /\ rasset'[q] = rasset[q]
        BY <1>2, <1>3, <4>1
      <4>4. /\ ColorsAgree(rasset[q])' <=> ColorsAgree(rasset[q])
            /\ Agrees(rasset[q])' <=> Agrees(rasset[q])
        BY <1>2, <4>2, <4>3 DEF ColorsAgree, Agrees, IsImage
      <4>5. QED
        BY <1>2, <2>1, <4>2, <4>4
           DEF Progress, Aside, Stored, Colored, Picture, WithList, IsImage, ExtOf
    <3>4. QED
      BY <3>1, <3>2, <3>3
  <2>5. QED
    BY <2>2, <2>3, <2>4 DEF Request
<1>12. ASSUME NEW b \in Assets PROVE Asset(b)'
  <2>1. One(b) /\ Left(b) /\ Alone(b) /\ Quiet(b)
    BY DEF IInv, Asset
  <2>2. One(b)'
    BY <1>2, <1>6, <2>1 DEF One, Generating
  <2>3. Left(b)'
    <3>1. \A q : /\ Brings(q, b)' <=> Brings(q, b)
                 /\ Removes(q, b)' <=> Removes(q, b)
                 /\ \A v : Clears(q, b, v)' <=> Clears(q, b, v)
      BY <1>2 DEF Brings, Removes, Clears
    <3>2. QED
      BY <1>2, <1>6, <2>1, <3>1 DEF Left
  <2>4. Alone(b)'
    BY <1>2, <1>5, <1>6, <2>1 DEF Alone
  <2>5. Quiet(b)'
    <3>1. CASE b # a
      BY <1>2, <1>5, <1>6, <1>8, <2>1, <3>1 DEF Quiet
    <3>2. CASE b = a
      <4>1. SUFFICES ASSUME a \notin excused["stale"], \A q \in Requests : ~ Working(q, a)
                     PROVE  Agrees(a)'
        BY <1>2, <1>5, <1>6, <3>2 DEF Quiet
      <4>2. Agrees(a) /\ c = file[a]
        BY <1>5, <2>1, <3>2, <4>1 DEF Quiet
      <4>3. ColorsAgree(a)'
        BY <1>2, <1>3, <4>2 DEF ColorsAgree, IsImage
      <4>4. QED
        BY <1>2, <1>6, <4>2, <4>3 DEF Agrees, IsImage
    <3>3. QED
      BY <3>1, <3>2
  <2>6. QED
    BY <2>2, <2>3, <2>4, <2>5 DEF Asset
<1>13. QED
  BY <1>4, <1>9, <1>10, <1>11, <1>12 DEF IInv

LEMMA BackfillSaveInv ==
    ASSUME IInv, BackfillSave, UNCHANGED asked PROVE IInv'
<1>1. TypeOK /\ HistoryTypes
  BY TypeParts DEF IInv
<1>2. /\ held # None /\ held' = None /\ StoreColors(held[1], held[2])
      /\ UNCHANGED <<born, file, row, visuals, cover, requests, scan, excused>>
  BY DEF BackfillSave
<1>3. PICK a \in Assets, c \in Contents : held = <<a, c>>
  BY <1>1, <1>2 DEF TypeOK
<1>4. CASE row[a] = None
  <2>1. colors' = colors
    BY <1>2, <1>3, <1>4 DEF StoreColors
  <2>2. \A b \in Assets : ~ Holding(b)'
    BY <1>2 DEF Holding
  <2>3. UNCHANGED <<originals, visuals, requests, asked>> /\ HistoryTypes'
    BY <1>1, <1>2, <2>1 DEF originals, HistoryTypes
  <2>4. QED
    BY <1>2, <2>2, <2>3, BesideStep
<1>5. CASE row[a] # None
  <2>1. colors' = [colors EXCEPT ![a] = IF IsImage(c) THEN c ELSE None]
    BY <1>2, <1>3, <1>5 DEF StoreColors
  <2>2. UNCHANGED <<born, file, row, visuals, cover, requests, scan, excused, asked>>
    BY <1>2
  <2>3. QED
    BY <1>2, <1>3, <1>5, <2>1, <2>2, ColorsStored
<1>6. QED
  BY <1>4, <1>5

LEMMA StutterInv == ASSUME IInv, UNCHANGED vars PROVE IInv'
<1>1. TypeOK /\ HistoryTypes /\ Born
  BY TypeParts DEF IInv
<1>2. /\ UNCHANGED <<originals, visuals, requests, asked>>
      /\ cover' = cover /\ scan' = scan /\ held' = held /\ excused' = excused
  BY DEF vars, backfill
<1>3. HistoryTypes' /\ held' \in (Assets \X Contents) \cup {None}
  BY <1>1, <1>2 DEF HistoryTypes, TypeOK
<1>4. QED
  BY <1>2, <1>3, BesideStep

LEMMA ClearCoverInv == ASSUME IInv, ClearCover, UNCHANGED asked PROVE IInv'
<1>1. TypeOK /\ HistoryTypes /\ Born
  BY TypeParts DEF IInv
<1>2. /\ UNCHANGED <<originals, visuals, requests, asked>>
      /\ cover' = None /\ scan' = scan /\ held' = held /\ excused' = excused
  BY DEF ClearCover, backfill
<1>3. HistoryTypes' /\ held' \in (Assets \X Contents) \cup {None}
  BY <1>1, <1>2 DEF HistoryTypes, TypeOK
<1>4. QED
  BY <1>2, <1>3, BesideStep

\* What was begun is given up, and excused.
LEMMA RestartInv == ASSUME IInv, Restart, UNCHANGED asked PROVE IInv'
<1> DEFINE handled == {a \in Assets : \E r \in Requests : rasset[r] = a}
<1>1. TypeOK /\ HistoryTypes /\ OriginalTypes /\ Born /\ CoverExists
  BY TypeParts DEF IInv
<1>2. /\ born' = born /\ file' = file /\ row' = row /\ colors' = colors /\ vof' = vof
      /\ vext' = vext /\ vfile' = vfile /\ cover' = cover /\ asked' = asked
      /\ held' = None /\ scan' = Uncolored(row, colors)
  BY DEF Restart, originals, visuals
<1>3. \A r \in Requests : /\ rpc'[r] = "idle" /\ rasset'[r] = None /\ rop'[r] = None
                          /\ rdata'[r] = None /\ rparent'[r] = None
                          /\ rvisual'[r] = None /\ rlist'[r] = {}
  BY DEF Restart
<1>4. /\ HistoryTypes' /\ \A p \in Promises : excused[p] \subseteq excused'[p]
      /\ \A p \in {"left", "cover", "stale"} : handled \subseteq excused'[p]
  <2>1. {"left", "cover", "stale"} \in SUBSET Promises /\ handled \in SUBSET (Assets \cup Visuals)
    BY DEF Promises
  <2>2. Excuse({"left", "cover", "stale"}, handled)
    BY DEF Restart
  <2> HIDE DEF handled
  <2>3. QED
    BY <1>1, <2>1, <2>2, ExcuseFacts
<1>5. scan' \subseteq born
  BY <1>1, <1>2 DEF Uncolored, OriginalTypes
<1>6. TypeOK'
  <2>1. RequestTypes'
    BY DEF Restart, RequestTypes, PC
  <2>2. OriginalTypes' /\ VisualTypes' /\ CoverTypes' /\ BoundTypes'
    BY <1>1, <1>2, TypeParts DEF OriginalTypes, VisualTypes, CoverTypes, BoundTypes
  <2>3. ScanTypes'
    BY <1>1, <1>2, <1>5 DEF ScanTypes, OriginalTypes
  <2>4. QED
    BY <1>4, <2>1, <2>2, <2>3, TypePartsNext
<1>7. \A a : /\ VisualsOf(a)' = VisualsOf(a) /\ Newest(a)' = Newest(a) /\ ~ Holding(a)'
  BY <1>2 DEF VisualsOf, Newest, Holding
<1>8. \A a : Agrees(a)' <=> Agrees(a)
  BY <1>2, <1>7 DEF Agrees, ColorsAgree, IsImage
<1>9. Born'
  BY <1>1, <1>2, <1>5, <1>7 DEF Born
<1>10. CoverExists'
  <2>1. \A r \in Requests : rpc[r] = "dl_cover" => rasset[r] \in Assets
    BY Begun
  <2>2. (\E r \in Requests : rasset[r] = cover /\ rpc[r] = "dl_cover")
           => cover \in excused'["cover"]
    BY <1>4, <2>1
  <2>3. cover \in excused["cover"] => cover \in excused'["cover"]
    BY <1>4 DEF Promises
  <2>4. cover' = cover /\ row' = row /\ vof' = vof
    BY <1>2
  <2>5. \/ cover = None \/ cover \in excused'["cover"] \/ Exists(cover)
    BY <1>1, <2>2, <2>3 DEF CoverExists
  <2>6. QED
    BY <2>4, <2>5 DEF CoverExists, Exists
<1>11. ASSUME NEW r \in Requests PROVE Request(r)'
  <2>1. Shape(r)'
    BY <1>3 DEF Shape, WithVisual, WithList, WithData
  <2>2. Own(r)'
    BY <1>3, LifecycleAssumption DEF Own, Mentions, Ext
  <2>3. Alive(r)' /\ Progress(r)'
    BY <1>3 DEF Alive, Progress, Aside
  <2>4. QED
    BY <2>1, <2>2, <2>3 DEF Request
<1>12. ASSUME NEW a \in Assets PROVE Asset(a)'
  <2>1. One(a) /\ Left(a) /\ Alone(a) /\ Quiet(a) /\ a # None
    BY LifecycleAssumption DEF IInv, Asset
  <2>2. \A r \in Requests : rasset'[r] # a /\ ~ Working(r, a)' /\ ~ Generating(r, a)' /\ ~ Brings(r, a)'
    BY <1>3, <2>1 DEF Working, Generating, Brings
  <2>3. \A p \in Promises : a \in excused[p] => a \in excused'[p]
    BY <1>4
  <2>4. a \in handled => a \in excused'["left"] /\ a \in excused'["stale"]
    BY <1>4
  <2>5. One(a)'
    BY <1>7, <2>1, <2>2, <2>3 DEF One, Promises
  <2>6. Left(a)'
    <3>1. SUFFICES ASSUME a \in born \ excused'["left"], row[a] = None
                   PROVE  file[a] = None /\ VisualsOf(a) = {}
      BY <1>2, <1>7, <2>2 DEF Left
    <3>2. \A r \in Requests : rasset[r] # a
      BY <2>4, <3>1
    <3>3. \A r \in Requests : ~ Removes(r, a) /\ \A v : ~ Clears(r, a, v)
      BY <3>2 DEF Removes, Clears
    <3>4. QED
      BY <2>1, <2>3, <3>1, <3>3 DEF Left, Promises
  <2>7. Alone(a)'
    BY <2>2 DEF Alone
  <2>8. Quiet(a)'
    <3>1. SUFFICES ASSUME a \notin excused'["stale"], row[a] # None PROVE Agrees(a)
      BY <1>2, <1>7, <1>8 DEF Quiet
    <3>2. \A r \in Requests : ~ Working(r, a)
      BY <2>4, <3>1 DEF Working
    <3>3. QED
      BY <2>1, <2>3, <3>1, <3>2 DEF Quiet, Promises
  <2>9. QED
    BY <2>5, <2>6, <2>7, <2>8 DEF Asset
<1>13. QED
  BY <1>6, <1>9, <1>10, <1>11, <1>12 DEF IInv

-----------------------------------------------------------------------------
(* Every step of the specification.                                        *)

LEMMA StepInv ==
    ASSUME IInv, NEW r \in Requests, Step(r), UNCHANGED asked PROVE IInv'
<1>1. rpc[r] # "idle"
  BY DEF Step, UploadRow, UploadAttributes, ReplaceSave, RegenerateRead, UpdateRow,
         SaveColors, Reload, LookupFind, LookupGet, LookupOpen, FindVisual, SaveVisual,
         CreateVisual, CopyAttributes, OverwriteVisual, DropOldFile, RecopyAttributes,
         UpdateVisual, ListVisuals, DeleteVisualFile, DeleteVisualRow, DeleteRow,
         ClearReferences, DeleteFile, UpdateCover
<1>2. CASE UpdateCover(r)
  BY <1>2, UpdateCoverInv
<1>3. CASE ~ UpdateCover(r)
  <2>1. rpc[r] # "sc_update"
    BY <1>3 DEF Step, UploadRow, UploadAttributes, ReplaceSave, RegenerateRead, UpdateRow,
         SaveColors, Reload, LookupFind, LookupGet, LookupOpen, FindVisual, SaveVisual,
         CreateVisual, CopyAttributes, OverwriteVisual, DropOldFile, RecopyAttributes,
         UpdateVisual, ListVisuals, DeleteVisualFile, DeleteVisualRow, DeleteRow,
         ClearReferences, DeleteFile
  <2>2. PICK a \in Assets : rasset[r] = a
    BY <1>1, <2>1, Begun
  <2>3. CASE UploadRow(r) \/ UploadAttributes(r)
    BY <2>2, <2>3, UploadRowInv, UploadAttributesInv
  <2>4. CASE ReplaceSave(r) \/ RegenerateRead(r) \/ UpdateRow(r) \/ SaveColors(r) \/ Reload(r)
    BY <2>2, <2>4, ReplaceSaveInv, RegenerateReadInv, UpdateRowInv, SaveColorsInv, ReloadInv
  <2>5. CASE LookupFind(r) \/ LookupGet(r) \/ LookupOpen(r)
    BY <2>2, <2>5, LookupFindInv, LookupGetInv, LookupOpenInv
  <2>6. CASE FindVisual(r) \/ SaveVisual(r) \/ CreateVisual(r) \/ CopyAttributes(r)
    BY <2>2, <2>6, FindVisualInv, SaveVisualInv, CreateVisualInv, CopyAttributesInv
  <2>7. CASE OverwriteVisual(r) \/ DropOldFile(r) \/ RecopyAttributes(r) \/ UpdateVisual(r)
    BY <2>2, <2>7, OverwriteVisualInv, DropOldFileInv, RecopyAttributesInv, UpdateVisualInv
  <2>8. CASE ListVisuals(r) \/ DeleteVisualFile(r) \/ DeleteVisualRow(r)
    BY <2>2, <2>8, ListVisualsInv, DeleteVisualFileInv, DeleteVisualRowInv
  <2>9. CASE DeleteRow(r) \/ ClearReferences(r) \/ DeleteFile(r)
    BY <2>2, <2>9, DeleteRowInv, ClearReferencesInv, DeleteFileInv
  <2>10. QED
    BY <1>3, <2>3, <2>4, <2>5, <2>6, <2>7, <2>8, <2>9 DEF Step
<1>4. QED
  BY <1>2, <1>3

LEMMA AskInv == ASSUME IInv, NEW r \in Requests, Ask(r) PROVE IInv'
<1>1. asked' \in 0 .. MaxAsks
  BY LifecycleAssumption DEF Ask, IInv, TypeOK
<1>2. ASSUME NEW a \in Assets, NEW c \in Contents, Upload(r, a, c) \/ ReplaceContent(r, a, c)
      PROVE  IInv'
  BY <1>1, <1>2, UploadInv, ReplaceContentInv
<1>3. ASSUME NEW a \in Assets, RegeneratePreview(r, a) \/ Lookup(r, a) \/ Delete(r, a)
      PROVE  IInv'
  BY <1>1, <1>3, RegeneratePreviewInv, LookupInv, DeleteInv
<1>4. ASSUME NEW x \in Assets \cup Visuals, SetCover(r, x) PROVE IInv'
  BY <1>1, <1>4, SetCoverInv
<1>5. QED
  BY <1>2, <1>3, <1>4 DEF Ask

\* A library in which each original agrees with its file.
LEMMA InitInv == Init => IInv
<1> SUFFICES ASSUME Init PROVE IInv
  OBVIOUS
<1>1. /\ born \subseteq Assets /\ file \in [Assets -> Contents \cup {None}]
      /\ \A a \in Assets : file[a] # None <=> a \in born
      /\ row = file
      /\ cover \in born \cup {v \in Visuals : vof[v] # None} \cup {None}
      /\ vof \in [Visuals -> Assets \cup {None}]
      /\ \A v, w \in Visuals : vof[v] = vof[w] /\ vof[v] # None => v = w
      /\ held = None /\ asked = 0 /\ scan = Uncolored(row, colors)
  BY DEF Init
<1>2. \A a \in Assets : colors[a] \in (IF a \in born /\ IsImage(file[a])
                                       THEN {file[a], None} ELSE {None})
  BY DEF Init
<1>3. colors \in [Assets -> Contents \cup {None}]
  BY <1>1 DEF Init
<1>4. \A r \in Requests : /\ rpc[r] = "idle" /\ rasset[r] = None /\ rop[r] = None
                          /\ rdata[r] = None /\ rparent[r] = None
                          /\ rvisual[r] = None /\ rlist[r] = {}
  BY DEF Init
<1>5. \A p \in Promises : excused[p] = {}
  BY DEF Init
<1>6. \A v \in Visuals : vof[v] # None =>
         /\ vof[v] \in Assets /\ file[vof[v]] # None /\ ~ IsImage(file[vof[v]])
         /\ vfile[<<v, vext[v]>>] = file[vof[v]]
  <2>1. SUFFICES ASSUME NEW v \in Visuals, vof[v] # None
                 PROVE  /\ vof[v] \in Assets /\ file[vof[v]] # None /\ ~ IsImage(file[vof[v]])
                        /\ vfile[<<v, vext[v]>>] = file[vof[v]]
    OBVIOUS
  <2>2. vof[v] \in Assets /\ file[vof[v]] # None /\ ~ IsImage(file[vof[v]])
    BY <1>1, <2>1 DEF Init
  <2>3. vext[v] \in Ext
    BY DEF Init, ExtOf, Ext
  <2>4. <<v, vext[v]>> \in Visuals \X Ext
    BY <2>3
  <2>5. vfile[<<v, vext[v]>>] = file[vof[v]]
    BY <2>1, <2>4 DEF Init
  <2>6. QED
    BY <2>2, <2>5
<1>7. TypeOK
  <2>1. OriginalTypes
    BY <1>1, <1>2, <1>3 DEF OriginalTypes
  <2>2. VisualTypes
    <3>1. vext \in [Visuals -> Ext]
      BY DEF Init, ExtOf, Ext
    <3>2. ASSUME NEW k \in Visuals \X Ext PROVE vfile[k] \in Contents \cup {None}
      <4>1. vfile[k] = None \/ (vof[k[1]] # None /\ vfile[k] = file[vof[k[1]]])
        BY DEF Init
      <4>2. k[1] \in Visuals
        OBVIOUS
      <4>3. QED
        BY <1>1, <1>6, <4>1, <4>2
    <3>3. vfile = [k \in Visuals \X Ext |-> vfile[k]]
      BY DEF Init
    <3>4. vfile \in [Visuals \X Ext -> Contents \cup {None}]
      BY <3>2, <3>3
    <3>5. QED
      BY <1>1, <3>1, <3>4 DEF VisualTypes
  <2>3. RequestTypes
    BY DEF Init, RequestTypes, PC
  <2>4. CoverTypes /\ ScanTypes /\ BoundTypes
    BY <1>1, LifecycleAssumption DEF CoverTypes, ScanTypes, BoundTypes, Uncolored
  <2>5. HistoryTypes
    BY DEF Init, HistoryTypes
  <2>6. QED
    BY <2>1, <2>2, <2>3, <2>4, <2>5, TypeParts
<1>8. \A a \in Assets : a # None /\ ~ Holding(a)
  BY <1>1, LifecycleAssumption DEF Holding
<1>9. Born
  <2>1. ASSUME NEW a \in Assets \ born PROVE file[a] = None /\ VisualsOf(a) = {}
    <3>1. a \in Assets /\ file[a] = None /\ a # None
      BY <1>1, <1>8
    <3>2. \A v \in Visuals : vof[v] # a
      BY <1>6, <3>1
    <3>3. QED
      BY <3>1, <3>2 DEF VisualsOf
  <2>2. scan \subseteq born
    BY <1>1 DEF Uncolored
  <2>3. QED
    BY <1>8, <2>1, <2>2 DEF Born
<1>10. CoverExists
  BY <1>1 DEF CoverExists, Exists
<1>11. ASSUME NEW r \in Requests PROVE Request(r)
  <2>1. Shape(r)
    BY <1>4 DEF Shape, WithVisual, WithList, WithData
  <2>2. Own(r)
    BY <1>4, LifecycleAssumption DEF Own, Mentions, Ext
  <2>3. Alive(r) /\ Progress(r)
    BY <1>4 DEF Alive, Progress, Aside
  <2>4. QED
    BY <2>1, <2>2, <2>3 DEF Request
<1>12. ASSUME NEW a \in Assets PROVE Asset(a)
  <2>1. \A r \in Requests : rasset[r] # a
    BY <1>4, <1>8
  <2>2. One(a)
    BY <1>1, <1>8, <2>1 DEF One, Generating, VisualsOf
  <2>3. Left(a)
    <3>1. SUFFICES ASSUME row[a] = None PROVE a \notin born
      BY DEF Left
    <3>2. QED
      BY <1>1, <3>1
  <2>4. Alone(a)
    BY <2>1 DEF Alone, Working
  <2>5. Quiet(a)
    <3>1. SUFFICES ASSUME row[a] # None PROVE Agrees(a)
      BY <1>8 DEF Quiet
    <3>2. a \in born /\ row[a] = file[a] /\ ColorsAgree(a)
      BY <1>1, <1>2, <3>1 DEF ColorsAgree
    <3>3. \A v \in VisualsOf(a) : ~ IsImage(file[a]) /\ vfile[<<v, vext[v]>>] = file[a]
      BY <1>6, <1>8 DEF VisualsOf
    <3>4. \A v \in Newest(a) : vfile[<<v, vext[v]>>] = file[a]
      BY <3>3 DEF Newest
    <3>5. QED
      BY <3>2, <3>3, <3>4 DEF Agrees
  <2>6. QED
    BY <2>2, <2>3, <2>4, <2>5 DEF Asset
<1>13. QED
  BY <1>7, <1>9, <1>10, <1>11, <1>12 DEF IInv

LEMMA NextInv == IInv /\ [Next]_vars => IInv'
<1> SUFFICES ASSUME IInv, [Next]_vars PROVE IInv'
  OBVIOUS
<1>1. CASE \E r \in Requests : Ask(r)
  BY <1>1, AskInv
<1>2. CASE UNCHANGED asked /\ \E r \in Requests : Step(r)
  BY <1>2, StepInv
<1>3. CASE UNCHANGED asked /\ \E a \in Assets : BackfillOpen(a)
  BY <1>3, BackfillOpenInv
<1>4. CASE UNCHANGED asked /\ (BackfillSave \/ ClearCover \/ Restart)
  BY <1>4, BackfillSaveInv, ClearCoverInv, RestartInv
<1>5. CASE UNCHANGED vars
  BY <1>5, StutterInv
<1>6. QED
  BY <1>1, <1>2, <1>3, <1>4, <1>5 DEF Next

-----------------------------------------------------------------------------
(* The theorems.                                                           *)

\* The inductive invariant holds in every state: whatever overlaps, fails or
\* is cut off by a restart, each asset that is not excused is either as its
\* file says or in the hands of one request that will make it so.
THEOREM LifecycleInvariance == Spec => []IInv
<1>1. Init => IInv
  BY InitInv
<1>2. IInv /\ [Next]_vars => IInv'
  BY NextInv
<1>3. QED
  BY <1>1, <1>2, PTL DEF Spec

\* Every variable keeps its type, for any assets, visuals and requests: in
\* particular a row is of an id that was taken, and colors are of a row.
THEOREM LifecycleTypes == Spec => []TypeOK
<1>1. IInv => TypeOK
  BY DEF IInv
<1>2. QED
  BY <1>1, LifecycleInvariance, PTL

\* upsertVisualAsset gives an asset a second visual only where two of its
\* generations overlapped between the lookup and the row.
THEOREM OneVisualHolds == Spec => []OneVisual
<1>1. IInv => OneVisual
  BY DEF IInv, Asset, One, OneVisual
<1>2. QED
  BY <1>1, LifecycleInvariance, PTL

\* A deletion that did not fail leaves no file and no visual, whatever other
\* requests do, unless one that had loaded the row brings something back.
THEOREM DeletionIsComplete == Spec => []NothingLeft
<1>1. ASSUME IInv, NEW a \in born \ excused["left"], row[a] = None, ~ Handled(a)
      PROVE  file[a] = None /\ VisualsOf(a) = {}
  <2>1. a \in Assets /\ Left(a)
    BY <1>1 DEF IInv, TypeOK, Asset
  <2>2. \A r \in Requests : ~ Removes(r, a) /\ \A v : ~ Clears(r, a, v)
    BY <1>1 DEF Handled, Removes, Clears
  <2>3. QED
    BY <1>1, <2>1, <2>2 DEF Left
<1>2. IInv => NothingLeft
  BY <1>1 DEF NothingLeft
<1>3. QED
  BY <1>2, LifecycleInvariance, PTL

\* The cover names an asset that exists, or an original that a deletion is
\* about to clear, unless the original was being set while its row went, its
\* clearing failed, or the cover is a visual that was deleted.
THEOREM CoverHolds == Spec => []CoverExists
<1>1. IInv => CoverExists
  BY DEF IInv
<1>2. QED
  BY <1>1, LifecycleInvariance, PTL

\* An asset that nobody works on agrees with its file in its row, its colors
\* and its visual, unless two requests overlapped on it or one failed since
\* the last replacement or regeneration that had it for itself.
THEOREM DerivatesAgree == Spec => []DerivedAgrees
<1>1. ASSUME IInv, NEW a \in Assets \ excused["stale"], row[a] # None, ~ Handled(a)
      PROVE  Agrees(a)
  <2>1. Quiet(a)
    BY <1>1 DEF IInv, Asset
  <2>2. \A r \in Requests : ~ Working(r, a)
    BY <1>1 DEF Handled, Working
  <2>3. QED
    BY <1>1, <2>1, <2>2 DEF Quiet
<1>2. IInv => DerivedAgrees
  BY <1>1 DEF DerivedAgrees, Agrees, ColorsAgree
<1>3. QED
  BY <1>2, LifecycleInvariance, PTL
=============================================================================
