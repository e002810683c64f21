---------------------------- MODULE AssetLifecycle ----------------------------
(***************************************************************************)
(* An original and what is derived from it: the columns of its row that    *)
(* describe the file, its colors, its visual (the picture of a video, a    *)
(* sound or a document, an asset of its own), and the instance's cover.    *)
(*                                                                         *)
(*   service/asset_service.go     upload, replace, regenerate, delete      *)
(*   service/preview_asset.go     visuals, lazy generation                 *)
(*   service/instance_service.go  the reference to the cover               *)
(*                                                                         *)
(* Nothing locks an asset, and a visual is tied to its parent by a column  *)
(* without a foreign key.  An action is one SQL statement or transaction,  *)
(* or one operation on a file.  Every statement can fail: the client may   *)
(* have left, which cancels it.  Contents stand for bytes; what is derived *)
(* from a content is named by it.  The backup queue, conversions and       *)
(* attributes of these handlers are in modules of their own.               *)
(*                                                                         *)
(* The handlers take the id of a visual for the id of an original; the     *)
(* model does so for the cover only: requests that replace, regenerate or  *)
(* delete a visual under its own id are left out.                          *)
(***************************************************************************)
EXTENDS Naturals

CONSTANTS
    Assets,      \* ids of originals (an id is used once)
    Visuals,     \* ids of visuals, numbers in the order of created_at
    Contents,    \* contents of files
    MediaType,   \* the type of each content
    Requests,    \* requests that can be in flight at the same time
    None,
    MaxAsks      \* bound: requests in all

Types == {"image", "video", "audio", "other"}

ASSUME LifecycleAssumption ==
    /\ Visuals \subseteq Nat
    /\ MediaType \in [Contents -> Types]
    /\ Assets \cap Visuals = {}
    /\ None \notin Assets \cup Visuals \cup Contents \cup Requests /\ None \notin Types
    /\ None \notin Assets \X Contents /\ None \notin Visuals \X {"jpg", "png"}
    /\ MaxAsks \in Nat

VARIABLES
    born,     \* ids that an upload has taken
    file,     \* the content of the original's file
    row,      \* the content that the original's row describes
    colors,   \* the content that its colors are taken from
    vof,      \* image_of of each visual's row
    vext,     \* the extension of its storage key
    vfile,    \* files of visuals, by id and extension
    cover,    \* cover_asset_id of the instance
    rpc,      \* what each request is about to do
    rasset,   \* the asset it is about: an original, or the cover to be
    rop,      \* what it was asked for
    rdata,    \* the content it holds
    rparent,  \* the type of the parent it has loaded
    rvisual,  \* the visual it writes, and the extension it found
    rlist,    \* visuals it has yet to delete, with their extensions
    scan,     \* images that the backfill has yet to look at
    held,     \* the image it has read
    excused,  \* history: originals and visuals a promise no longer covers
    asked     \* how much of the bound is used

originals == <<born, file, row, colors>>
visuals   == <<vof, vext, vfile>>
requests  == <<rpc, rasset, rop, rdata, rparent, rvisual, rlist>>
backfill  == <<scan, held>>
vars == <<originals, visuals, cover, requests, backfill, excused, asked>>

Ext == {"jpg", "png"}
Ops == {"upload", "replace", "regenerate", "lookup", "delete", "cover"}
PC  == {"idle", "up_row", "up_attrs", "rp_save", "rg_read", "row", "colors",
        "get", "lk_find", "lk_get", "lk_open", "v_find", "v_save", "v_row",
        "v_attrs", "v_over", "v_drop", "v_copy", "v_update", "v_list", "v_file",
        "v_gone", "dl_row", "dl_cover", "dl_file", "sc_update"}

\* What a history of failures and overlaps can excuse: a second visual,
\* something left of a deleted asset, a reference to one, stale derivates.
Promises == {"one", "left", "cover", "stale"}

TypeOK ==
    /\ born \subseteq Assets
    /\ file \in [Assets -> Contents \cup {None}]
    /\ row \in [Assets -> Contents \cup {None}]
    /\ \A a \in Assets : row[a] # None => a \in born
    /\ colors \in [Assets -> Contents \cup {None}]
    /\ \A a \in Assets : row[a] = None => colors[a] = None
    /\ vof \in [Visuals -> Assets \cup {None}] /\ vext \in [Visuals -> Ext]
    /\ vfile \in [Visuals \X Ext -> Contents \cup {None}]
    /\ cover \in Assets \cup Visuals \cup {None}
    /\ rpc \in [Requests -> PC]
    /\ rasset \in [Requests -> Assets \cup Visuals \cup {None}]
    /\ rop \in [Requests -> Ops \cup {None}]
    /\ rdata \in [Requests -> Contents \cup {None}]
    /\ rparent \in [Requests -> Types \cup {None}]
    /\ rvisual \in [Requests -> (Visuals \X Ext) \cup {None}]
    /\ rlist \in [Requests -> SUBSET (Visuals \X Ext)]
    /\ scan \subseteq Assets /\ held \in (Assets \X Contents) \cup {None}
    /\ excused \in [Promises -> SUBSET (Assets \cup Visuals)] /\ asked \in 0 .. MaxAsks

-----------------------------------------------------------------------------

IsImage(c) == MediaType[c] = "image"

\* previewExtension
ExtOf(type) == IF type = "audio" THEN "png" ELSE "jpg"

VisualsOf(a) == {v \in Visuals : vof[v] = a}

\* ORDER BY created_at DESC LIMIT 1
Newest(a) == {v \in VisualsOf(a) : \A w \in VisualsOf(a) : w <= v}

Uncolored(f, c) == {a \in Assets : f[a] # None /\ IsImage(f[a]) /\ c[a] = None}

\* Any library in which each original agrees with its file.
Init ==
    /\ born \in SUBSET Assets
    /\ file \in [Assets -> Contents \cup {None}]
    /\ \A a \in Assets : file[a] # None <=> a \in born
    /\ row = file
    /\ \E some \in SUBSET born :
          colors = [a \in Assets |-> IF a \in some /\ IsImage(file[a])
                                     THEN file[a] ELSE None]
    /\ vof \in [Visuals -> Assets \cup {None}]
    /\ \A v \in Visuals : vof[v] # None =>
          file[vof[v]] # None /\ ~ IsImage(file[vof[v]])
    /\ \A v, w \in Visuals : vof[v] = vof[w] /\ vof[v] # None => v = w
    /\ vext = [v \in Visuals |-> IF vof[v] = None THEN "jpg"
                                 ELSE ExtOf(MediaType[file[vof[v]]])]
    /\ vfile = [k \in Visuals \X Ext |->
                  IF vof[k[1]] # None /\ k[2] = vext[k[1]]
                  THEN file[vof[k[1]]] ELSE None]
    /\ cover \in born \cup {v \in Visuals : vof[v] # None} \cup {None}
    /\ rpc = [r \in Requests |-> "idle"] /\ rasset = [r \in Requests |-> None]
    /\ rop = [r \in Requests |-> None] /\ rdata = [r \in Requests |-> None]
    /\ rparent = [r \in Requests |-> None] /\ rvisual = [r \in Requests |-> None]
    /\ rlist = [r \in Requests |-> {}]
    /\ scan = Uncolored(row, colors) /\ held = None
    /\ excused = [p \in Promises |-> {}] /\ asked = 0

\* Someone other than r is writing something of a.
Busy(r, a) ==
    \/ \E q \in Requests \ {r} :
          rasset[q] = a /\ rpc[q] \notin {"idle", "lk_find", "sc_update"}
    \/ held # None /\ held[1] = a

Excuse(ps, A) ==
    excused' = [p \in Promises |-> IF p \in ps THEN excused[p] \cup A ELSE excused[p]]

\* r starts to write; when it is alone it makes all of it new.
Enter(r, a) ==
    excused' = [excused EXCEPT !["stale"] = IF Busy(r, a) THEN @ \cup {a}
                                            ELSE @ \ {a}]

Goto(r, pc) ==
    /\ rpc' = [rpc EXCEPT ![r] = pc]
    /\ UNCHANGED <<rasset, rop, rdata, rparent, rvisual, rlist>>

Begin(r, pc, op, a, data) ==
    /\ rpc[r] = "idle"
    /\ rpc' = [rpc EXCEPT ![r] = pc]
    /\ rasset' = [rasset EXCEPT ![r] = a]
    /\ rop' = [rop EXCEPT ![r] = op]
    /\ rdata' = [rdata EXCEPT ![r] = data]
    /\ UNCHANGED <<rparent, rvisual, rlist>>

End(r) ==
    /\ rpc' = [rpc EXCEPT ![r] = "idle"]
    /\ rasset' = [rasset EXCEPT ![r] = None]
    /\ rop' = [rop EXCEPT ![r] = None]
    /\ rdata' = [rdata EXCEPT ![r] = None]
    /\ rparent' = [rparent EXCEPT ![r] = None]
    /\ rvisual' = [rvisual EXCEPT ![r] = None]
    /\ rlist' = [rlist EXCEPT ![r] = {}]

\* refreshVisualAsset, with the parent as it was loaded.
Refresh(r, type, data) ==
    /\ rparent' = [rparent EXCEPT ![r] = type]
    /\ rdata' = [rdata EXCEPT ![r] = data]
    /\ rpc' = [rpc EXCEPT ![r] = IF type = "image" THEN "v_list" ELSE "v_find"]
    /\ UNCHANGED <<rasset, rop, rvisual, rlist>>

-----------------------------------------------------------------------------
(* Upload, replacement and regeneration of an original.                    *)

\* storeUploadFile: the file first, then its row and its attributes.
Upload(r, a, c) ==
    /\ a \notin born
    /\ Begin(r, "up_row", "upload", a, c)
    /\ born' = born \cup {a}
    /\ file' = [file EXCEPT ![a] = c]
    /\ UNCHANGED <<row, colors, visuals, cover, backfill, excused>>

UploadRow(r) ==
    LET a == rasset[r] IN
    /\ rpc[r] = "up_row"
    /\ \/ Goto(r, "up_attrs") /\ row' = [row EXCEPT ![a] = rdata[r]]
          /\ UNCHANGED file
       \/ End(r) /\ file' = [file EXCEPT ![a] = None] /\ UNCHANGED row
    /\ UNCHANGED <<born, colors, visuals, cover, backfill, excused>>

\* The row is taken back with the file, unless that fails as well; what
\* others have made of the new row meanwhile is not.
UploadAttributes(r) ==
    LET a == rasset[r] IN
    /\ rpc[r] = "up_attrs"
    /\ \/ Goto(r, "colors") /\ UNCHANGED <<file, row, colors, excused>>
       \/ /\ End(r)
          /\ file' = [file EXCEPT ![a] = None]
          /\ \/ row' = [row EXCEPT ![a] = None] /\ colors' = [colors EXCEPT ![a] = None]
             \/ UNCHANGED <<row, colors>>
          /\ Excuse({"left", "cover", "stale"}, {a})
    /\ UNCHANGED <<born, visuals, cover, backfill>>

\* The storage key is kept: the bytes are overwritten in place.
ReplaceContent(r, a, c) ==
    /\ row[a] # None
    /\ Begin(r, "rp_save", "replace", a, c) /\ Enter(r, a)
    /\ UNCHANGED <<originals, visuals, cover, backfill>>

ReplaceSave(r) ==
    LET a == rasset[r] IN
    /\ rpc[r] = "rp_save"
    /\ \/ /\ Goto(r, "row")
          /\ file' = [file EXCEPT ![a] = rdata[r]] /\ UNCHANGED excused
       \/ End(r) /\ Excuse({"stale"}, {a}) /\ UNCHANGED file
    /\ UNCHANGED <<born, row, colors, visuals, cover, backfill>>

RegeneratePreview(r, a) ==
    /\ row[a] # None
    /\ Begin(r, "rg_read", "regenerate", a, None) /\ Enter(r, a)
    /\ UNCHANGED <<originals, visuals, cover, backfill>>

RegenerateRead(r) ==
    LET a == rasset[r] IN
    /\ rpc[r] = "rg_read"
    /\ \/ /\ file[a] # None
          /\ rpc' = [rpc EXCEPT ![r] = "row"]
          /\ rdata' = [rdata EXCEPT ![r] = file[a]]
          /\ UNCHANGED <<rasset, rop, rparent, rvisual, rlist, excused>>
       \/ End(r) /\ Excuse({"stale"}, {a})
    /\ UNCHANGED <<originals, visuals, cover, backfill>>

\* The type, the size and the metadata, if the row is still there.
UpdateRow(r) ==
    LET a == rasset[r] IN
    /\ rpc[r] = "row"
    /\ \/ /\ row' = IF row[a] = None THEN row ELSE [row EXCEPT ![a] = rdata[r]]
          /\ Goto(r, "colors") /\ UNCHANGED excused
       \/ End(r) /\ Excuse({"stale"}, {a}) /\ UNCHANGED row
    /\ UNCHANGED <<born, file, colors, visuals, cover, backfill>>

\* Slip: rows of colors that do not refer to the asset's row.
StoreColorsUnbound(a, c) ==
    colors' = [colors EXCEPT ![a] = IF IsImage(c) THEN c ELSE None]

\* A transaction that replaces the rows; they cannot outlive the asset's.
StoreColors(a, c) ==
    colors' = IF row[a] = None THEN colors
              ELSE [colors EXCEPT ![a] = IF IsImage(c) THEN c ELSE None]

\* Errors are ignored.  An upload goes on with the parent it has made.
SaveColors(r) ==
    LET a == rasset[r] IN
    /\ rpc[r] = "colors"
    /\ \/ StoreColors(a, rdata[r]) /\ UNCHANGED excused
       \/ Excuse({"stale"}, {a}) /\ UNCHANGED colors
    /\ IF rop[r] = "upload" THEN Refresh(r, MediaType[rdata[r]], rdata[r])
       ELSE Goto(r, "get")
    /\ UNCHANGED <<born, file, row, visuals, cover, backfill>>

\* Slip: the refresh goes on with what the request knows of the asset.
ReloadSkipped(r) ==
    /\ rpc[r] = "get"
    /\ Refresh(r, MediaType[rdata[r]], rdata[r])
    /\ UNCHANGED <<originals, visuals, cover, backfill, excused>>

\* GetByID, before the visual is refreshed.
Reload(r) ==
    LET a == rasset[r] IN
    /\ rpc[r] = "get"
    /\ \/ /\ row[a] # None
          /\ Refresh(r, MediaType[row[a]], rdata[r]) /\ UNCHANGED excused
       \/ End(r) /\ Excuse({"stale"}, {a})
    /\ UNCHANGED <<originals, visuals, cover, backfill>>

-----------------------------------------------------------------------------
(* The picture that stands for an original, generated when it is missing.  *)

\* ResolveDeliveryImage of an original that is not an image itself.
Lookup(r, a) ==
    /\ row[a] # None /\ MediaType[row[a]] \in {"video", "audio"}
    /\ rpc[r] = "idle"
    /\ rpc' = [rpc EXCEPT ![r] = "lk_find"]
    /\ rasset' = [rasset EXCEPT ![r] = a] /\ rop' = [rop EXCEPT ![r] = "lookup"]
    /\ rparent' = [rparent EXCEPT ![r] = MediaType[row[a]]]
    /\ UNCHANGED <<rdata, rvisual, rlist>>
    /\ UNCHANGED <<originals, visuals, cover, backfill, excused>>

\* The generation will work with the type that was read before.
LookupFind(r) ==
    LET a == rasset[r]
        changed == row[a] # None /\ MediaType[row[a]] # rparent[r]
    IN
    /\ rpc[r] = "lk_find"
    /\ \/ /\ VisualsOf(a) = {} /\ Goto(r, "lk_get")
          /\ Excuse({"stale"}, IF Busy(r, a) \/ changed THEN {a} ELSE {})
       \/ End(r) /\ UNCHANGED excused
    /\ UNCHANGED <<originals, visuals, cover, backfill>>

LookupGet(r) ==
    /\ rpc[r] = "lk_get"
    /\ \/ row[rasset[r]] # None /\ Goto(r, "lk_open")
       \/ End(r)
    /\ UNCHANGED <<originals, visuals, cover, backfill, excused>>

LookupOpen(r) ==
    LET a == rasset[r] IN
    /\ rpc[r] = "lk_open"
    /\ \/ file[a] # None /\ Refresh(r, rparent[r], file[a])
       \/ file[a] = None /\ End(r)
    /\ UNCHANGED <<originals, visuals, cover, backfill, excused>>

-----------------------------------------------------------------------------
(* upsertVisualAsset                                                       *)

\* An id no row has and nothing refers to; ids are not used twice.
Fresh(v) == /\ vof[v] = None /\ \A e \in Ext : vfile[<<v, e>>] = None
            /\ cover # v
            /\ \A q \in Requests : rasset[q] # v /\ \A e \in Ext :
                  rvisual[q] # <<v, e>> /\ <<v, e>> \notin rlist[q]

\* Slip: what was found is not looked at.
FindVisualNew(r) ==
    /\ rpc[r] = "v_find"
    /\ Goto(r, "v_save")
    /\ UNCHANGED <<originals, visuals, cover, backfill, excused>>

FindVisual(r) ==
    LET a == rasset[r]
        also == \E q \in Requests \ {r} :
                   rasset[q] = a /\ rpc[q] \in {"v_save", "v_row"}
    IN
    /\ rpc[r] = "v_find"
    /\ \/ /\ VisualsOf(a) = {} /\ Goto(r, "v_save")
          /\ Excuse({"one"}, IF also THEN {a} ELSE {})
       \/ /\ \E v \in Newest(a) : rvisual' = [rvisual EXCEPT ![r] = <<v, vext[v]>>]
          /\ rpc' = [rpc EXCEPT ![r] = "v_over"]
          /\ UNCHANGED <<rasset, rop, rdata, rparent, rlist, excused>>
       \/ End(r) /\ Excuse({"stale"}, {a})
    /\ UNCHANGED <<originals, visuals, cover, backfill>>

SaveVisual(r) ==
    /\ rpc[r] = "v_save"
    /\ \/ \E v \in Visuals : LET key == <<v, ExtOf(rparent[r])>> IN
             /\ Fresh(v)
             /\ vfile' = [vfile EXCEPT ![key] = rdata[r]]
             /\ rvisual' = [rvisual EXCEPT ![r] = key]
             /\ rpc' = [rpc EXCEPT ![r] = "v_row"]
             /\ UNCHANGED <<rasset, rop, rdata, rparent, rlist, excused>>
       \/ End(r) /\ Excuse({"stale"}, {rasset[r]}) /\ UNCHANGED vfile
    /\ UNCHANGED <<originals, vof, vext, cover, backfill>>

CreateVisual(r) ==
    LET a == rasset[r]  key == rvisual[r] IN
    /\ rpc[r] = "v_row"
    /\ \/ /\ vof' = [vof EXCEPT ![key[1]] = a]
          /\ vext' = [vext EXCEPT ![key[1]] = key[2]]
          /\ Goto(r, "v_attrs") /\ UNCHANGED <<vfile, excused>>
       \/ /\ vfile' = [vfile EXCEPT ![key] = None]
          /\ End(r) /\ Excuse({"stale"}, {a}) /\ UNCHANGED <<vof, vext>>
    /\ UNCHANGED <<originals, cover, backfill>>

\* A failure takes the file back; the row stays.
CopyAttributes(r) ==
    /\ rpc[r] = "v_attrs"
    /\ \/ UNCHANGED <<vfile, excused>>
       \/ vfile' = [vfile EXCEPT ![rvisual[r]] = None] /\ Excuse({"stale"}, {rasset[r]})
    /\ End(r)
    /\ UNCHANGED <<originals, vof, vext, cover, backfill>>

\* The file of the visual that was found, which can get another extension.
OverwriteVisual(r) ==
    LET v == rvisual[r][1]  e == ExtOf(rparent[r]) IN
    /\ rpc[r] = "v_over"
    /\ \/ /\ vfile' = [vfile EXCEPT ![<<v, e>>] = rdata[r]]
          /\ Goto(r, IF rvisual[r][2] # e THEN "v_drop" ELSE "v_copy")
          /\ UNCHANGED excused
       \/ End(r) /\ Excuse({"stale"}, {rasset[r]}) /\ UNCHANGED vfile
    /\ UNCHANGED <<originals, vof, vext, cover, backfill>>

DropOldFile(r) ==
    /\ rpc[r] = "v_drop"
    /\ vfile' = [vfile EXCEPT ![rvisual[r]] = None]
    /\ Goto(r, "v_copy")
    /\ UNCHANGED <<originals, vof, vext, cover, backfill, excused>>

RecopyAttributes(r) ==
    /\ rpc[r] = "v_copy"
    /\ \/ Goto(r, "v_update") /\ UNCHANGED excused
       \/ End(r) /\ Excuse({"stale"}, {rasset[r]})
    /\ UNCHANGED <<originals, visuals, cover, backfill>>

\* Slip: the storage key is left out of the columns.
UpdateVisualNoKey(r) ==
    /\ rpc[r] = "v_update"
    /\ End(r)
    /\ UNCHANGED <<originals, visuals, cover, backfill, excused>>

UpdateVisual(r) ==
    LET v == rvisual[r][1] IN
    /\ rpc[r] = "v_update"
    /\ \/ /\ vext' = IF vof[v] = None THEN vext
                     ELSE [vext EXCEPT ![v] = ExtOf(rparent[r])]
          /\ UNCHANGED excused
       \/ Excuse({"stale"}, {rasset[r]}) /\ UNCHANGED vext
    /\ End(r)
    /\ UNCHANGED <<originals, vof, vfile, cover, backfill>>

-----------------------------------------------------------------------------
(* deleteVisualAsset, and the deletion of an original.                     *)

\* For a parent that has become an image, or has no row any more.
ListVisuals(r) ==
    LET a == rasset[r] IN
    /\ rpc[r] = "v_list"
    /\ \/ /\ VisualsOf(a) # {}
          /\ rlist' = [rlist EXCEPT ![r] = {<<v, vext[v]>> : v \in VisualsOf(a)}]
          /\ rpc' = [rpc EXCEPT ![r] = "v_file"]
          /\ UNCHANGED <<rasset, rop, rdata, rparent, rvisual, excused>>
       \/ VisualsOf(a) = {} /\ End(r) /\ UNCHANGED excused
       \/ End(r) /\ Excuse({"stale", "left"}, {a})
    /\ UNCHANGED <<originals, visuals, cover, backfill>>

DeleteVisualFile(r) ==
    /\ rpc[r] = "v_file"
    /\ \E key \in rlist[r] :
          /\ vfile' = [vfile EXCEPT ![key] = None]
          /\ rvisual' = [rvisual EXCEPT ![r] = key]
          /\ rlist' = [rlist EXCEPT ![r] = @ \ {key}]
    /\ rpc' = [rpc EXCEPT ![r] = "v_gone"]
    /\ UNCHANGED <<rasset, rop, rdata, rparent>>
    /\ UNCHANGED <<originals, vof, vext, cover, backfill, excused>>

Naming(r, x) == \E q \in Requests \ {r} : rasset[q] = x /\ rpc[q] = "sc_update"

\* A reference to the visual stays.
DeleteVisualRow(r) ==
    LET v == rvisual[r][1] IN
    /\ rpc[r] = "v_gone"
    /\ \/ /\ vof' = [vof EXCEPT ![v] = None] /\ vext' = [vext EXCEPT ![v] = "jpg"]
          /\ IF rlist[r] = {} THEN End(r) ELSE Goto(r, "v_file")
          /\ Excuse({"cover"}, IF cover = v \/ Naming(r, v) THEN {v} ELSE {})
       \/ End(r) /\ Excuse({"stale", "left"}, {rasset[r]}) /\ UNCHANGED <<vof, vext>>
    /\ UNCHANGED <<originals, vfile, cover, backfill>>

Delete(r, a) ==
    /\ row[a] # None
    /\ Begin(r, "dl_row", "delete", a, None)
    /\ Excuse({"stale"}, IF Busy(r, a) THEN {a} ELSE {})
    /\ UNCHANGED <<originals, visuals, cover, backfill>>

\* Requests that bring something of a back once its row is gone: a file, or
\* a visual of a parent that is already loaded.
Late(r, a) ==
    \E q \in Requests \ {r} : rasset[q] = a /\
       \/ rpc[q] \in {"rp_save", "lk_open", "v_find", "v_save", "v_row"}
       \/ rop[q] = "upload" /\ rpc[q] \in {"up_attrs", "colors"}

\* Colors go with the row.
DeleteRow(r) ==
    LET a == rasset[r] IN
    /\ rpc[r] = "dl_row"
    /\ \/ /\ row[a] # None
          /\ row' = [row EXCEPT ![a] = None] /\ colors' = [colors EXCEPT ![a] = None]
          /\ excused' = [excused EXCEPT
                !["left"]  = IF Late(r, a) THEN @ \cup {a} ELSE @,
                !["cover"] = IF Naming(r, a) THEN @ \cup {a} ELSE @]
          /\ Goto(r, "dl_cover")
       \/ End(r) /\ UNCHANGED <<row, colors, excused>>
    /\ UNCHANGED <<born, file, visuals, cover, backfill>>

\* An error is ignored.
ClearReferences(r) ==
    LET a == rasset[r] IN
    /\ rpc[r] = "dl_cover" /\ Goto(r, "dl_file")
    /\ \/ cover' = (IF cover = a THEN None ELSE cover) /\ UNCHANGED excused
       \/ UNCHANGED cover /\ Excuse({"cover"}, {a})
    /\ UNCHANGED <<originals, visuals, backfill>>

DeleteFile(r) ==
    /\ rpc[r] = "dl_file" /\ Goto(r, "v_list")
    /\ file' = [file EXCEPT ![rasset[r]] = None]
    /\ UNCHANGED <<born, row, colors, visuals, cover, backfill, excused>>

-----------------------------------------------------------------------------
(* The cover, the backfill of colors, restarts.                            *)

\* A row of assets, of an original or of a visual.
Exists(x) == \/ x \in Assets /\ row[x] # None
             \/ x \in Visuals /\ vof[x] # None

\* Slip: the id is taken as it comes.
SetCoverUnchecked(r, x) ==
    /\ Begin(r, "sc_update", "cover", x, None)
    /\ UNCHANGED <<originals, visuals, cover, backfill, excused>>

\* setAssetRef counts the rows with the id, whatever their role; the
\* watermark is alike.
SetCover(r, x) ==
    /\ Exists(x)
    /\ Begin(r, "sc_update", "cover", x, None)
    /\ UNCHANGED <<originals, visuals, cover, backfill, excused>>

UpdateCover(r) ==
    /\ rpc[r] = "sc_update"
    /\ cover' \in {cover, rasset[r]}
    /\ End(r)
    /\ UNCHANGED <<originals, visuals, backfill, excused>>

ClearCover ==
    /\ cover' = None
    /\ UNCHANGED <<originals, visuals, requests, backfill, excused>>

\* BackfillColors: an image without colors, read as it is now.
BackfillOpen(a) ==
    /\ a \in scan /\ held = None
    /\ scan' = scan \ {a}
    /\ IF file[a] # None /\ IsImage(file[a])
       THEN held' = <<a, file[a]>> /\ Excuse({"stale"}, IF Busy(None, a) THEN {a} ELSE {})
       ELSE UNCHANGED <<held, excused>>
    /\ UNCHANGED <<originals, visuals, cover, requests>>

BackfillSave ==
    /\ held # None /\ held' = None
    /\ StoreColors(held[1], held[2])
    /\ UNCHANGED <<born, file, row, visuals, cover, requests, scan, excused>>

\* Requests are forgotten where they are; the backfill starts again.
Restart ==
    /\ rpc' = [r \in Requests |-> "idle"] /\ rasset' = [r \in Requests |-> None]
    /\ rop' = [r \in Requests |-> None] /\ rdata' = [r \in Requests |-> None]
    /\ rparent' = [r \in Requests |-> None] /\ rvisual' = [r \in Requests |-> None]
    /\ rlist' = [r \in Requests |-> {}]
    /\ scan' = Uncolored(row, colors) /\ held' = None
    /\ Excuse({"left", "cover", "stale"}, {a \in Assets : \E r \in Requests : rasset[r] = a})
    /\ UNCHANGED <<originals, visuals, cover>>

-----------------------------------------------------------------------------

Ask(r) ==
    /\ asked < MaxAsks /\ asked' = asked + 1
    /\ \/ \E a \in Assets :
             \/ \E c \in Contents : Upload(r, a, c) \/ ReplaceContent(r, a, c)
             \/ RegeneratePreview(r, a) \/ Lookup(r, a) \/ Delete(r, a)
       \/ \E x \in Assets \cup Visuals : SetCover(r, x)

Step(r) ==
    \/ UploadRow(r) \/ UploadAttributes(r)
    \/ ReplaceSave(r) \/ RegenerateRead(r) \/ UpdateRow(r) \/ SaveColors(r) \/ Reload(r)
    \/ LookupFind(r) \/ LookupGet(r) \/ LookupOpen(r)
    \/ FindVisual(r) \/ SaveVisual(r) \/ CreateVisual(r) \/ CopyAttributes(r)
    \/ OverwriteVisual(r) \/ DropOldFile(r) \/ RecopyAttributes(r) \/ UpdateVisual(r)
    \/ ListVisuals(r) \/ DeleteVisualFile(r) \/ DeleteVisualRow(r)
    \/ DeleteRow(r) \/ ClearReferences(r) \/ DeleteFile(r) \/ UpdateCover(r)

Next ==
    \/ \E r \in Requests : Ask(r)
    \/ /\ UNCHANGED asked
       /\ \/ \E r \in Requests : Step(r)
          \/ \E a \in Assets : BackfillOpen(a)
          \/ BackfillSave \/ ClearCover \/ Restart

Spec == Init /\ [][Next]_vars

-----------------------------------------------------------------------------

Handled(a) == \E r \in Requests : rasset[r] = a

\* An asset has two visuals only if two generations overlapped: the second
\* looked for one before the first had stored its row.
OneVisual ==
    \A a \in Assets \ excused["one"] : \A v, w \in VisualsOf(a) : v = w

\* A deleted asset leaves no file and no visual, unless its deletion failed
\* half way or the row went while a generation or a replacement that had
\* loaded it was still going to write.  (A visual replaced under its own id,
\* which the model leaves out, can get one of its own, which stays.)
NothingLeft ==
    \A a \in born \ excused["left"] :
       row[a] = None /\ ~ Handled(a) => file[a] = None /\ VisualsOf(a) = {}

\* The cover is an asset that exists, or an original about to be cleared.
\* It can outlive an original that it was being set to when the row went (or
\* whose clearing failed or was cut off), and a visual: setAssetRef takes its
\* id and deleteVisualAsset clears no reference.
CoverExists ==
    \/ cover = None \/ cover \in excused["cover"] \/ Exists(cover)
    \/ \E r \in Requests : rasset[r] = cover /\ rpc[r] = "dl_cover"

\* Once nobody works on an asset, its row, its colors and the picture that
\* stands for it are those of its file, after any number of replacements
\* that change its type, unless two of them overlapped or one failed; and a
\* later replacement or regeneration on its own mends that.  (As long as no
\* request replaces the visual under its own id.)
DerivedAgrees ==
    \A a \in Assets \ excused["stale"] :
       row[a] # None /\ ~ Handled(a) /\ ~ Busy(None, a) =>
          /\ row[a] = file[a]
          /\ IF IsImage(file[a])
             THEN colors[a] \in {file[a], None} /\ VisualsOf(a) = {}
             ELSE /\ colors[a] = None
                  /\ \A v \in Newest(a) : vfile[<<v, vext[v]>>] = file[a]
=============================================================================
