--------------------------- MODULE ConversionCache ---------------------------
(***************************************************************************)
(* The rendered conversions of image assets and the handlers that fill,    *)
(* refresh and clear them.                                                 *)
(*                                                                         *)
(*   service/conversion.go   convert, RefreshAsset, InvalidateAsset, Purge *)
(*   storage/conversion.go   the files; a save is one rename               *)
(*   api/assets.go           replace, delete, regenerate, preview          *)
(*   api/conversions.go      serving, and the source imgproxy fetches      *)
(*   service/preset_service.go                                             *)
(*                                                                         *)
(* The reverse proxy serves a cached file without asking godam, so what is *)
(* in the cache is what the public sees.  An action is the code between    *)
(* two accesses to shared state.  Bytes are a version number; the number   *)
(* of an original grows with every save.  All assets are images here, so   *)
(* an asset is its own source (ResolveDeliveryImage returns it).           *)
(***************************************************************************)
EXTENDS Naturals

CONSTANTS
    Assets,      \* image assets (ids are used once)
    Names,       \* cache names: presets, signed segments, _library-preview
    Presets,     \* those of them that need a row in presets
    Requests,    \* HTTP requests that can be in flight at the same time
    None,        \* no asset, no name
    MaxChanges,  \* bound: replacements of an asset's content
    MaxFaults,   \* bound: statements and file operations that fail
    MaxStops     \* bound: restarts of the process

ASSUME ConstantsAssumption ==
    /\ None \notin Assets \cup Names
    /\ Presets \subseteq Names
    /\ MaxChanges \in Nat /\ MaxFaults \in Nat /\ MaxStops \in Nat

VARIABLES
    row,      \* assets with a row
    file,     \* version of each original, 0 when there is no file
    saved,    \* versions of each original that there have been
    presets,  \* presets that exist
    cache,    \* version each cached conversion shows, 0 when not cached
    rpc,      \* what each request is about to do
    rid,      \* the asset it is about
    rname,    \* the cache name it renders
    rver,     \* the version imgproxy answered with
    rtodo,    \* entries its loop has yet to look at
    rfail,    \* its refresh has collected an error
    late,     \* history: entries saved by a render that crossed a change
    cut,      \* history: assets whose refresh or invalidation was cut short
    changes, faults, stops  \* how much of the bounds is used

library  == <<row, file, saved>>
requests == <<rpc, rid, rname, rver, rtodo, rfail>>
history  == <<late, cut>>
bounds   == <<changes, faults, stops>>
vars     == <<library, presets, cache, requests, history, bounds>>

Conversions == Assets \X Names

RefreshPC == {"each", "re_fetch", "re_save", "re_open"}
RequestPC == RefreshPC \cup
    {"idle", "open", "fetch", "save", "rp_save", "rp_row", "rg_row",
     "list", "dl_file", "in_list", "in_each", "purge"}

TypeOK ==
    /\ row \subseteq Assets /\ presets \subseteq Presets
    /\ file \in [Assets -> Nat] /\ saved \in [Assets -> Nat]
    /\ cache \in [Conversions -> Nat]
    /\ rpc \in [Requests -> RequestPC]
    /\ rid \in [Requests -> Assets \cup {None}]
    /\ rname \in [Requests -> Names \cup {None}]
    /\ rver \in [Requests -> Nat]
    /\ rtodo \in [Requests -> SUBSET Conversions]
    /\ rfail \in [Requests -> BOOLEAN]
    /\ late \subseteq Conversions /\ cut \subseteq Assets
    /\ changes \in 0 .. MaxChanges
    /\ faults \in 0 .. MaxFaults /\ stops \in 0 .. MaxStops

Init ==
    /\ row = Assets
    /\ file = [a \in Assets |-> 1] /\ saved = [a \in Assets |-> 1]
    /\ presets \in SUBSET Presets
    /\ cache = [c \in Conversions |-> 0]
    /\ rpc = [r \in Requests |-> "idle"]
    /\ rid = [r \in Requests |-> None]
    /\ rname = [r \in Requests |-> None]
    /\ rver = [r \in Requests |-> 0]
    /\ rtodo = [r \in Requests |-> {}]
    /\ rfail = [r \in Requests |-> FALSE]
    /\ late = {} /\ cut = {}
    /\ changes = 0 /\ faults = 0 /\ stops = 0

-----------------------------------------------------------------------------
(* Requests and entries.                                                   *)

Conv(r) == <<rid[r], rname[r]>>

Goto(r, pc) ==
    /\ rpc' = [rpc EXCEPT ![r] = pc]
    /\ UNCHANGED <<rid, rname, rver, rtodo, rfail>>

Begin(r, pc, a, n) ==
    /\ rpc[r] = "idle"
    /\ rpc' = [rpc EXCEPT ![r] = pc]
    /\ rid' = [rid EXCEPT ![r] = a]
    /\ rname' = [rname EXCEPT ![r] = n]
    /\ UNCHANGED <<rver, rtodo, rfail>>

End(r) ==
    /\ rpc' = [rpc EXCEPT ![r] = "idle"]
    /\ rid' = [rid EXCEPT ![r] = None]
    /\ rname' = [rname EXCEPT ![r] = None]
    /\ rver' = [rver EXCEPT ![r] = 0]
    /\ rtodo' = [rtodo EXCEPT ![r] = {}]
    /\ rfail' = [rfail EXCEPT ![r] = FALSE]

\* The refresh goes on to its next entry, with or without one more error.
NextEntry(r, c, failed) ==
    /\ rpc' = [rpc EXCEPT ![r] = "each"]
    /\ rtodo' = [rtodo EXCEPT ![r] = @ \ {c}]
    /\ rfail' = [rfail EXCEPT ![r] = @ \/ failed]
    /\ UNCHANGED <<rid, rname, rver>>

Loop(r, pc, entries) ==
    /\ rpc' = [rpc EXCEPT ![r] = pc]
    /\ rtodo' = [rtodo EXCEPT ![r] = entries]
    /\ UNCHANGED <<rid, rname, rver, rfail>>

Cached(a) == {c \in {a} \X Names : cache[c] # 0}

Remove(c) ==
    /\ cache' = [cache EXCEPT ![c] = 0]
    /\ late' = late \ {c}

Fault == faults < MaxFaults /\ faults' = faults + 1 /\ UNCHANGED <<changes, stops>>

\* The rows that a conversion needs: its asset, and its preset if it has one.
Available(a, n) == a \in row /\ (n \in Presets => n \in presets)

-----------------------------------------------------------------------------
(* Serving: /img, the preview route, and warming, which all call convert.  *)

Serve(r, a, n) ==
    /\ Available(a, n)
    /\ Begin(r, "open", a, n)
    /\ UNCHANGED <<library, presets, cache, history, bounds>>

ServeMiss(r) ==
    /\ rpc[r] = "open"
    /\ rid[r] \in row
    /\ cache[Conv(r)] = 0
    /\ Goto(r, "fetch")
    /\ UNCHANGED <<library, presets, cache, history, bounds>>

ServeHit(r) ==
    /\ rpc[r] = "open"
    /\ rid[r] \notin row \/ cache[Conv(r)] # 0
    /\ End(r)
    /\ UNCHANGED <<library, presets, cache, history, bounds>>

-----------------------------------------------------------------------------
(* A render: imgproxy fetches the original from godam, and the answer is   *)
(* written beside the entry and renamed over it.                           *)

Rendered == [fetch |-> "save", re_fetch |-> "re_save"]

\* The open file is read to its end whatever replaces it meanwhile.
Fetch(r) ==
    /\ rpc[r] \in DOMAIN Rendered
    /\ file[rid[r]] # 0
    /\ rpc' = [rpc EXCEPT ![r] = Rendered[@]]
    /\ rver' = [rver EXCEPT ![r] = file[rid[r]]]
    /\ UNCHANGED <<library, presets, cache, rid, rname, rtodo, rfail, history, bounds>>

\* convert returns an error: a visitor gets it, a refresh collects it.
Give(r) ==
    \/ rpc[r] \in {"fetch", "save"} /\ End(r)
    \/ rpc[r] \in RefreshPC /\ NextEntry(r, Conv(r), TRUE)

FetchFail(r) ==
    /\ rpc[r] \in DOMAIN Rendered
    /\ \/ (rid[r] \notin row \/ file[rid[r]] = 0) /\ UNCHANGED bounds
       \/ Fault
    /\ Give(r)
    /\ UNCHANGED <<library, presets, cache, history>>

Save(r) ==
    LET c == Conv(r) IN
    /\ rpc[r] \in {"save", "re_save"}
    /\ cache' = [cache EXCEPT ![c] = rver[r]]
    /\ late' = IF rid[r] \in row /\ rver[r] = file[rid[r]] THEN late \ {c}
               ELSE late \cup {c}
    /\ \/ rpc[r] = "save" /\ End(r)
       \/ /\ rpc[r] = "re_save"
          /\ rpc' = [rpc EXCEPT ![r] = "re_open"]
          /\ rtodo' = [rtodo EXCEPT ![r] = @ \ {c}]
          /\ UNCHANGED <<rid, rname, rver, rfail>>
    /\ UNCHANGED <<library, presets, cut, bounds>>

SaveFail(r) ==
    /\ rpc[r] \in {"save", "re_save"}
    /\ Fault
    /\ Give(r)
    /\ UNCHANGED <<library, presets, cache, history>>

-----------------------------------------------------------------------------
(* Replacing an asset's content, and regenerating its preview, which for   *)
(* an image changes no bytes but refreshes the conversions all the same.   *)

Replace(r, a) ==
    /\ a \in row
    /\ changes < MaxChanges /\ changes' = changes + 1
    /\ Begin(r, "rp_save", a, None)
    /\ UNCHANGED <<library, presets, cache, history, faults, stops>>

\* driver.Save: the new file is renamed over the old one.
ReplaceSave(r) ==
    /\ rpc[r] = "rp_save"
    /\ saved' = [saved EXCEPT ![rid[r]] = @ + 1]
    /\ file' = [file EXCEPT ![rid[r]] = saved'[rid[r]]]
    /\ Goto(r, "rp_row")
    /\ UNCHANGED <<row, presets, cache, history, bounds>>

ReplaceSaveFail(r) ==
    /\ rpc[r] = "rp_save"
    /\ Fault
    /\ End(r)
    /\ UNCHANGED <<library, presets, cache, history>>

Regenerate(r, a) ==
    /\ a \in row
    /\ Begin(r, "rg_row", a, None)
    /\ UNCHANGED <<library, presets, cache, history, bounds>>

\* The row is updated and read back, and ResolveDeliveryImage reads it again.
Resolve(r) ==
    /\ rpc[r] \in {"rp_row", "rg_row"}
    /\ rid[r] \in row
    /\ Goto(r, "list")
    /\ UNCHANGED <<library, presets, cache, history, bounds>>

\* When one of these statements fails the handler returns, after a change of
\* the bytes too: what is cached is neither refreshed nor invalidated.
ResolveFail(r) ==
    /\ rpc[r] \in {"rp_row", "rg_row"}
    /\ \/ rid[r] \notin row /\ UNCHANGED <<cut, bounds>>
       \/ /\ Fault
          /\ cut' = IF rpc[r] = "rp_row" THEN cut \cup {rid[r]} ELSE cut
    /\ End(r)
    /\ UNCHANGED <<library, presets, cache, late>>

-----------------------------------------------------------------------------
(* RefreshAsset: list the entries, render each of them again.              *)

RefreshList(r) ==
    /\ rpc[r] = "list"
    /\ Loop(r, "each", Cached(rid[r]))
    /\ UNCHANGED <<library, presets, cache, history, bounds>>

RefreshListFail(r) ==
    /\ rpc[r] = "list"
    /\ Fault
    /\ Goto(r, "in_list")
    /\ UNCHANGED <<library, presets, cache, history>>

RefreshEntry(r) ==
    /\ rpc[r] = "each"
    /\ \E c \in rtodo[r] :
         /\ Available(c[1], c[2])
         /\ rname' = [rname EXCEPT ![r] = c[2]]
    /\ rpc' = [rpc EXCEPT ![r] = "re_fetch"]
    /\ UNCHANGED <<library, presets, cache, rid, rver, rtodo, rfail, history, bounds>>

\* Slip: an entry that nothing can render any more is passed over.
RefreshGoneKept(r) ==
    /\ rpc[r] = "each"
    /\ \E c \in rtodo[r] :
         /\ ~Available(c[1], c[2])
         /\ NextEntry(r, c, FALSE)
    /\ UNCHANGED <<library, presets, cache, history, bounds>>

\* ErrNotFound: the asset or the preset is gone, and the entry goes too.  An
\* error of that deletion is ignored.
RefreshGone(r) ==
    /\ rpc[r] = "each"
    /\ \E c \in rtodo[r] :
         /\ ~Available(c[1], c[2])
         /\ NextEntry(r, c, FALSE)
         /\ \/ Remove(c) /\ UNCHANGED <<cut, bounds>>
            \/ Fault /\ cut' = cut \cup {rid[r]} /\ UNCHANGED <<cache, late>>
    /\ UNCHANGED <<library, presets>>

RefreshEntryFail(r) ==
    /\ rpc[r] = "each"
    /\ Fault
    /\ \E c \in rtodo[r] : NextEntry(r, c, TRUE)
    /\ UNCHANGED <<library, presets, cache, history>>

\* convert opens what it saved; an entry that is gone by then is an error.
RefreshReopen(r) ==
    /\ rpc[r] = "re_open"
    /\ NextEntry(r, Conv(r), cache[Conv(r)] = 0)
    /\ UNCHANGED <<library, presets, cache, history, bounds>>

\* Slip: a refresh that failed is only logged.
RefreshDoneLogged(r) ==
    /\ rpc[r] = "each" /\ rtodo[r] = {}
    /\ End(r)
    /\ UNCHANGED <<library, presets, cache, history, bounds>>

\* After an error everything the asset has in the cache is invalidated.
RefreshDone(r) ==
    /\ rpc[r] = "each" /\ rtodo[r] = {}
    /\ \/ rfail[r] /\ Goto(r, "in_list")
       \/ ~rfail[r] /\ End(r)
    /\ UNCHANGED <<library, presets, cache, history, bounds>>

-----------------------------------------------------------------------------
(* Deleting an asset, and InvalidateAsset.                                 *)

Delete(r, a) ==
    /\ a \in row
    /\ row' = row \ {a}
    /\ Begin(r, "dl_file", a, None)
    /\ UNCHANGED <<file, saved, presets, cache, history, bounds>>

\* driver.Delete, whose error is ignored.
DeleteFile(r) ==
    /\ rpc[r] = "dl_file"
    /\ \/ file' = [file EXCEPT ![rid[r]] = 0] /\ UNCHANGED bounds
       \/ Fault /\ UNCHANGED file
    /\ Goto(r, "in_list")
    /\ UNCHANGED <<row, saved, presets, cache, history>>

\* Slip: the entries are named without the asset's directory.
InvalidateListBare(r) ==
    /\ rpc[r] = "in_list"
    /\ Loop(r, "in_each", {c[2] : c \in Cached(rid[r])})
    /\ UNCHANGED <<library, presets, cache, history, bounds>>

InvalidateList(r) ==
    /\ rpc[r] = "in_list"
    /\ Loop(r, "in_each", Cached(rid[r]))
    /\ UNCHANGED <<library, presets, cache, history, bounds>>

InvalidateEntry(r) ==
    /\ rpc[r] = "in_each"
    /\ \E c \in rtodo[r] :
         /\ Remove(c)
         /\ rtodo' = [rtodo EXCEPT ![r] = @ \ {c}]
    /\ UNCHANGED <<library, presets, rpc, rid, rname, rver, rfail, cut, bounds>>

InvalidateDone(r) ==
    /\ rpc[r] = "in_each" /\ rtodo[r] = {}
    /\ End(r)
    /\ UNCHANGED <<library, presets, cache, history, bounds>>

\* The first error ends it; the handlers only log that.
InvalidateFail(r) ==
    /\ rpc[r] \in {"in_list", "in_each"}
    /\ Fault
    /\ cut' = cut \cup {rid[r]}
    /\ End(r)
    /\ UNCHANGED <<library, presets, cache, late>>

-----------------------------------------------------------------------------
(* Purge, presets, restarts.                                               *)

\* RemoveAll takes what a directory holds when it gets there.
Purge(r) ==
    /\ rpc[r] = "idle"
    /\ Loop(r, "purge", {c \in Conversions : Cached(c[1]) # {}})
    /\ UNCHANGED <<library, presets, cache, history, bounds>>

PurgeEntry(r) ==
    /\ rpc[r] = "purge"
    /\ \E c \in rtodo[r] :
         /\ Remove(c)
         /\ rtodo' = [rtodo EXCEPT ![r] = @ \ {c}]
    /\ UNCHANGED <<library, presets, rpc, rid, rname, rver, rfail, cut, bounds>>

PurgeDone(r) ==
    /\ rpc[r] = "purge"
    /\ \/ rtodo[r] = {} /\ UNCHANGED bounds
       \/ Fault
    /\ End(r)
    /\ UNCHANGED <<library, presets, cache, history>>

PresetCreate(n) ==
    /\ n \in Presets \ presets
    /\ presets' = presets \cup {n}
    /\ UNCHANGED <<library, cache, requests, history, bounds>>

\* A rename is a deletion and a creation for the cache: it is keyed by name.
PresetRename(n, m) ==
    /\ n \in presets /\ m \in Presets \ presets
    /\ presets' = (presets \ {n}) \cup {m}
    /\ UNCHANGED <<library, cache, requests, history, bounds>>

PresetDelete(n) ==
    /\ n \in presets
    /\ presets' = presets \ {n}
    /\ UNCHANGED <<library, cache, requests, history, bounds>>

\* What a request was to do about a change that has happened.
Mending == RefreshPC \cup {"rp_row", "list", "dl_file", "in_list", "in_each"}

Restart ==
    /\ stops < MaxStops /\ stops' = stops + 1
    /\ rpc' = [r \in Requests |-> "idle"]
    /\ rid' = [r \in Requests |-> None]
    /\ rname' = [r \in Requests |-> None]
    /\ rver' = [r \in Requests |-> 0]
    /\ rtodo' = [r \in Requests |-> {}]
    /\ rfail' = [r \in Requests |-> FALSE]
    /\ cut' = cut \cup {a \in Assets : \E r \in Requests : rid[r] = a /\ rpc[r] \in Mending}
    /\ UNCHANGED <<library, presets, cache, late, changes, faults>>

-----------------------------------------------------------------------------

Render(r) == Fetch(r) \/ FetchFail(r) \/ Save(r) \/ SaveFail(r)
Change(r) == ReplaceSave(r) \/ ReplaceSaveFail(r) \/ Resolve(r) \/ ResolveFail(r)
Refresh(r) ==
    \/ RefreshList(r) \/ RefreshListFail(r)
    \/ RefreshEntry(r) \/ RefreshGone(r) \/ RefreshEntryFail(r)
    \/ RefreshReopen(r) \/ RefreshDone(r)
Invalidate(r) ==
    \/ DeleteFile(r)
    \/ InvalidateList(r) \/ InvalidateEntry(r) \/ InvalidateDone(r) \/ InvalidateFail(r)

Server(r) ==
    \/ ServeMiss(r) \/ ServeHit(r)
    \/ Render(r) \/ Change(r) \/ Refresh(r) \/ Invalidate(r)
    \/ PurgeEntry(r) \/ PurgeDone(r)

Arrive(r) ==
    \/ \E a \in Assets : \/ \E n \in Names : Serve(r, a, n)
                         \/ Replace(r, a) \/ Regenerate(r, a) \/ Delete(r, a)
    \/ Purge(r)

PresetEdit ==
    \E n \in Presets : \/ PresetCreate(n) \/ PresetDelete(n)
                       \/ \E m \in Presets : PresetRename(n, m)

Next ==
    \/ \E r \in Requests : Server(r) \/ Arrive(r)
    \/ PresetEdit
    \/ Restart

Spec == Init /\ [][Next]_vars

\* A handler goes on until it returns: SQLite and the disk answer, imgproxy
\* answers within the 30 s of its client.
FairSpec == Spec /\ \A r \in Requests : WF_vars(Server(r))

-----------------------------------------------------------------------------
(* Properties.                                                             *)

\* An entry the public should not see: of a deleted asset, or of other bytes
\* than the asset has.
Wrong(c) == cache[c] # 0 /\ (c[1] \notin row \/ cache[c] # file[c[1]])

\* The handler of the change will come to the entry.
Handles(r, c) ==
    /\ rid[r] = c[1]
    /\ \/ rpc[r] \in {"rp_row", "list", "dl_file", "in_list"}
       \/ rpc[r] \in RefreshPC /\ (c \in rtodo[r] \/ rfail[r])
       \/ rpc[r] = "in_each" /\ c \in rtodo[r]

Excused(c) == c \in late \/ c[1] \in cut

\* Whatever replacements, deletions, refreshes, renders, purges and preset
\* edits overlap, an entry shows other bytes than its asset only while the
\* handler of a change still has it on its way, or because a render that had
\* fetched the old bytes was saved after the change, or because a handler
\* was cut short (api/assets.go:814-837, 893-899, 996-1011).
WrongIsHandled ==
    \A c \in Conversions : Wrong(c) => Excused(c) \/ \E r \in Requests : Handles(r, c)

\* A wrong entry does not stay: it is rendered again or removed, apart from
\* the same two exceptions (service/conversion.go:229-287).
WrongIsMended == \A c \in Conversions : Wrong(c) ~> (~Wrong(c) \/ Excused(c))

\* When no request is in flight, the conversions of an asset show its current
\* bytes: "Call it after the asset's bytes change so stale previews and presets
\* are not served" (service/conversion.go:227-228).
CachedIsCurrent ==
    (\A r \in Requests : rpc[r] = "idle")
        => \A c \in Conversions : c[1] \in row => cache[c] \in {0, file[c[1]]}
=============================================================================
