------------------------ MODULE ConversionCacheProofs ------------------------
(***************************************************************************)
(* Proofs about ConversionCache for any assets, names, requests and        *)
(* bounds.  WrongIsHandled is not inductive: a replacement that finds its  *)
(* asset deleted gives up, so GoneIsHandled says that the deletion, and no *)
(* other handler, has what is left of a deleted asset in hand.             *)
(***************************************************************************)
EXTENDS ConversionCache, TLAPS

RenderPC == {"open", "fetch", "save", "re_fetch", "re_save", "re_open"}
Working  == RequestPC \ {"idle", "purge"}

\* A request past its first step has an asset, a render has a name too, and
\* what a refresh has saved is no longer on its list.
Handling ==
    \A r \in Requests :
        /\ rpc[r] \in Working => rid[r] \in Assets
        /\ rpc[r] \in RenderPC => rname[r] \in Names
        /\ rpc[r] = "re_open" => Conv(r) \notin rtodo[r]

\* The deletion of its asset will come to the entry.
Clears(r, c) ==
    /\ rid[r] = c[1]
    /\ \/ rpc[r] \in {"dl_file", "in_list"}
       \/ rpc[r] = "in_each" /\ c \in rtodo[r]

GoneIsHandled ==
    \A c \in Conversions :
        c[1] \notin row /\ cache[c] # 0 => Excused(c) \/ \E r \in Requests : Clears(r, c)

Covered == WrongIsHandled /\ GoneIsHandled

IInv == TypeOK /\ Handling /\ Covered

Others(r) ==
    \A q \in Requests \ {r} :
        /\ rpc'[q] = rpc[q] /\ rid'[q] = rid[q] /\ rname'[q] = rname[q]
        /\ rtodo'[q] = rtodo[q] /\ rfail'[q] = rfail[q]

\* A step of r that changes no row and no original, makes no entry wrong and
\* drops none that r was to come to.
Keeps(r) ==
    /\ UNCHANGED <<row, file>>
    /\ cut \subseteq cut'
    /\ \A c \in Conversions :
        /\ cache'[c] = 0 \/ (cache'[c] = cache[c] /\ (c \in late => c \in late'))
        /\ Handles(r, c) /\ cache'[c] # 0 /\ c[1] \in row => Excused(c)' \/ Handles(r, c)'
        /\ Clears(r, c) /\ cache'[c] # 0 => Excused(c)' \/ Clears(r, c)'

-----------------------------------------------------------------------------

LEMMA InitIInv == ConstantsAssumption /\ Init => IInv
<1> SUFFICES ASSUME ConstantsAssumption, Init PROVE IInv
  OBVIOUS
<1>1. TypeOK
  BY DEF Init, TypeOK, RequestPC, ConstantsAssumption
<1>2. Handling
  BY DEF Init, Handling, Working, RenderPC
<1>3. Covered
  BY DEF Init, Covered, WrongIsHandled, GoneIsHandled, Wrong
<1> QED
  BY <1>1, <1>2, <1>3 DEF IInv

(* An entry stays covered through a step that keeps what r was to do.      *)
LEMMA Keep ==
    ASSUME IInv, NEW r \in Requests, Others(r), Keeps(r)
    PROVE  Covered'
<1>1. ASSUME NEW c \in Conversions, c[1] \notin row, cache'[c] # 0, ~Excused(c)'
      PROVE  \E q \in Requests : Clears(q, c)'
  <2>1. cache[c] # 0 /\ ~Excused(c)
    BY <1>1 DEF Keeps, Excused
  <2>2. PICK q \in Requests : Clears(q, c)
    BY <1>1, <2>1 DEF IInv, Covered, GoneIsHandled
  <2>3. CASE q = r
    BY <1>1, <2>2, <2>3 DEF Keeps
  <2>4. CASE q # r
    BY <2>2, <2>4 DEF Others, Clears
  <2> QED
    BY <2>3, <2>4
<1>2. GoneIsHandled'
  BY <1>1 DEF GoneIsHandled, Keeps
<1>3. ASSUME NEW c \in Conversions, Wrong(c)', ~Excused(c)'
      PROVE  \E q \in Requests : Handles(q, c)'
  <2>1. cache'[c] # 0 /\ Wrong(c) /\ ~Excused(c)
    BY <1>3 DEF Keeps, Excused, Wrong
  <2>2. CASE c[1] \notin row
    BY <1>1, <1>3, <2>1, <2>2 DEF Clears, Handles
  <2>3. CASE c[1] \in row
    <3>1. PICK q \in Requests : Handles(q, c)
      BY <2>1 DEF IInv, Covered, WrongIsHandled
    <3>2. CASE q = r
      BY <1>3, <2>1, <2>3, <3>1, <3>2 DEF Keeps
    <3>3. CASE q # r
      BY <3>1, <3>3 DEF Others, Handles
    <3> QED
      BY <3>2, <3>3
  <2> QED
    BY <2>2, <2>3
<1>4. WrongIsHandled'
  BY <1>3 DEF WrongIsHandled
<1> QED
  BY <1>2, <1>4 DEF Covered

RequestsOK ==
    /\ rpc \in [Requests -> RequestPC]
    /\ rid \in [Requests -> Assets \cup {None}]
    /\ rname \in [Requests -> Names \cup {None}]
    /\ rver \in [Requests -> Nat]
    /\ rtodo \in [Requests -> SUBSET Conversions]
    /\ rfail \in [Requests -> BOOLEAN]

LEMMA GiveType ==
    ASSUME IInv, NEW r \in Requests, Give(r)
    PROVE  RequestsOK'
<1>1. CASE End(r)
  BY <1>1 DEF End, RequestsOK, IInv, TypeOK, RequestPC
<1>2. CASE NextEntry(r, Conv(r), TRUE)
  BY <1>2 DEF NextEntry, RequestsOK, IInv, TypeOK, RequestPC, RefreshPC
<1> QED
  BY <1>1, <1>2 DEF Give

LEMMA GiveCovered ==
    ASSUME IInv, NEW r \in Requests, Others(r), Give(r),
           rpc[r] \in {"fetch", "save", "re_fetch", "re_save"},
           UNCHANGED <<row, file, cache, late, cut>>
    PROVE  Covered'
<1>1. CASE rpc[r] \in {"fetch", "save"} /\ End(r)
  <2>1. Keeps(r)
    BY <1>1 DEF Keeps, Handles, Clears, Excused, RefreshPC
  <2> QED
    BY <2>1, Keep
<1>2. CASE rpc[r] \in RefreshPC /\ NextEntry(r, Conv(r), TRUE)
  <2>1. rpc'[r] = "each" /\ rid'[r] = rid[r] /\ rfail'[r]
    BY <1>2 DEF NextEntry, IInv, TypeOK
  <2>2. Keeps(r)
    BY <2>1 DEF Keeps, Handles, Clears, Excused, RefreshPC
  <2> QED
    BY <2>2, Keep
<1> QED
  BY <1>1, <1>2 DEF Give

(* Each step of a request keeps the types.                                 *)
LEMMA RequestType ==
    ASSUME IInv, NEW r \in Requests, Server(r) \/ Arrive(r)
    PROVE  TypeOK'
<1>1. CASE ServeMiss(r)
  BY <1>1, ConstantsAssumption
       DEF Conv, Goto, ServeMiss, IInv, TypeOK, Handling, RenderPC, Working,
           RequestPC, RefreshPC, library, requests, history, bounds,
           Conversions
<1>2. CASE ServeHit(r)
  BY <1>2, ConstantsAssumption
       DEF Conv, End, ServeHit, IInv, TypeOK, Handling, RenderPC, Working,
           RequestPC, RefreshPC, library, requests, history, bounds,
           Conversions
<1>3. CASE Fetch(r)
  BY <1>3, ConstantsAssumption
       DEF Rendered, Fetch, IInv, TypeOK, Handling, RenderPC, Working,
           RequestPC, RefreshPC, library, requests, history, bounds,
           Conversions
<1>4. CASE FetchFail(r)
  <2>1. UNCHANGED <<row, file, saved, presets, cache, late, cut>>
    BY <1>4 DEF FetchFail, library, history
  <2>2. changes' \in 0 .. MaxChanges /\ faults' \in 0 .. MaxFaults /\ stops' \in 0 .. MaxStops
    BY <1>4, ConstantsAssumption DEF FetchFail, Fault, bounds, IInv, TypeOK
  <2>3. Give(r)
    BY <1>4 DEF FetchFail
  <2> QED
    BY <2>1, <2>2, <2>3, GiveType DEF IInv, TypeOK, RequestsOK
<1>5. CASE Save(r)
  <2>1. Conv(r) \in Conversions
    BY <1>5 DEF Save, Conv, Conversions, IInv, Handling, Working, RenderPC, RequestPC, RefreshPC
  <2>2. cache' \in [Conversions -> Nat] /\ late' \subseteq Conversions
    BY <1>5, <2>1 DEF Save, IInv, TypeOK
  <2>3. UNCHANGED <<row, file, saved, presets, cut, bounds>>
    BY <1>5 DEF Save, library
  <2>4. RequestsOK'
    <3>1. CASE End(r)
      BY <3>1 DEF End, RequestsOK, IInv, TypeOK, RequestPC
    <3>2. CASE rpc[r] = "re_save"
      BY <1>5, <3>2 DEF Save, RequestsOK, IInv, TypeOK, RequestPC, RefreshPC
    <3> QED
      BY <1>5, <3>1, <3>2 DEF Save
  <2> QED
    BY <2>2, <2>3, <2>4 DEF IInv, TypeOK, RequestsOK, bounds
<1>6. CASE SaveFail(r)
  <2>1. UNCHANGED <<row, file, saved, presets, cache, late, cut>>
    BY <1>6 DEF SaveFail, library, history
  <2>2. changes' \in 0 .. MaxChanges /\ faults' \in 0 .. MaxFaults /\ stops' \in 0 .. MaxStops
    BY <1>6, ConstantsAssumption DEF SaveFail, Fault, bounds, IInv, TypeOK
  <2>3. Give(r)
    BY <1>6 DEF SaveFail
  <2> QED
    BY <2>1, <2>2, <2>3, GiveType DEF IInv, TypeOK, RequestsOK
<1>7. CASE ReplaceSave(r)
  BY <1>7, ConstantsAssumption
       DEF Goto, ReplaceSave, IInv, TypeOK, Handling, RenderPC, Working,
           RequestPC, RefreshPC, library, requests, history, bounds,
           Conversions
<1>8. CASE ReplaceSaveFail(r)
  BY <1>8, ConstantsAssumption
       DEF End, Fault, ReplaceSaveFail, IInv, TypeOK, Handling, RenderPC,
           Working, RequestPC, RefreshPC, library, requests, history,
           bounds, Conversions
<1>9. CASE Resolve(r)
  BY <1>9, ConstantsAssumption
       DEF Goto, Resolve, IInv, TypeOK, Handling, RenderPC, Working,
           RequestPC, RefreshPC, library, requests, history, bounds,
           Conversions
<1>10. CASE ResolveFail(r)
  BY <1>10, ConstantsAssumption
       DEF End, Fault, ResolveFail, IInv, TypeOK, Handling, RenderPC,
           Working, RequestPC, RefreshPC, library, requests, history,
           bounds, Conversions
<1>11. CASE RefreshList(r)
  BY <1>11, ConstantsAssumption
       DEF Loop, Cached, RefreshList, IInv, TypeOK, Handling, RenderPC,
           Working, RequestPC, RefreshPC, library, requests, history,
           bounds, Conversions
<1>12. CASE RefreshListFail(r)
  BY <1>12, ConstantsAssumption
       DEF Goto, Fault, RefreshListFail, IInv, TypeOK, Handling, RenderPC,
           Working, RequestPC, RefreshPC, library, requests, history,
           bounds, Conversions
<1>13. CASE RefreshEntry(r)
  BY <1>13, ConstantsAssumption
       DEF Available, RefreshEntry, IInv, TypeOK, Handling, RenderPC,
           Working, RequestPC, RefreshPC, library, requests, history,
           bounds, Conversions
<1>14. CASE RefreshGone(r)
  BY <1>14, ConstantsAssumption
       DEF NextEntry, Remove, Fault, Available, RefreshGone, IInv, TypeOK,
           Handling, RenderPC, Working, RequestPC, RefreshPC, library,
           requests, history, bounds, Conversions
<1>15. CASE RefreshEntryFail(r)
  BY <1>15, ConstantsAssumption
       DEF NextEntry, Fault, RefreshEntryFail, IInv, TypeOK, Handling,
           RenderPC, Working, RequestPC, RefreshPC, library, requests,
           history, bounds, Conversions
<1>16. CASE RefreshReopen(r)
  BY <1>16, ConstantsAssumption
       DEF Conv, NextEntry, RefreshReopen, IInv, TypeOK, Handling, RenderPC,
           Working, RequestPC, RefreshPC, library, requests, history,
           bounds, Conversions
<1>17. CASE RefreshDone(r)
  <2>1. CASE Goto(r, "in_list")
    BY <1>17, <2>1 DEF RefreshDone, Goto, IInv, TypeOK, RequestPC, library, history, bounds
  <2>2. CASE End(r)
    BY <1>17, <2>2 DEF RefreshDone, End, IInv, TypeOK, RequestPC, library, history, bounds
  <2> QED
    BY <1>17, <2>1, <2>2 DEF RefreshDone
<1>18. CASE DeleteFile(r)
  BY <1>18, ConstantsAssumption
       DEF Goto, Fault, DeleteFile, IInv, TypeOK, Handling, RenderPC,
           Working, RequestPC, RefreshPC, library, requests, history,
           bounds, Conversions
<1>19. CASE InvalidateList(r)
  BY <1>19, ConstantsAssumption
       DEF Loop, Cached, InvalidateList, IInv, TypeOK, Handling, RenderPC,
           Working, RequestPC, RefreshPC, library, requests, history,
           bounds, Conversions
<1>20. CASE InvalidateEntry(r)
  BY <1>20, ConstantsAssumption
       DEF Remove, InvalidateEntry, IInv, TypeOK, Handling, RenderPC,
           Working, RequestPC, RefreshPC, library, requests, history,
           bounds, Conversions
<1>21. CASE InvalidateDone(r)
  BY <1>21, ConstantsAssumption
       DEF End, InvalidateDone, IInv, TypeOK, Handling, RenderPC, Working,
           RequestPC, RefreshPC, library, requests, history, bounds,
           Conversions
<1>22. CASE InvalidateFail(r)
  BY <1>22, ConstantsAssumption
       DEF End, Fault, InvalidateFail, IInv, TypeOK, Handling, RenderPC,
           Working, RequestPC, RefreshPC, library, requests, history,
           bounds, Conversions
<1>23. CASE PurgeEntry(r)
  BY <1>23, ConstantsAssumption
       DEF Remove, PurgeEntry, IInv, TypeOK, Handling, RenderPC, Working,
           RequestPC, RefreshPC, library, requests, history, bounds,
           Conversions
<1>24. CASE PurgeDone(r)
  BY <1>24, ConstantsAssumption
       DEF End, Fault, PurgeDone, IInv, TypeOK, Handling, RenderPC, Working,
           RequestPC, RefreshPC, library, requests, history, bounds,
           Conversions
<1>25. CASE \E a \in Assets, n \in Names : Serve(r, a, n)
  BY <1>25, ConstantsAssumption
       DEF Begin, Available, Serve, IInv, TypeOK, Handling, RenderPC,
           Working, RequestPC, RefreshPC, library, requests, history,
           bounds, Conversions
<1>26. CASE \E a \in Assets : Replace(r, a)
  BY <1>26, ConstantsAssumption
       DEF Begin, Replace, IInv, TypeOK, Handling, RenderPC, Working,
           RequestPC, RefreshPC, library, requests, history, bounds,
           Conversions
<1>27. CASE \E a \in Assets : Regenerate(r, a)
  BY <1>27, ConstantsAssumption
       DEF Begin, Regenerate, IInv, TypeOK, Handling, RenderPC, Working,
           RequestPC, RefreshPC, library, requests, history, bounds,
           Conversions
<1>28. CASE \E a \in Assets : Delete(r, a)
  BY <1>28, ConstantsAssumption
       DEF Begin, Delete, IInv, TypeOK, Handling, RenderPC, Working,
           RequestPC, RefreshPC, library, requests, history, bounds,
           Conversions
<1>29. CASE Purge(r)
  BY <1>29, ConstantsAssumption
       DEF Conversions, Loop, Cached, Purge, IInv, TypeOK, Handling,
           RenderPC, Working, RequestPC, RefreshPC, library, requests,
           history, bounds
<1> QED
  BY <1>1, <1>2, <1>3, <1>4, <1>5, <1>6, <1>7, <1>8, <1>9, <1>10, <1>11, <1>12, <1>13, <1>14, <1>15, <1>16, <1>17, <1>18, <1>19, <1>20, <1>21, <1>22, <1>23, <1>24, <1>25, <1>26, <1>27, <1>28, <1>29 DEF Server, Arrive, Render, Change, Refresh, Invalidate

(* Each step of a request keeps what its program counter stands for.       *)
LEMMA RequestHandling ==
    ASSUME IInv, NEW r \in Requests, Server(r) \/ Arrive(r)
    PROVE  Handling'
<1>1. CASE ServeMiss(r)
  BY <1>1, ConstantsAssumption
       DEF Conv, Goto, ServeMiss, IInv, TypeOK, Handling, RenderPC, Working,
           RequestPC, RefreshPC, library, requests, history, bounds,
           Conversions
<1>2. CASE ServeHit(r)
  BY <1>2, ConstantsAssumption
       DEF Conv, End, ServeHit, IInv, TypeOK, Handling, RenderPC, Working,
           RequestPC, RefreshPC, library, requests, history, bounds,
           Conversions
<1>3. CASE Fetch(r)
  BY <1>3, ConstantsAssumption
       DEF Rendered, Fetch, IInv, TypeOK, Handling, RenderPC, Working,
           RequestPC, RefreshPC, library, requests, history, bounds,
           Conversions, Conv
<1>4. CASE FetchFail(r)
  BY <1>4, ConstantsAssumption
       DEF RefreshPC, Conv, End, NextEntry, Fault, Rendered, Give,
           FetchFail, IInv, TypeOK, Handling, RenderPC, Working, RequestPC,
           library, requests, history, bounds, Conversions
<1>5. CASE Save(r)
  BY <1>5, ConstantsAssumption
       DEF Conv, End, Save, IInv, TypeOK, Handling, RenderPC, Working,
           RequestPC, RefreshPC, library, requests, history, bounds,
           Conversions
<1>6. CASE SaveFail(r)
  BY <1>6, ConstantsAssumption
       DEF RefreshPC, Conv, End, NextEntry, Fault, Give, SaveFail, IInv,
           TypeOK, Handling, RenderPC, Working, RequestPC, library,
           requests, history, bounds, Conversions
<1>7. CASE ReplaceSave(r)
  BY <1>7, ConstantsAssumption
       DEF Goto, ReplaceSave, IInv, TypeOK, Handling, RenderPC, Working,
           RequestPC, RefreshPC, library, requests, history, bounds,
           Conversions, Conv
<1>8. CASE ReplaceSaveFail(r)
  BY <1>8, ConstantsAssumption
       DEF End, Fault, ReplaceSaveFail, IInv, TypeOK, Handling, RenderPC,
           Working, RequestPC, RefreshPC, library, requests, history,
           bounds, Conversions, Conv
<1>9. CASE Resolve(r)
  BY <1>9, ConstantsAssumption
       DEF Goto, Resolve, IInv, TypeOK, Handling, RenderPC, Working,
           RequestPC, RefreshPC, library, requests, history, bounds,
           Conversions, Conv
<1>10. CASE ResolveFail(r)
  BY <1>10, ConstantsAssumption
       DEF End, Fault, ResolveFail, IInv, TypeOK, Handling, RenderPC,
           Working, RequestPC, RefreshPC, library, requests, history,
           bounds, Conversions, Conv
<1>11. CASE RefreshList(r)
  BY <1>11, ConstantsAssumption
       DEF Loop, Cached, RefreshList, IInv, TypeOK, Handling, RenderPC,
           Working, RequestPC, RefreshPC, library, requests, history,
           bounds, Conversions, Conv
<1>12. CASE RefreshListFail(r)
  BY <1>12, ConstantsAssumption
       DEF Goto, Fault, RefreshListFail, IInv, TypeOK, Handling, RenderPC,
           Working, RequestPC, RefreshPC, library, requests, history,
           bounds, Conversions, Conv
<1>13. CASE RefreshEntry(r)
  BY <1>13, ConstantsAssumption
       DEF Available, RefreshEntry, IInv, TypeOK, Handling, RenderPC,
           Working, RequestPC, RefreshPC, library, requests, history,
           bounds, Conversions, Conv
<1>14. CASE RefreshGone(r)
  BY <1>14, ConstantsAssumption
       DEF NextEntry, Remove, Fault, Available, RefreshGone, IInv, TypeOK,
           Handling, RenderPC, Working, RequestPC, RefreshPC, library,
           requests, history, bounds, Conversions, Conv
<1>15. CASE RefreshEntryFail(r)
  BY <1>15, ConstantsAssumption
       DEF NextEntry, Fault, RefreshEntryFail, IInv, TypeOK, Handling,
           RenderPC, Working, RequestPC, RefreshPC, library, requests,
           history, bounds, Conversions, Conv
<1>16. CASE RefreshReopen(r)
  BY <1>16, ConstantsAssumption
       DEF Conv, NextEntry, RefreshReopen, IInv, TypeOK, Handling, RenderPC,
           Working, RequestPC, RefreshPC, library, requests, history,
           bounds, Conversions
<1>17. CASE RefreshDone(r)
  BY <1>17, ConstantsAssumption
       DEF Goto, End, RefreshDone, IInv, TypeOK, Handling, RenderPC,
           Working, RequestPC, RefreshPC, library, requests, history,
           bounds, Conversions, Conv
<1>18. CASE DeleteFile(r)
  BY <1>18, ConstantsAssumption
       DEF Goto, Fault, DeleteFile, IInv, TypeOK, Handling, RenderPC,
           Working, RequestPC, RefreshPC, library, requests, history,
           bounds, Conversions, Conv
<1>19. CASE InvalidateList(r)
  BY <1>19, ConstantsAssumption
       DEF Loop, Cached, InvalidateList, IInv, TypeOK, Handling, RenderPC,
           Working, RequestPC, RefreshPC, library, requests, history,
           bounds, Conversions, Conv
<1>20. CASE InvalidateEntry(r)
  BY <1>20, ConstantsAssumption
       DEF Remove, InvalidateEntry, IInv, TypeOK, Handling, RenderPC,
           Working, RequestPC, RefreshPC, library, requests, history,
           bounds, Conversions, Conv
<1>21. CASE InvalidateDone(r)
  BY <1>21, ConstantsAssumption
       DEF End, InvalidateDone, IInv, TypeOK, Handling, RenderPC, Working,
           RequestPC, RefreshPC, library, requests, history, bounds,
           Conversions, Conv
<1>22. CASE InvalidateFail(r)
  BY <1>22, ConstantsAssumption
       DEF End, Fault, InvalidateFail, IInv, TypeOK, Handling, RenderPC,
           Working, RequestPC, RefreshPC, library, requests, history,
           bounds, Conversions, Conv
<1>23. CASE PurgeEntry(r)
  BY <1>23, ConstantsAssumption
       DEF Remove, PurgeEntry, IInv, TypeOK, Handling, RenderPC, Working,
           RequestPC, RefreshPC, library, requests, history, bounds,
           Conversions, Conv
<1>24. CASE PurgeDone(r)
  BY <1>24, ConstantsAssumption
       DEF End, Fault, PurgeDone, IInv, TypeOK, Handling, RenderPC, Working,
           RequestPC, RefreshPC, library, requests, history, bounds,
           Conversions, Conv
<1>25. CASE \E a \in Assets, n \in Names : Serve(r, a, n)
  BY <1>25, ConstantsAssumption
       DEF Begin, Available, Serve, IInv, TypeOK, Handling, RenderPC,
           Working, RequestPC, RefreshPC, library, requests, history,
           bounds, Conversions, Conv
<1>26. CASE \E a \in Assets : Replace(r, a)
  BY <1>26, ConstantsAssumption
       DEF Begin, Replace, IInv, TypeOK, Handling, RenderPC, Working,
           RequestPC, RefreshPC, library, requests, history, bounds,
           Conversions, Conv
<1>27. CASE \E a \in Assets : Regenerate(r, a)
  BY <1>27, ConstantsAssumption
       DEF Begin, Regenerate, IInv, TypeOK, Handling, RenderPC, Working,
           RequestPC, RefreshPC, library, requests, history, bounds,
           Conversions, Conv
<1>28. CASE \E a \in Assets : Delete(r, a)
  BY <1>28, ConstantsAssumption
       DEF Begin, Delete, IInv, TypeOK, Handling, RenderPC, Working,
           RequestPC, RefreshPC, library, requests, history, bounds,
           Conversions, Conv
<1>29. CASE Purge(r)
  BY <1>29, ConstantsAssumption
       DEF Conversions, Loop, Cached, Purge, IInv, TypeOK, Handling,
           RenderPC, Working, RequestPC, RefreshPC, library, requests,
           history, bounds, Conv
<1> QED
  BY <1>1, <1>2, <1>3, <1>4, <1>5, <1>6, <1>7, <1>8, <1>9, <1>10, <1>11, <1>12, <1>13, <1>14, <1>15, <1>16, <1>17, <1>18, <1>19, <1>20, <1>21, <1>22, <1>23, <1>24, <1>25, <1>26, <1>27, <1>28, <1>29 DEF Server, Arrive, Render, Change, Refresh, Invalidate

(* A step of one request leaves the others where they are.                 *)
LEMMA RequestOthers ==
    ASSUME IInv, NEW r \in Requests, Server(r) \/ Arrive(r)
    PROVE  Others(r)
<1>1. CASE ServeMiss(r)
  BY <1>1, ConstantsAssumption
       DEF Conv, Goto, ServeMiss, Others, library, requests, history,
           bounds, IInv, TypeOK
<1>2. CASE ServeHit(r)
  BY <1>2, ConstantsAssumption
       DEF Conv, End, ServeHit, Others, library, requests, history, bounds,
           IInv, TypeOK
<1>3. CASE Fetch(r)
  BY <1>3, ConstantsAssumption
       DEF Rendered, Fetch, Others, library, requests, history, bounds,
           IInv, TypeOK
<1>4. CASE FetchFail(r)
  BY <1>4, ConstantsAssumption
       DEF RefreshPC, Conv, End, NextEntry, Fault, Rendered, Give,
           FetchFail, Others, library, requests, history, bounds, IInv,
           TypeOK
<1>5. CASE Save(r)
  BY <1>5, ConstantsAssumption
       DEF Conv, End, Save, Others, library, requests, history, bounds,
           IInv, TypeOK
<1>6. CASE SaveFail(r)
  BY <1>6, ConstantsAssumption
       DEF RefreshPC, Conv, End, NextEntry, Fault, Give, SaveFail, Others,
           library, requests, history, bounds, IInv, TypeOK
<1>7. CASE ReplaceSave(r)
  BY <1>7, ConstantsAssumption
       DEF Goto, ReplaceSave, Others, library, requests, history, bounds,
           IInv, TypeOK
<1>8. CASE ReplaceSaveFail(r)
  BY <1>8, ConstantsAssumption
       DEF End, Fault, ReplaceSaveFail, Others, library, requests, history,
           bounds, IInv, TypeOK
<1>9. CASE Resolve(r)
  BY <1>9, ConstantsAssumption
       DEF Goto, Resolve, Others, library, requests, history, bounds, IInv,
           TypeOK
<1>10. CASE ResolveFail(r)
  BY <1>10, ConstantsAssumption
       DEF End, Fault, ResolveFail, Others, library, requests, history,
           bounds, IInv, TypeOK
<1>11. CASE RefreshList(r)
  BY <1>11, ConstantsAssumption
       DEF Loop, Cached, RefreshList, Others, library, requests, history,
           bounds, IInv, TypeOK
<1>12. CASE RefreshListFail(r)
  BY <1>12, ConstantsAssumption
       DEF Goto, Fault, RefreshListFail, Others, library, requests, history,
           bounds, IInv, TypeOK
<1>13. CASE RefreshEntry(r)
  BY <1>13, ConstantsAssumption
       DEF Available, RefreshEntry, Others, library, requests, history,
           bounds, IInv, TypeOK
<1>14. CASE RefreshGone(r)
  BY <1>14, ConstantsAssumption
       DEF NextEntry, Remove, Fault, Available, RefreshGone, Others,
           library, requests, history, bounds, IInv, TypeOK
<1>15. CASE RefreshEntryFail(r)
  BY <1>15, ConstantsAssumption
       DEF NextEntry, Fault, RefreshEntryFail, Others, library, requests,
           history, bounds, IInv, TypeOK
<1>16. CASE RefreshReopen(r)
  BY <1>16, ConstantsAssumption
       DEF Conv, NextEntry, RefreshReopen, Others, library, requests,
           history, bounds, IInv, TypeOK
<1>17. CASE RefreshDone(r)
  BY <1>17, ConstantsAssumption
       DEF Goto, End, RefreshDone, Others, library, requests, history,
           bounds, IInv, TypeOK
<1>18. CASE DeleteFile(r)
  BY <1>18, ConstantsAssumption
       DEF Goto, Fault, DeleteFile, Others, library, requests, history,
           bounds, IInv, TypeOK
<1>19. CASE InvalidateList(r)
  BY <1>19, ConstantsAssumption
       DEF Loop, Cached, InvalidateList, Others, library, requests, history,
           bounds, IInv, TypeOK
<1>20. CASE InvalidateEntry(r)
  BY <1>20, ConstantsAssumption
       DEF Remove, InvalidateEntry, Others, library, requests, history,
           bounds, IInv, TypeOK
<1>21. CASE InvalidateDone(r)
  BY <1>21, ConstantsAssumption
       DEF End, InvalidateDone, Others, library, requests, history, bounds,
           IInv, TypeOK
<1>22. CASE InvalidateFail(r)
  BY <1>22, ConstantsAssumption
       DEF End, Fault, InvalidateFail, Others, library, requests, history,
           bounds, IInv, TypeOK
<1>23. CASE PurgeEntry(r)
  BY <1>23, ConstantsAssumption
       DEF Remove, PurgeEntry, Others, library, requests, history, bounds,
           IInv, TypeOK
<1>24. CASE PurgeDone(r)
  BY <1>24, ConstantsAssumption
       DEF End, Fault, PurgeDone, Others, library, requests, history,
           bounds, IInv, TypeOK
<1>25. CASE \E a \in Assets, n \in Names : Serve(r, a, n)
  BY <1>25, ConstantsAssumption
       DEF Begin, Available, Serve, Others, library, requests, history,
           bounds, IInv, TypeOK
<1>26. CASE \E a \in Assets : Replace(r, a)
  BY <1>26, ConstantsAssumption
       DEF Begin, Replace, Others, library, requests, history, bounds, IInv,
           TypeOK
<1>27. CASE \E a \in Assets : Regenerate(r, a)
  BY <1>27, ConstantsAssumption
       DEF Begin, Regenerate, Others, library, requests, history, bounds,
           IInv, TypeOK
<1>28. CASE \E a \in Assets : Delete(r, a)
  BY <1>28, ConstantsAssumption
       DEF Begin, Delete, Others, library, requests, history, bounds, IInv,
           TypeOK
<1>29. CASE Purge(r)
  BY <1>29, ConstantsAssumption
       DEF Conversions, Loop, Cached, Purge, Others, library, requests,
           history, bounds, IInv, TypeOK
<1> QED
  BY <1>1, <1>2, <1>3, <1>4, <1>5, <1>6, <1>7, <1>8, <1>9, <1>10, <1>11, <1>12, <1>13, <1>14, <1>15, <1>16, <1>17, <1>18, <1>19, <1>20, <1>21, <1>22, <1>23, <1>24, <1>25, <1>26, <1>27, <1>28, <1>29 DEF Server, Arrive, Render, Change, Refresh, Invalidate

(* Steps that change no row and no original.                               *)
LEMMA ServeMissCovered ==
    ASSUME IInv, NEW r \in Requests, ServeMiss(r), Others(r)
    PROVE  Covered'
<1>1. Keeps(r)
  BY ConstantsAssumption
       DEF Conv, Goto, ServeMiss, IInv, TypeOK, Handling, RenderPC, Working,
           library, requests, history, bounds, Conversions, RefreshPC,
           Keeps, Handles, Clears, Excused
<1> QED
  BY <1>1, Keep

LEMMA ServeHitCovered ==
    ASSUME IInv, NEW r \in Requests, ServeHit(r), Others(r)
    PROVE  Covered'
<1>1. Keeps(r)
  BY ConstantsAssumption
       DEF Conv, End, ServeHit, IInv, TypeOK, Handling, RenderPC, Working,
           library, requests, history, bounds, Conversions, RefreshPC,
           Keeps, Handles, Clears, Excused
<1> QED
  BY <1>1, Keep

LEMMA FetchCovered ==
    ASSUME IInv, NEW r \in Requests, Fetch(r), Others(r)
    PROVE  Covered'
<1>1. Keeps(r)
  BY ConstantsAssumption
       DEF Rendered, Fetch, IInv, TypeOK, Handling, RenderPC, Working,
           library, requests, history, bounds, Conversions, Conv, RefreshPC,
           Keeps, Handles, Clears, Excused
<1> QED
  BY <1>1, Keep

LEMMA FetchFailCovered ==
    ASSUME IInv, NEW r \in Requests, FetchFail(r), Others(r)
    PROVE  Covered'
<1>1. UNCHANGED <<row, file, cache, late, cut>>
  BY DEF FetchFail, library, history
<1>2. Give(r) /\ rpc[r] \in {"fetch", "save", "re_fetch", "re_save"}
  BY DEF FetchFail, Rendered
<1> QED
  BY <1>1, <1>2, GiveCovered

LEMMA SaveFailCovered ==
    ASSUME IInv, NEW r \in Requests, SaveFail(r), Others(r)
    PROVE  Covered'
<1>1. UNCHANGED <<row, file, cache, late, cut>>
  BY DEF SaveFail, library, history
<1>2. Give(r) /\ rpc[r] \in {"fetch", "save", "re_fetch", "re_save"}
  BY DEF SaveFail, Rendered
<1> QED
  BY <1>1, <1>2, GiveCovered

LEMMA ReplaceSaveFailCovered ==
    ASSUME IInv, NEW r \in Requests, ReplaceSaveFail(r), Others(r)
    PROVE  Covered'
<1>1. Keeps(r)
  BY ConstantsAssumption
       DEF End, Fault, ReplaceSaveFail, IInv, TypeOK, Handling, RenderPC,
           Working, library, requests, history, bounds, Conversions, Conv,
           RefreshPC, Keeps, Handles, Clears, Excused
<1> QED
  BY <1>1, Keep

LEMMA ResolveCovered ==
    ASSUME IInv, NEW r \in Requests, Resolve(r), Others(r)
    PROVE  Covered'
<1>1. Keeps(r)
  BY ConstantsAssumption
       DEF Goto, Resolve, IInv, TypeOK, Handling, RenderPC, Working,
           library, requests, history, bounds, Conversions, Conv, RefreshPC,
           Keeps, Handles, Clears, Excused
<1> QED
  BY <1>1, Keep

LEMMA ResolveFailCovered ==
    ASSUME IInv, NEW r \in Requests, ResolveFail(r), Others(r)
    PROVE  Covered'
<1>1. Keeps(r)
  BY ConstantsAssumption
       DEF End, Fault, ResolveFail, IInv, TypeOK, Handling, RenderPC,
           Working, library, requests, history, bounds, Conversions, Conv,
           RefreshPC, Keeps, Handles, Clears, Excused
<1> QED
  BY <1>1, Keep

LEMMA RefreshListCovered ==
    ASSUME IInv, NEW r \in Requests, RefreshList(r), Others(r)
    PROVE  Covered'
<1>1. Keeps(r)
  BY ConstantsAssumption
       DEF Loop, Cached, RefreshList, IInv, TypeOK, Handling, RenderPC,
           Working, library, requests, history, bounds, Conversions, Conv,
           RefreshPC, Keeps, Handles, Clears, Excused
<1> QED
  BY <1>1, Keep

LEMMA RefreshListFailCovered ==
    ASSUME IInv, NEW r \in Requests, RefreshListFail(r), Others(r)
    PROVE  Covered'
<1>1. Keeps(r)
  BY ConstantsAssumption
       DEF Goto, Fault, RefreshListFail, IInv, TypeOK, Handling, RenderPC,
           Working, library, requests, history, bounds, Conversions, Conv,
           RefreshPC, Keeps, Handles, Clears, Excused
<1> QED
  BY <1>1, Keep

LEMMA RefreshEntryCovered ==
    ASSUME IInv, NEW r \in Requests, RefreshEntry(r), Others(r)
    PROVE  Covered'
<1>1. Keeps(r)
  BY ConstantsAssumption
       DEF Available, RefreshEntry, IInv, TypeOK, Handling, RenderPC,
           Working, library, requests, history, bounds, Conversions, Conv,
           RefreshPC, Keeps, Handles, Clears, Excused
<1> QED
  BY <1>1, Keep

LEMMA RefreshGoneCovered ==
    ASSUME IInv, NEW r \in Requests, RefreshGone(r), Others(r)
    PROVE  Covered'
<1>1. Keeps(r)
  BY ConstantsAssumption
       DEF NextEntry, Remove, Fault, Available, RefreshGone, IInv, TypeOK,
           Handling, RenderPC, Working, library, requests, history, bounds,
           Conversions, Conv, RefreshPC, Keeps, Handles, Clears, Excused
<1> QED
  BY <1>1, Keep

LEMMA RefreshEntryFailCovered ==
    ASSUME IInv, NEW r \in Requests, RefreshEntryFail(r), Others(r)
    PROVE  Covered'
<1>1. UNCHANGED <<row, file, cache, late, cut>>
  BY DEF RefreshEntryFail, library, history
<1>2. PICK d \in rtodo[r] : NextEntry(r, d, TRUE)
  BY DEF RefreshEntryFail
<1>3. rpc'[r] = "each" /\ rid'[r] = rid[r] /\ rfail'[r] /\ rpc[r] = "each"
  BY <1>2 DEF RefreshEntryFail, NextEntry, IInv, TypeOK
<1>4. Keeps(r)
  BY <1>1, <1>3 DEF Keeps, Handles, Clears, Excused, RefreshPC
<1> QED
  BY <1>4, Keep

LEMMA RefreshReopenCovered ==
    ASSUME IInv, NEW r \in Requests, RefreshReopen(r), Others(r)
    PROVE  Covered'
<1>1. Keeps(r)
  BY ConstantsAssumption
       DEF Conv, NextEntry, RefreshReopen, IInv, TypeOK, Handling, RenderPC,
           Working, library, requests, history, bounds, Conversions,
           RefreshPC, Keeps, Handles, Clears, Excused
<1> QED
  BY <1>1, Keep

LEMMA RefreshDoneCovered ==
    ASSUME IInv, NEW r \in Requests, RefreshDone(r), Others(r)
    PROVE  Covered'
<1>1. Keeps(r)
  BY ConstantsAssumption
       DEF Goto, End, RefreshDone, IInv, TypeOK, Handling, RenderPC,
           Working, library, requests, history, bounds, Conversions, Conv,
           RefreshPC, Keeps, Handles, Clears, Excused
<1> QED
  BY <1>1, Keep

LEMMA InvalidateListCovered ==
    ASSUME IInv, NEW r \in Requests, InvalidateList(r), Others(r)
    PROVE  Covered'
<1>1. Keeps(r)
  BY ConstantsAssumption
       DEF Loop, Cached, InvalidateList, IInv, TypeOK, Handling, RenderPC,
           Working, library, requests, history, bounds, Conversions, Conv,
           RefreshPC, Keeps, Handles, Clears, Excused
<1> QED
  BY <1>1, Keep

LEMMA InvalidateEntryCovered ==
    ASSUME IInv, NEW r \in Requests, InvalidateEntry(r), Others(r)
    PROVE  Covered'
<1>1. Keeps(r)
  BY ConstantsAssumption
       DEF Remove, InvalidateEntry, IInv, TypeOK, Handling, RenderPC,
           Working, library, requests, history, bounds, Conversions, Conv,
           RefreshPC, Keeps, Handles, Clears, Excused
<1> QED
  BY <1>1, Keep

LEMMA InvalidateDoneCovered ==
    ASSUME IInv, NEW r \in Requests, InvalidateDone(r), Others(r)
    PROVE  Covered'
<1>1. Keeps(r)
  BY ConstantsAssumption
       DEF End, InvalidateDone, IInv, TypeOK, Handling, RenderPC, Working,
           library, requests, history, bounds, Conversions, Conv, RefreshPC,
           Keeps, Handles, Clears, Excused
<1> QED
  BY <1>1, Keep

LEMMA InvalidateFailCovered ==
    ASSUME IInv, NEW r \in Requests, InvalidateFail(r), Others(r)
    PROVE  Covered'
<1>1. Keeps(r)
  BY ConstantsAssumption
       DEF End, Fault, InvalidateFail, IInv, TypeOK, Handling, RenderPC,
           Working, library, requests, history, bounds, Conversions, Conv,
           RefreshPC, Keeps, Handles, Clears, Excused
<1> QED
  BY <1>1, Keep

LEMMA PurgeEntryCovered ==
    ASSUME IInv, NEW r \in Requests, PurgeEntry(r), Others(r)
    PROVE  Covered'
<1>1. Keeps(r)
  BY ConstantsAssumption
       DEF Remove, PurgeEntry, IInv, TypeOK, Handling, RenderPC, Working,
           library, requests, history, bounds, Conversions, Conv, RefreshPC,
           Keeps, Handles, Clears, Excused
<1> QED
  BY <1>1, Keep

LEMMA PurgeDoneCovered ==
    ASSUME IInv, NEW r \in Requests, PurgeDone(r), Others(r)
    PROVE  Covered'
<1>1. Keeps(r)
  BY ConstantsAssumption
       DEF End, Fault, PurgeDone, IInv, TypeOK, Handling, RenderPC, Working,
           library, requests, history, bounds, Conversions, Conv, RefreshPC,
           Keeps, Handles, Clears, Excused
<1> QED
  BY <1>1, Keep

LEMMA ServeCovered ==
    ASSUME IInv, NEW r \in Requests, \E a \in Assets, n \in Names : Serve(r, a, n), Others(r)
    PROVE  Covered'
<1>1. Keeps(r)
  BY ConstantsAssumption
       DEF Begin, Available, Serve, IInv, TypeOK, Handling, RenderPC,
           Working, library, requests, history, bounds, Conversions, Conv,
           RefreshPC, Keeps, Handles, Clears, Excused
<1> QED
  BY <1>1, Keep

LEMMA ReplaceCovered ==
    ASSUME IInv, NEW r \in Requests, \E a \in Assets : Replace(r, a), Others(r)
    PROVE  Covered'
<1>1. Keeps(r)
  BY ConstantsAssumption
       DEF Begin, Replace, IInv, TypeOK, Handling, RenderPC, Working,
           library, requests, history, bounds, Conversions, Conv, RefreshPC,
           Keeps, Handles, Clears, Excused
<1> QED
  BY <1>1, Keep

LEMMA RegenerateCovered ==
    ASSUME IInv, NEW r \in Requests, \E a \in Assets : Regenerate(r, a), Others(r)
    PROVE  Covered'
<1>1. Keeps(r)
  BY ConstantsAssumption
       DEF Begin, Regenerate, IInv, TypeOK, Handling, RenderPC, Working,
           library, requests, history, bounds, Conversions, Conv, RefreshPC,
           Keeps, Handles, Clears, Excused
<1> QED
  BY <1>1, Keep

LEMMA PurgeCovered ==
    ASSUME IInv, NEW r \in Requests, Purge(r), Others(r)
    PROVE  Covered'
<1>1. Keeps(r)
  BY ConstantsAssumption
       DEF Conversions, Loop, Cached, Purge, IInv, TypeOK, Handling,
           RenderPC, Working, library, requests, history, bounds, Conv,
           RefreshPC, Keeps, Handles, Clears, Excused
<1> QED
  BY <1>1, Keep

(* What a render saves is right, or late.                                  *)
LEMMA SaveCovered ==
    ASSUME IInv, NEW r \in Requests, Save(r), Others(r)
    PROVE  Covered'
<1> DEFINE d == Conv(r)
<1>1. d \in Conversions /\ d[1] = rid[r]
  BY DEF IInv, Handling, Save, Working, RenderPC, RequestPC, RefreshPC, Conv, Conversions
<1>2. UNCHANGED <<row, file, cut>>
  BY DEF Save, library
<1>3. d \notin late' => d[1] \in row' /\ cache'[d] = file'[d[1]]
  BY <1>1, <1>2 DEF Save, IInv, TypeOK
<1>4. \A c \in Conversions : c # d => cache'[c] = cache[c] /\ (c \in late <=> c \in late')
  BY <1>1 DEF Save, IInv, TypeOK
<1>5. \A c \in Conversions : c # d => /\ Handles(r, c) => Handles(r, c)'
                                      /\ ~Clears(r, c)
  <2>1. CASE rpc[r] = "save"
    BY <2>1 DEF Handles, Clears, RefreshPC
  <2>2. CASE rpc[r] = "re_save"
    BY <2>2 DEF Save, Handles, Clears, RefreshPC, IInv, TypeOK
  <2> QED
    BY <2>1, <2>2 DEF Save
<1>6. GoneIsHandled'
  <2> SUFFICES ASSUME NEW c \in Conversions, c[1] \notin row', cache'[c] # 0, ~Excused(c)'
               PROVE  \E q \in Requests : Clears(q, c)'
    BY DEF GoneIsHandled
  <2>1. c # d
    BY <1>3 DEF Excused
  <2>2. PICK q \in Requests : Clears(q, c)
    BY <1>2, <1>4, <2>1 DEF IInv, Covered, GoneIsHandled, Excused
  <2>3. q # r
    BY <1>5, <2>1, <2>2
  <2> QED
    BY <2>2, <2>3 DEF Others, Clears
<1>7. WrongIsHandled'
  <2> SUFFICES ASSUME NEW c \in Conversions, Wrong(c)', ~Excused(c)'
               PROVE  \E q \in Requests : Handles(q, c)'
    BY DEF WrongIsHandled
  <2>1. c # d
    BY <1>3 DEF Excused, Wrong
  <2>2. PICK q \in Requests : Handles(q, c)
    BY <1>2, <1>4, <2>1 DEF IInv, Covered, WrongIsHandled, Excused, Wrong
  <2>3. CASE q = r
    BY <1>5, <2>1, <2>2, <2>3
  <2>4. CASE q # r
    BY <2>2, <2>4 DEF Others, Handles
  <2> QED
    BY <2>3, <2>4
<1> QED
  BY <1>6, <1>7 DEF Covered

(* New bytes make every entry of the asset wrong: the replacement will     *)
(* come to them.                                                           *)
LEMMA ReplaceSaveCovered ==
    ASSUME IInv, NEW r \in Requests, ReplaceSave(r), Others(r)
    PROVE  Covered'
<1>1. UNCHANGED <<row, cache, late, cut, rid>> /\ rid[r] \in Assets
  BY DEF ReplaceSave, Goto, history, IInv, Handling, Working, RequestPC
<1>2. \A c \in Conversions : c[1] # rid[r] => file'[c[1]] = file[c[1]]
  BY DEF ReplaceSave, IInv, TypeOK, Conversions
<1>3. rpc'[r] = "rp_row" /\ rpc[r] = "rp_save"
  BY DEF ReplaceSave, Goto, IInv, TypeOK
<1>4. GoneIsHandled'
  <2> SUFFICES ASSUME NEW c \in Conversions, c[1] \notin row, cache[c] # 0, ~Excused(c)
               PROVE  \E q \in Requests : Clears(q, c)'
    BY <1>1 DEF GoneIsHandled, Excused
  <2>1. PICK q \in Requests : Clears(q, c)
    BY DEF IInv, Covered, GoneIsHandled
  <2>2. q # r
    BY <1>3, <2>1 DEF Clears
  <2> QED
    BY <2>1, <2>2 DEF Others, Clears
<1>5. WrongIsHandled'
  <2> SUFFICES ASSUME NEW c \in Conversions, Wrong(c)', ~Excused(c)
               PROVE  \E q \in Requests : Handles(q, c)'
    BY <1>1 DEF WrongIsHandled, Excused
  <2>1. CASE c[1] = rid[r]
    BY <1>1, <1>3, <2>1 DEF Handles
  <2>2. CASE c[1] # rid[r]
    <3>1. PICK q \in Requests : Handles(q, c)
      BY <1>1, <1>2, <2>2 DEF IInv, Covered, WrongIsHandled, Wrong
    <3>2. q # r
      BY <2>2, <3>1 DEF Handles
    <3> QED
      BY <3>1, <3>2 DEF Others, Handles
  <2> QED
    BY <2>1, <2>2
<1> QED
  BY <1>4, <1>5 DEF Covered

(* A deletion takes over every entry of its asset.                         *)
LEMMA DeletionCovered ==
    ASSUME IInv, NEW r \in Requests, Others(r), NEW a \in Assets,
           rpc[r] \in {"idle", "dl_file"}, rpc[r] = "dl_file" => rid[r] = a,
           rpc'[r] \in {"dl_file", "in_list"}, rid'[r] = a,
           UNCHANGED <<cache, late, cut>>,
           \A b \in Assets : b # a => (b \in row' <=> b \in row) /\ file'[b] = file[b]
    PROVE  Covered'
<1>1. ASSUME NEW c \in Conversions, c[1] = a
      PROVE  Clears(r, c)' /\ Handles(r, c)'
  BY <1>1 DEF Clears, Handles
<1>2. ASSUME NEW c \in Conversions, c[1] # a, NEW q \in Requests
      PROVE  /\ Clears(q, c) => Clears(q, c)'
             /\ Handles(q, c) => Handles(q, c)'
  <2>1. CASE q = r
    BY <1>2, <2>1 DEF Clears, Handles, RefreshPC
  <2>2. CASE q # r
    BY <2>2 DEF Clears, Handles, Others
  <2> QED
    BY <2>1, <2>2
<1>3. ASSUME NEW c \in Conversions, c[1] # a
      PROVE  (c[1] \in row' <=> c[1] \in row) /\ file'[c[1]] = file[c[1]]
  BY <1>3 DEF Conversions
<1>4. GoneIsHandled'
  <2> SUFFICES ASSUME NEW c \in Conversions, c[1] \notin row', cache[c] # 0, ~Excused(c)
               PROVE  \E q \in Requests : Clears(q, c)'
    BY DEF GoneIsHandled, Excused
  <2>1. CASE c[1] # a
    BY <1>2, <1>3, <2>1 DEF IInv, Covered, GoneIsHandled
  <2> QED
    BY <1>1, <2>1
<1>5. WrongIsHandled'
  <2> SUFFICES ASSUME NEW c \in Conversions, Wrong(c)', ~Excused(c)
               PROVE  \E q \in Requests : Handles(q, c)'
    BY DEF WrongIsHandled, Excused
  <2>1. CASE c[1] # a
    BY <1>2, <1>3, <2>1 DEF IInv, Covered, WrongIsHandled, Wrong
  <2> QED
    BY <1>1, <2>1
<1> QED
  BY <1>4, <1>5 DEF Covered

LEMMA DeleteCovered ==
    ASSUME IInv, NEW r \in Requests, \E a \in Assets : Delete(r, a), Others(r)
    PROVE  Covered'
<1>1. PICK a \in Assets : Delete(r, a)
  OBVIOUS
<1>2. rpc[r] = "idle" /\ rpc'[r] = "dl_file" /\ rid'[r] = a
  BY <1>1 DEF Delete, Begin, IInv, TypeOK
<1>3. UNCHANGED <<cache, late, cut, file>> /\ row' = row \ {a}
  BY <1>1 DEF Delete, history
<1> QED
  BY <1>2, <1>3, DeletionCovered

LEMMA DeleteFileCovered ==
    ASSUME IInv, NEW r \in Requests, DeleteFile(r), Others(r)
    PROVE  Covered'
<1>1. rpc[r] = "dl_file" /\ rpc'[r] = "in_list" /\ rid'[r] = rid[r]
  BY DEF DeleteFile, Goto, IInv, TypeOK
<1>2. rid[r] \in Assets
  BY <1>1 DEF IInv, Handling, Working, RequestPC
<1>3. UNCHANGED <<cache, late, cut, row>>
  BY DEF DeleteFile, history
<1>4. \A b \in Assets : b # rid[r] => file'[b] = file[b]
  BY DEF DeleteFile, IInv, TypeOK
<1> QED
  BY <1>1, <1>2, <1>3, <1>4, DeletionCovered

(* A restart excuses what the requests had in hand.                        *)
LEMMA RestartIInv ==
    ASSUME IInv, Restart
    PROVE  IInv'
<1>1. TypeOK'
  BY ConstantsAssumption DEF Restart, IInv, TypeOK, library, RequestPC
<1>2. Handling'
  BY DEF Restart, Handling, Working, RenderPC
<1>3. UNCHANGED <<row, file, cache, late>> /\ cut \subseteq cut'
  BY DEF Restart, library
<1>4. ASSUME NEW c \in Conversions, NEW q \in Requests, Handles(q, c)
      PROVE  Excused(c)'
  <2>1. rpc[q] \in Mending /\ c[1] \in Assets
    BY <1>4 DEF Handles, Mending, RefreshPC, Conversions
  <2> QED
    BY <1>4, <2>1 DEF Restart, Handles, Excused
<1>5. \A c \in Conversions : Excused(c) => Excused(c)'
  BY <1>3 DEF Excused
<1>6. GoneIsHandled'
  BY <1>3, <1>4, <1>5 DEF IInv, Covered, GoneIsHandled, Clears, Handles
<1>7. WrongIsHandled'
  BY <1>3, <1>4, <1>5 DEF IInv, Covered, WrongIsHandled, Wrong
<1> QED
  BY <1>1, <1>2, <1>6, <1>7 DEF IInv, Covered

LEMMA StutterIInv ==
    ASSUME IInv, presets' \subseteq Presets,
           UNCHANGED <<library, cache, requests, history, bounds>>
    PROVE  IInv'
<1>1. TypeOK'
  BY DEF IInv, TypeOK, library, requests, history, bounds
<1>2. Handling'
  BY DEF IInv, Handling, Conv, requests
<1>3. Covered'
  BY DEF IInv, Covered, WrongIsHandled, GoneIsHandled, Wrong, Excused, Handles, Clears,
         library, requests, history
<1> QED
  BY <1>1, <1>2, <1>3 DEF IInv

LEMMA NextIInv == ConstantsAssumption /\ IInv /\ [Next]_vars => IInv'
<1> SUFFICES ASSUME ConstantsAssumption, IInv, [Next]_vars PROVE IInv'
  OBVIOUS
<1>1. ASSUME NEW r \in Requests, Server(r) \/ Arrive(r) PROVE IInv'
  <2>1. TypeOK' /\ Handling' /\ Others(r)
    BY <1>1, RequestType, RequestHandling, RequestOthers
  <2>2. Covered'
    BY <1>1, <2>1, SaveCovered, ReplaceSaveCovered, DeleteCovered, DeleteFileCovered,
       ServeMissCovered, ServeHitCovered, FetchCovered,
           FetchFailCovered, SaveFailCovered, ReplaceSaveFailCovered,
           ResolveCovered, ResolveFailCovered, RefreshListCovered,
           RefreshListFailCovered, RefreshEntryCovered, RefreshGoneCovered,
           RefreshEntryFailCovered, RefreshReopenCovered,
           RefreshDoneCovered, InvalidateListCovered,
           InvalidateEntryCovered, InvalidateDoneCovered,
           InvalidateFailCovered, PurgeEntryCovered, PurgeDoneCovered,
           ServeCovered, ReplaceCovered, RegenerateCovered, PurgeCovered
       DEF Server, Arrive, Render, Change, Refresh, Invalidate
  <2> QED
    BY <2>1, <2>2 DEF IInv
<1>2. CASE PresetEdit
  BY <1>2, StutterIInv DEF PresetEdit, PresetCreate, PresetRename, PresetDelete, IInv, TypeOK
<1>3. CASE Restart
  BY <1>3, RestartIInv
<1>4. CASE UNCHANGED vars
  BY <1>4, StutterIInv DEF vars, IInv, TypeOK
<1> QED
  BY <1>1, <1>2, <1>3, <1>4 DEF Next

-----------------------------------------------------------------------------

(* The strengthened invariant holds.                                       *)
THEOREM Invariance == Spec => []IInv
<1>1. Init => IInv
  BY ConstantsAssumption, InitIInv
<1>2. IInv /\ [Next]_vars => IInv'
  BY ConstantsAssumption, NextIInv
<1> QED
  BY <1>1, <1>2, PTL DEF Spec

(* The variables have their types.                                         *)
THEOREM TypeCorrect == Spec => []TypeOK
<1>1. IInv => TypeOK
  BY DEF IInv
<1> QED
  BY <1>1, Invariance, PTL

(* A wrong entry is in the hands of a handler, late, or was cut off.       *)
THEOREM StaleEntriesHandled == Spec => []WrongIsHandled
<1>1. IInv => WrongIsHandled
  BY DEF IInv, Covered
<1> QED
  BY <1>1, Invariance, PTL
=============================================================================
