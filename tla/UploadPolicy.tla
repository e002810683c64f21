----------------------------- MODULE UploadPolicy -----------------------------
(***************************************************************************)
(* Which files the library takes, and from whom.                           *)
(*                                                                         *)
(*   service/upload_policy.go     the library's settings and the token's   *)
(*   service/instance_service.go  SetUploadSettings                        *)
(*   service/jwt.go               the upload settings of a token           *)
(*   service/asset_service.go     StartUpload, spoolUpload, inspectUpload  *)
(*                                                                         *)
(* A file is first held against the largest limit, while its content is    *)
(* not known, and then against the limit of its type.  A type and a        *)
(* pattern are pairs; case and blanks are left out.                        *)
(***************************************************************************)
EXTENDS Integers, Sequences, FiniteSetsExt

CONSTANTS
    Mimes,    \* types of files: <<"image", "png">>
    Sizes,    \* sizes of files and limits, above zero
    Rules,    \* allow-lists of the library: sets of patterns
    Limits,   \* its limits: [Categories -> Sizes \cup {0}], 0 is no limit
    Tokens    \* upload settings of the tokens: sequences

VARIABLES
    rules, limits,   \* what the library has
    settings         \* what the token of the request says

policy == <<rules, limits, settings>>

Categories == {"image", "audio", "video", "pdf"}

Anything == <<"*", "*">>

Category(p) == IF p = <<"application", "pdf">> THEN "pdf" ELSE p[1]

\* normalizeUploadSetting refuses types of another format.
SettingType(s) ==
    /\ s \in [format : Categories \cup {"*"}, types : SUBSET (STRING \X STRING), max : Nat]
    /\ \A p \in s.types : s.format = "*" \/ p = Anything \/ Category(p) = s.format

ASSUME PolicyAssumption ==
    /\ Sizes \subseteq Nat /\ Limits \subseteq [Categories -> Sizes \cup {0}]
    /\ \A t \in Tokens : /\ DOMAIN t = 1 .. Len(t) /\ Len(t) \in Nat
                         /\ \A i \in DOMAIN t : SettingType(t[i])

PolicyTypeOK ==
    /\ rules \in Rules /\ limits \in Limits
    /\ limits \in [Categories -> Sizes \cup {0}]
    /\ settings \in Tokens
    /\ \A i \in DOMAIN settings : SettingType(settings[i])

PolicyInit == rules \in Rules /\ limits \in Limits /\ settings \in Tokens

SetUploadSettings ==
    /\ rules' \in Rules /\ limits' \in Limits
    /\ UNCHANGED settings

\* The next request has a token of its own.
AskPolicy == settings' \in Tokens /\ UNCHANGED <<rules, limits>>

PolicyNext == SetUploadSettings \/ AskPolicy

PolicySpec == PolicyInit /\ [][PolicyNext]_policy

-----------------------------------------------------------------------------
(* Types.                                                                  *)

\* An exact type, all of a kind, or everything.
Permits(p, mime) == p = Anything \/ p = mime \/ p = <<mime[1], "*">>

Intersect(p, q) == Anything \in {p, q} \/ Permits(p, q) \/ Permits(q, p)

SettingPatterns(s) ==
    IF s.types # {} THEN s.types
    ELSE CASE s.format = "pdf" -> {<<"application", "pdf">>}
           [] s.format = "*"   -> {Anything}
           [] OTHER            -> {<<s.format, "*">>}

\* The library's own patterns are kept, whole.
Allowed ==
    IF settings = <<>> THEN rules
    ELSE {p \in rules : \E i \in DOMAIN settings :
                           \E q \in SettingPatterns(settings[i]) : Intersect(p, q)}

-----------------------------------------------------------------------------
(* Limits.                                                                 *)

\* Slip: no limit counts as the lowest one.
LowerOfTwo(base, token) == IF token < base THEN token ELSE base

Lower(base, token) ==
    IF token = 0 THEN base
    ELSE IF base = 0 \/ token < base THEN token ELSE base

\* Categories of its types, of its format when they have none, or all.
SettingCategories(s) ==
    LET named == {Category(p) : p \in s.types} \cap Categories
    IN  IF Anything \in s.types THEN Categories
        ELSE IF named # {} THEN named
        ELSE IF s.format \in Categories THEN {s.format}
        ELSE Categories

\* What the first settings have left of each limit.
TokenLimits[n \in 0 .. Len(settings)] ==
    IF n = 0 THEN [c \in Categories |-> 0]
    ELSE [c \in Categories |->
            IF c \in SettingCategories(settings[n])
            THEN Lower(TokenLimits[n - 1][c], settings[n].max)
            ELSE TokenLimits[n - 1][c]]

TokenLimit(c) == TokenLimits[Len(settings)][c]

Narrowed == [c \in Categories |-> Lower(limits[c], TokenLimit(c))]

\* Types of no category have no limit of their own.
LimitFor(mime) ==
    IF Category(mime) \in Categories THEN Narrowed[Category(mime)] ELSE 0

StreamLimit == Max({Narrowed[c] : c \in Categories})

Within(size, limit) == limit = 0 \/ size <= limit

\* StartUpload and spoolUpload, then inspectUpload.
Accepted(mime, size) ==
    /\ Within(size, StreamLimit)
    /\ \E p \in Allowed : Permits(p, mime)
    /\ Within(size, LimitFor(mime))

-----------------------------------------------------------------------------

\* The library takes the file from someone without a token.
Admitted(mime, size) ==
    /\ \E p \in rules : Permits(p, mime)
    /\ Category(mime) \in Categories => Within(size, limits[Category(mime)])

\* A type that one of the token's settings covers.
Covers(s, mime) == \E q \in SettingPatterns(s) : Permits(q, mime)

\* "A token can make uploads stricter, never broader" (CONSUMING.md:347), in
\* whichever order its settings come: what is accepted the library would take
\* without the token, and is not above a limit that the token states for its
\* kind; a file of a type that both name, within every limit of both, is
\* accepted.
PolicyNarrows ==
    \A mime \in Mimes, size \in Sizes :
       LET kind == Category(mime)
           stated == {i \in DOMAIN settings : kind \in SettingCategories(settings[i])}
           obeyed == \A i \in stated : Within(size, settings[i].max)
       IN  /\ Accepted(mime, size) => Admitted(mime, size) /\ (stated # {} => obeyed)
           /\ \/ Accepted(mime, size) \/ ~ Admitted(mime, size) \/ ~ obeyed
              \/ ~ Within(size, StreamLimit)
              \/ settings # <<>> /\ \A i \in DOMAIN settings : ~ Covers(settings[i], mime)

\* "Request bodies are capped with it before their content type is known; the
\* category-specific limit is enforced once the type is sniffed"
\* (upload_policy.go:59): the first limit refuses nothing that the limit of
\* its category allows.
StreamAdmits ==
    \A mime \in Mimes, size \in Sizes :
       Category(mime) \in Categories /\ Within(size, LimitFor(mime)) =>
          Within(size, StreamLimit)
=============================================================================
