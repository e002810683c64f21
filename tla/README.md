# Verification of godam

TLA+ models of the parts of godam whose correctness depends on order: what requests, the
background worker, clients that stall, and restarts can do to one another. TLC checks the
models on small instances; TLAPS proves the central invariants for every value of the
constants. `PROJECT.json` lists components, runs, mutants, the source lines behind every
definition, findings, hazards and theorems.

## 1. The system

godam is a digital-asset manager: one Go process with an SQLite database (one connection,
`store/open.go`), a local directory for originals and an SFTP server for their copies, a
directory of rendered conversions in front of imgproxy, a staging directory for uploads, and a
Vue frontend that is a client of the same JSON API. HTTP handlers run concurrently with each
other, with one backup worker and with a color backfill at start-up. There is no lock around an
asset: what holds between a row, its file and what is derived from it holds because of the order
in which handlers touch them.

| Component | State | Operations | What makes it correct | Hard parts |
|---|---|---|---|---|
| Backup queue and worker (`service/backup_service.go`) | `storage_jobs` (one row per asset), `asset_replicas`, the destination, the worker's batch | enqueue put/delete, BackupNow, settings, reconcile, processJobs, failJob | a replica marked synced has the current bytes, or work is coming; deleted assets lose their copy | a job row replaced while the worker runs the old one, failures at every statement, backups turned off and on, crashes |
| Backup settings and destinations (`backup_service.go`, `storage/sftp.go`) | one row, a connection that is kept | save settings, connect, Save, Delete, Close | the kept connection is to the saved destination; a remote key holds a complete file | settings saved while a job connects or copies, lost answers, the rename fallback |
| Upload sessions (`service/upload_session.go`) | the session map and its mutex, one mutex per session, staging files | create, chunk, complete, cancel, prune, spool | an asset has exactly the bytes announced; a session yields one asset at most; no file leaks | two levels of locks, a lock held while a client sends, time, restarts |
| Asset lifecycle (`service/asset_service.go`) | rows, files, colors | upload, replace, regenerate, delete, backfill | row, file, colors and queue agree | each step can fail alone; a client that leaves cancels SQL but not file operations |
| Visual assets (`service/preview_asset.go`) | rows `image_of` a parent (no foreign key) and their files | lookup (lazy generation), refresh, delete with the parent | one visual per parent, of its content, gone with it | concurrent generations, a parent deleted or changed meanwhile |
| Conversions (`service/conversion.go`, `storage/conversion.go`) | rendered files per asset and preset | serve a miss, warm, refresh, invalidate, purge | a cached conversion shows the current bytes | a render that started before a replacement is saved after it |
| Presets (`service/preset_service.go`) | rows with unique names | CRUD | unique names | conversions cached under a name that is given away |
| Attributes (`service/asset_service.go`, `store/attribute*.go`) | values per asset and visual, rows per key and value | set, add, bulk, new values and keys, stamps on uploads, copies on visuals, settings, deletions | locked keys take no new value; single-valued keys have one | rules are read in other statements than those that write |
| Attribute hierarchy | a parent per key | SetAttributeParent, deletion of keys | no cycle | two changes at once |
| Listing | - | pages with filters, sorting and cursors | a row that stays is listed once | ties, rows that come, go and move between pages |
| Tokens and scopes (`service/jwt.go`, `domain/scope.go`) | - | applied in four places | listings, access by id, facets, trees and statistics agree | enforced, active and missing keys, wildcards |
| Upload policy (`service/upload_policy.go`) | the library's allow-list and limits | narrow by a token, limit before and after the type is known | a token narrows and never widens | zero is no limit, wildcards, several settings |
| Instance settings (`service/instance_service.go`) | one row, two references to assets | update | references point to assets | an asset deleted between check and update |
| Archives, metrics, parsing of media, imgproxy URLs, frontend | - | - | - | section 8 |

They interact through the database (foreign keys with cascades from `assets` to
`asset_replicas` and `asset_attributes`; none from `storage_jobs`, `image_of` or the instance's
references), through files (a key is overwritten in place by a rename; an open file outlives
its name), through direct calls (a stored, replaced or deleted asset calls `EnqueueAsset` /
`EnqueueDelete` and refreshes its visual; a complete session calls `storeUploadFile`), and
through request contexts: when a client goes away the next SQL statement of its handler fails,
while file operations go on.

## 2. Modules

| Module | Models | Extends / instances |
|---|---|---|
| `BackupReplication` | the backup queue, its worker, reconciliation, and the asset handlers that queue work | - |
| `BackupDriver` | the settings of the destination and the connection the worker keeps | - |
| `Transfer` | abstract: what a resumable upload promises | - |
| `UploadSession` | sessions, their two levels of mutexes, staging files, spooled uploads; implements `Transfer` | instances `Transfer` with `status <- Status` |
| `ConversionCache` | rendered conversions, the handlers that fill, refresh and clear them, presets | - |
| `AssetLifecycle` | an original, its colors, its visual and the instance's cover, statement by statement | - |
| `AttributeCatalog` | assignments, vocabulary, rules of keys, stamps and copies | - |
| `AttributeHierarchy` | parents of keys, set by requests that overlap | - |
| `AssetListing` | a client that reads a changing listing page by page | - |
| `LibraryViews` | listings, access by id, facets, catalog, trees and statistics for every kind of token | - |
| `UploadPolicy` | the library's and the token's rules combined | - |
| `...Proofs` (seven) | the inductive invariants and theorems of `BackupReplication`, `BackupDriver`, `UploadSession`, `ConversionCache`, `AssetLifecycle`, `AttributeCatalog`, `AttributeHierarchy` | the module, TLAPS |
| `LibraryProofs` | the theorems of `AssetListing`, `LibraryViews`, `UploadPolicy` and of the five parts together | `MCLibrary`, `AttributeHierarchyProofs`, `BackupDriverProofs`, TLAPS |
| `MC...` | constants and symmetry for TLC; `MCLibrary` puts five modules side by side | the modules above |

Common conventions. An action is what happens between two accesses to state that another
goroutine can see: one SQL statement or transaction (SQLite has one connection, so statements
are serialized), one file operation, one critical section. A handler is a program counter in
`rpc[r]` and a few locals, named after what the request does next (`rp_save` is about to save
a replacement, `dl_row` to delete a row). Reads that follow each other with nothing in between
that could change the outcome are one action. Bytes are a version number or a content, except
in `UploadSession`, where positions matter. Failures are actions named `...Fail`, guarded by
`Fault` (bounded by `MaxFaults`), or a second disjunct of the statement that can fail; restarts
are bounded by `MaxStops`. Operators marked `Slip:` are wrong variants of the definition below
them, taken from bugs that would be easy to make; `PROJECT.json` says which property each of
them violates. They are in no behaviour.

History. Where the code leaves a race open, a property says what holds outside of it and a
history variable says exactly what the race is: `dropped`, `late`, `cut`, `raced`, `missed`,
`closed`, `excused`. They are set by the step that makes the promise void and cleared by the
one that makes it good again, never by a look at the state the property is about.

### BackupReplication

`jobs` is `storage_jobs` (a set of rows; `due` stands for `run_after`), `replica` is
`asset_replicas.status`, `remote` the version at the destination, `file`/`onDisk` the original,
`row` the asset row. Requests: upload (`up_*`: file, row, attributes, queue), replace (`rp_*`),
delete (`dl_*`: settings, queue, row, file), `BackupNow` (`bn_*`), `SetSettings`. The worker
(`wpc`) scans for assets to reconcile, reads due jobs into `batch` (copies, not rows), and
processes one at a time: settings, row of the asset, open, copy, mark, finish; or remove the
copy and the replica row; each of them can fail into `failJob`, which moves `run_after`. That
the worker compares ids when it finishes, but works on a copy of the row, is the heart of the
model. Every statement of a request can fail as well: most failures end it (`StatementFails`;
a client that leaves is `Disconnect`), but `Delete` ignores the error of `EnqueueDelete` and goes
on to remove the row with nothing queued (the second disjuncts of `DeleteSettings` and
`DeleteEnqueue`). `dropped` is history: work that was thrown away (backups were off, a deletion
could not be queued or a put took its place, a replacement failed or its client left between the
save and the queueing, the removal of a replica row failed).

### UploadSession

`open` is the manager's map, `mmu`/`smu` the mutexes and who holds them, `used`, `size`,
`received`, `done` the session objects, which outlive their entry in the map because requests
hold pointers to them. `part`, `len`, `bytes` are the staging files: `bytes[i]` is the set of
positions that hold the byte the client has there, so a repeated, overlapping or truncated
chunk is visible. `stale` and `old` are what a day without activity does to a session and to a
file; `Age` may make any upload old at any time but during a create. `Requests` have an
actor, so a request by another actor finds nothing. `Transfer` is the contract: bytes are
taken until the transfer is sealed, and it becomes one asset at most, when all were taken.

### ConversionCache

`cache[<<a, n>>]` is the version that the file `{asset}/{name}.{format}` shows, 0 without a
file. `Serve` is `/img`, the preview route and warming, which all end in `convert`: rows, cache,
imgproxy (`Fetch`: godam's own `/internal/source` opens the original), rename (`Save`). A
replacement saves the original, updates the row, then lists and renders again what is cached
(`re_*`); an entry whose preset is gone is removed; any other error makes
`refreshAssetConversions` invalidate everything. A deletion removes row, file, then entries.
The proxy in front of godam reads the files directly, so the invariants are about files and
not about answers. `late` and `cut` are history: entries whose last save came from a render
that crossed a change, and assets for which a handler was cut short.

### BackupDriver

`saved` is the row of the settings, `driver` the configuration of the driver that is kept,
`using` what the worker has read or works with, `client` whether that driver has a connection.
A request merges its settings with the row it read (`SetSettings`), writes the whole row
(`Save`) and takes the driver away (`InvalidateDriver`), whether a job uses it or not. `missed`
is history: an invalidation came between the worker's reading the settings and its keeping the
driver it made of them. `Restart` is also what a job that lost its client ends in (section 9).

### AssetLifecycle

`file`, `row` and `colors` name the content that the original's file, row and colors are of;
`vof`, `vext`, `vfile` are the visuals' rows (`image_of`, the extension of the key) and files.
Upload (`up_*`), replacement and regeneration (`rp_save`, `rg_read`, `row`, `colors`, `get`),
lazy generation (`lk_*`), what `upsertVisualAsset` does (`v_*`), deletion (`dl_*`) and the
instance's reference (`sc_update`) are one statement or file operation per step, each of which
can fail; what a failure undoes and what it leaves is in the step. `BackfillOpen` and
`BackfillSave` are the goroutine that fills in colors at the start. `excused[p]` are the assets
for which an overlap or a failure has voided promise `p`; a replacement or a regeneration that
runs alone takes its asset out of `excused["stale"]` again (`Enter`). The cover can name an
original or a visual: `setAssetRef` counts rows of `assets`, whatever their role (`Exists`).
Deleting an original clears the reference to it, deleting a visual's row does not.

### AttributeCatalog

`attrs` and `shown` are the rows of `asset_attributes` of originals and of their visuals;
`keyed`, `valued`, `locked`, `single` are `attributes_metadata`. A request reads the metadata of
a key (`ReadMetadata`), what is in use (`Allowed`, `Exists`), is refused or goes on (`Refuse`,
`Validated`, `StartValues`, `NewKey`, `Stampable`), and writes in a later statement or
transaction. Settings are upserts: each can create the row it does not find. `closed[k]` is what
a locked key may hold: what it held when it was locked, what checked requests were about to
write then (`Pending`), and what an administrator describes later. `excused` are assets that may
hold several values of a single key.

### AttributeHierarchy, AssetListing

`asking` is the set of requests inside `SetAttributeParent` with the parents they have read; the
walk of the code is `Walk`: there is a set of keys without the key itself that holds the new
parent, is closed upwards and has no cycle. `late` marks a request that others have overtaken,
`raced` that such a one has stored a parent. In `AssetListing` a page is any first part of
`Rest(cursor)`, rows are numbers in the order of their ids, and `moved` are the rows that changed
since the client began; `Put` and `Remove` are every upload, edit or deletion that brings a row
into the filter, moves it or takes it out.

### LibraryViews, UploadPolicy

The library and the settings stand still, and the next request brings any actor. `Visible` is
the check by id (and the SQL of the aggregates), `Filter` the one of listings, `FacetKey`,
`KeyVisible`, `CatalogValues`, `Nodes` those of facets, catalog and trees: four translations of
the token that were written apart and have to agree. `UploadPolicy` has the token's settings in
their order, because `narrowUploadLimits` folds over them.

## 3. Runs

| Run | Instance | Distinct states | Shows |
|---|---|---|---|
| `backup` | 1 asset, 1 request, 2 versions, 2 job ids, 1 toggle, 1 fault, 1 stop | 0.20 M | `SyncedIsCurrent`, `OrphanHasDelete`, the inductive `IInv`, `RemoteNeverRegresses`; under fairness `ReplacementsAreCopied`, `ReconcileRepairs`, `DeletionsAreMirrored` |
| `backup_orphan` | 1 asset, 2 requests, no faults | violation | a deleted asset keeps its remote copy |
| `upload` | 1 session of 0 or 2 bytes, chunks of 1, 1 spooled upload, 2 requests, 1 failing truncation, 1 restart | 0.50 M | the inductive `IInv`, `StoredIsWhole`, `NoStagingLeak`, `ImplementsTransfer` |
| `upload_live` | 2 sessions of 1 byte, 2 requests | 0.12 M | `LiveSessionHasFile`, the leak property and the refinement when a create prunes another session; `RequestsEnd`: no deadlock between `m.mu` and the sessions' mutexes |
| `upload_prune` | 2 sessions, 2 requests | violation | pruning takes the file of an upload about to be stored |
| `conversions` | 1 asset, 2 presets, 2 requests, 2 replacements, 1 fault | 1.1 M | `WrongIsHandled` |
| `conversions_live` | 1 asset, 1 preset, 2 requests, 2 replacements, 1 fault, 1 restart | 0.2 M | `WrongIsMended` |
| `conversions_stale` | 1 asset, 1 preview, 2 requests, 1 replacement, no fault | violation | an old render stays in the cache |
| `attributes` | 1 asset, 1 key, 2 values, 2 requests, 2 questions, 1 setting | 0.9 M | `LockedVocabulary`, `SingleValued` |
| `visuals` | 1 asset, 2 visuals, a video, a sound, an image, 2 requests, 3 questions | 2.4 M | `OneVisual`, `NothingLeft`, `CoverExists`, `DerivedAgrees` |
| `library` | five parts, one moving at a time (below) | 0.7 M | `Acyclic`, `PagesPartition`, `ListingsAreVisible`, `CountsAreListings`, `TreesEnd`, `TokensNarrow`, `DriverIsSaved`, `EnabledIsUsable` |
| `policy_stream` | the policy without a token | violation | the limit before the type is known refuses what the type allows |

`library` puts five modules with small state next to each other. `part` says which one moves;
the others rest in one fixed state, so states add up and do not multiply. Instances: listings
of 3 rows with 2 values, descending (the theorem covers both directions, every number of rows and values); 3 keys and 2 requests
for the hierarchy; for the views 2 assets of different types, 3 keys, 2 values, 7 actors chosen
to cover each combination of enforced, active, missing, wildcard and empty claims, and 4
catalogs, one of them with a cycle of parents; 4 allow-lists, 36 combinations of limits and all
tokens of one setting, and pairs in both orders; 2 places and 1 password, 2 requests for the
driver. `CONSTRAINT Unraced` stops at states of the hierarchy in which `Acyclic` says nothing.

Why the bounds are enough. Assets, sessions and conversions of different assets touch nothing
in common but the worker, the manager's mutex and the bounds, so one or two of each meet every
interaction. Two requests are needed for a race; in `backup` the worker and the administrator's
toggles are the other parties. Races between two requests, and a batch that holds copies of two
jobs, are not in that run; the theorems of section 6 cover its safety properties for every
number of assets and requests. Two versions (or two replacements)
let an old and a new content overlap twice. Two bytes with chunks of one give a first, a last, a
repeated and a surplus byte; `upload` has them, with one session, a spooled upload, a failing
truncation and a restart. What takes two sessions, a create that meets the session of another request with `m.mu`
held, while that session is being written to, detached or stored, is in `upload_live`, with one
byte per session and no failures but those of bodies and stores. The theorems cover all of it
together but for `RequestsEnd`. Three kinds of content let an asset change its type there and back,
and the extension of its visual's key with it. Two values and one key are what a lock and a
single-valued key tell apart. `attributes` starts from every library of the following kind
(`SmallInit`), so that one change of a rule meets all of them: a visual has no attributes or its
asset's, at most one value of a key is described and not used, and a key is locked or
single-valued or neither. One fault, and where a run has one, one stop, can fall at every step;
restarts of the conversions are in `conversions_live` and in the theorem, not in `conversions`. Symmetry is over requests, sessions and values, and only in runs without liveness.
A deadlock check is on in every run; in the two upload runs it also means that no mutex is ever
left locked with everybody waiting for it.

## 4. Fairness

- Handlers and the worker: weak fairness of their next step. Nothing in the code makes them
  wait for one another except the mutexes of `UploadSession`, where it is strong fairness of a
  request's step, because Go's mutex hands over to a waiter that has starved for a millisecond.
- The worker's idle choices (`ProcessJobs`, `ReconcileSettings`): strong, because `select` picks
  at random among ready tickers and a ticker keeps one tick.
- The backoff of a job ends: the clock moves.
- `UploadSession`: request bodies end. The server sets no read timeout, so this is assumed of
  clients; the hazard list says what happens otherwise.
- `ConversionCache`: imgproxy's client has a timeout of 30 s, so a render ends one way or other.
- Never assumed: that a client sends anything, that a call succeeds, that nobody toggles the
  settings (`ReplacementsAreCopied` and its like say `<>[]enabled =>`).

The other modules promise nothing about time: nothing in their code is retried or waited for.

## 5. Findings

Each is a run that must end in a violation; `PROJECT.json` has the quotes.

1. `backup_orphan`: `Delete` queues the remote deletion before it deletes the row, and a put
   queued in between replaces it. "Deletes remove the remote copy" does not hold then.
2. `upload_prune`: "orphan staging files" are recognised by age alone; a detached session that
   has not been opened for storing yet, or a spooled upload, loses its file.
3. `conversions_stale`: a miss that fetched the old original saves it after the refresh; the old
   picture stays cached with nothing left to correct it.
4. `policy_stream`: a category without a limit counts as zero in the largest limit, so files of
   it are refused above the limit of another category, before their type is known. Theorem
   `StreamAdmitsAlike` says that this is the only way it happens: where every category has a
   limit, or none has, nothing that the type allows is refused.

## 6. Proofs

TLAPS checks eight proof modules to the last leaf, for arbitrary sets of assets, requests, jobs,
sessions, names, keys, rows, places, contents, tokens and for every bound. The only assumptions
are those the modules state about their constants, which TLC evaluates in the runs: `None` is
not one of the things it stands for the absence of, bounds are natural numbers, rows, values and
the ids of visuals are numbers; in `LibraryViews`, a library has finitely many keys and a token
one claim per key (the code keeps them in a map); in `UploadPolicy`, the settings of a token are
a sequence of them. Every invariant, action property and refinement that a passing run checks is
a theorem here.

**Backup.** `SyncedIsCurrent` (a stale copy marked synced has work coming) is not inductive: a
worker that finishes an old job must not be the last to know. Both it and `OrphanHasDelete` except
the assets in `dropped`, and the proof shows that nothing outside those steps leaves a stale or an
orphan copy without work. `IInv` adds what the worker knows
of the job it holds a copy of (`HeldOK`: the row it copied was not turned into another action;
`CopyOK`: while a put is past `open`, what it copies is the current version or is `Overtaken`,
i.e. another job, a replacement about to queue one, or history), and what a deletion between its
steps may rely on (`DeleteOK`). Theorems `TypeCorrect`, `SyncedCurrent`, `OrphansHaveDelete`
follow, and `NoRegression` proves the action property from `CopyOK`.

**Driver.** `DriverIsSaved` becomes inductive with `MadeFromSaved`: while the worker dials, none
is kept, and what it dials is the saved configuration, or a change is on its way, or was missed.
`Validated` carries `EnabledIsUsable` through requests that merge with rows that are gone.

**Uploads.** `IInv` ties every program counter to the mutex its request holds, to the state of
its session and to its file: who holds `smu` is the only one to change `len`, `bytes` and
`received`; a detached session has one owner; what was received is in the file, without gaps.
From it come `WholeAssets`, `LiveFiles`, `NoLeak`, and `Refinement`: `Init` maps to
`Transfer`'s, and `StepRefines` shows every step to be a step of `Transfer` or a stutter.

**Conversions.** `WrongIsHandled` is not inductive either: a replacement whose asset was deleted
meanwhile gives up without refreshing or invalidating. `GoneIsHandled` says that the entries of
a deleted asset are covered by its deletion, not by that replacement. Lemma `Keep` reduces
most steps to what the moving request was to come to; saves, new originals, deletions and
restarts have lemmas of their own. Theorems `TypeCorrect`, `StaleEntriesHandled`.

**Hierarchy.** A cycle is a set of keys each of whose parents is in the set; this form needs no
induction along a path. `Walked` keeps what a request has walked, `Read` that parents only went
away since. Lemma `NewParent` is the heart: adding the parent to what is left of the walked
parents makes no cycle. Theorem `HierarchyAcyclic`.

**Listing.** `UpToCursor`: between two pages, the rows that did not move have been listed if and
only if they are not in the rest after the cursor. Lemmas show that the order of keys is strict
and total, and (`PageEnds`) that a page ends where its cursor says. Theorem `EachRowOnce`.

**Attributes.** `LockedVocabulary` and `SingleValued` speak of what is stored, and a request
writes what it read and checked some statements earlier. `IInv` therefore says of every request
in flight that what it may still write obeys the rules as much as what is stored: its values of
a locked key are in `closed`, or it will be refused (`WritesClosed`); what it asks for, with what
its asset has, is one value of a single key, or the asset is `excused` (`WritesSingle`). That
this survives a change of a rule between check and write is the point of `Pending`, which the
step that locks a key adds to `closed`. Theorems `CatalogTypes`, `LockedKeysHold`,
`SingleKeysHold`.

**Lifecycle.** `IInv` has four parts. *Who owns what*: a request that is
about to write or remove a visual works on the asset the visual is of (`Own`), so a step touches
one asset only (`Frame`) and each action is proved for that asset. *What may be left*: a file, a visual or a color of an asset
that is gone is one that a request still in flight removes or clears, or that an overlap or a
failure has excused (`Left`, `Brings`, `Removes`, `Clears`). *What is alone*: a request that has
run without another on its asset knows that what it has derived so far is of the content it
stored (`Alone`, `Quiet`, `Progress`). *The cover*: a reference that was checked, and is not
excused, is to a row, of an original or of a visual. It is inductive for reasons a reader of the code should know: a row that
went never comes back; every step that fails puts its asset in `excused["stale"]`; and only
`Enter` takes it out, when nobody else works on the asset, of a job that then renews row, colors
and visual itself. Theorems `LifecycleTypes`, `OneVisualHolds`, `DeletionIsComplete`,
`CoverHolds`, `DerivatesAgree`.

**Library.** The invariant of the five parts is the conjunction of those of the parts that move
(`LibraryInv`: `HierarchyInv`, `DriverInv`, the one of the listing) and the types of those that
answer questions. What the answers promise are lemmas about one state. For listings and numbers:
the condition a listing puts on a key is the one that access by id checks (`FilterOfKey`,
`MatchesIsVisible`, `VisibleMatches`), and what is under a value in a tree is what a listing with
that value selects (`SelectedIsUnder`, `UnderIsSelected`); theorems `ListedCanBeOpened` and
`CountsAreOfListings`. `TreesAlwaysEnd`: a node of a tree is a path of distinct keys
(`NodesArePaths`), and a path longer than the number of keys would repeat one, so that the tree
has ended at that depth for catalogs with cycles too. `TokensOnlyNarrow`: the fold over a token's
settings yields a limit that is below those of all the settings and is one of them
(`TokenLimitIsLowest`), hence below the library's. Two of these need an induction. The library's
induction theorems take a predicate as a parameter, which the provers cannot instantiate; the
proofs use sets of numbers in place of predicates (`NumbersInduction`, from the least element of
a set, `SmallestNumber`). Lemma `StepsHaveSolution` says that a recursive function that is
defined step by step exists, from which the equations of `Nodes` and `TokenLimits` follow.

**Only model-checked.** The liveness properties (`ReplacementsAreCopied`, `ReconcileRepairs`,
`DeletionsAreMirrored`, `RequestsEnd`, `WrongIsMended`): fairness and `ENABLED` are out of the
prover's reach.

## 7. Hazards

`PROJECT.json` lists 40, each at its line. Four have no property: `BackupNow` stops at the first
asset it fails to queue (only a refresh of copies that are already synced is lost); a client that
stalls in a chunk holds up every upload, and no timeout ends it; saving the settings during a
copy takes the client away under it; the names of archive entries.

## 8. Not modelled, and why

- **Backup**: the limit of ten jobs and the order by `run_after`, the length of the backoff, the
  times and errors of `Status`, and the SSH handshake. After a change of the destination the
  replica rows still say "synced" for copies at the old one; the code says nothing about it, so
  no property does.
- **Uploads**: an unlimited stream limit (0), the check of types after assembly except as a
  store that fails; a create is assumed not to take 24 hours; the instant between a write to a
  file and the update of `LastActivity`.
- **Conversions**: derived visuals as sources (all assets of that model are images), edits of a
  preset's options (DELIVERY.md lists stale conversions after them as a known limitation),
  signature keys that change, browser caching.
- **Assets**: edits of titles, notes and names: one statement on one row. Requests that replace,
  regenerate or delete a visual under its own id, which the handlers accept (section 9).
- **Listings**: full-text, color and date filters are conditions of one row each. The views stand
  still while they are looked at: each number is one statement, and several of them in one
  answer are not promised to be of one moment.
- **Tokens**: signatures, keys, expiry. A request without a capability is a refused one.
- **Instance settings**: names, colors and delivery defaults, on which nothing else depends.
- **Archives**: a stream without state; the names of entries are a matter of characters.
- **System metrics**: queries behind a cache of 30 seconds; nothing is changed by them.
- **Metadata, probing, color arithmetic, the table of color terms, imgproxy URLs and options**:
  parsing and formatting without state.
- **Frontend**: a client; the chunk loop of `lib/upload.ts` is one of the clients the requests
  of `UploadSession` stand for.
- **Migrations, configuration, routing**: run before, or without, shared state.

## 9. Observations

Met while modelling; each is in a model as the code has it, and none of them is a run.

- `storage/sftp.go:208`: `Close` sets `client` to nil under `s.mu`, which `Save` and `Delete` do
  not hold after `ensureConnection`. Settings saved during a copy break it, and the removal of the
  temporary file that follows calls a nil client: the process ends (`BackupDriver`).
- A chunk of `UploadChunkSize + 1` bytes is accepted (`api/assets.go:771`), beside the comment of
  `service/upload_session.go:15` (`UploadSession`).
- DELIVERY.md:30 says that the id of a visual stays stable; an asset that becomes an image loses
  its visual, and gets another id when it becomes a video again (`AssetLifecycle`).
- `service/preview_asset.go:198` says that lookups "heal themselves": one whose copy of the
  attributes fails leaves a row without a file, which later lookups find and do not mend.
- `service/asset_service.go:2472`: the error of `EnqueueDelete` is ignored, so a deletion whose
  settings cannot be read, or whose transaction fails, removes the asset and leaves its copy for
  ever (`BackupReplication`; `OrphanHasDelete` and `DeletionsAreMirrored` except it). And a
  replacement whose statements fail, or whose client leaves, after the file was saved
  (`service/asset_service.go:2317`) leaves a copy of the old content that is marked synced.
- `service/asset_service.go:2483`: "A deleted asset can no longer back the instance cover or
  watermark" is not so for a visual: `setAssetRef` (`service/instance_service.go:181`) takes its
  id, and `deleteVisualAsset` (`service/preview_asset.go:141`) removes its row, with its original
  or when that becomes an image, and clears no reference (`AssetLifecycle`; `CoverExists` excepts
  it).
- The handlers that replace, regenerate and delete take the id of a visual too. One that was
  replaced under its own id shows that content until its original is next refreshed; made a video
  it gets a visual of its own, which the deletion of the original does not reach. Not modelled.
- A failed upload takes back its row and file, and not the visual or the cover that others have
  made of it in between.
- A lazily generated visual gets no attributes, because the asset was loaded without them, beside
  the "visual-asset sync" of AttributeTODO.md:24 (`AttributeCatalog`).
- CONSUMING.md:247: a lock blocks new values "on every path", but not those of a request that
  was checked before; a key that becomes single keeps the assets that have several values.
- `domain/scope.go:24` and `normalizeFilterName` in `service/jwt.go` list filter names differently.
- A grant of an attribute without values, or with the wildcard, is dropped by `toDomain`; enforced
  values that contain the sentinel for "unassigned" are honoured by listings, but not by access by
  id, facets and statistics (`Plain` in `LibraryViews`).
- The value "unassigned" of a key that no visible asset uses is shown with the number 0, and for a
  token that may edit keys it does not grant, numbers and listings differ (`CountsMatchListing`
  leaves both out).
- CONSUMING.md:344 says that `max_bytes` overrides the library's limit; it only lowers it. And
  CONSUMING.md:342 says that `mime_types` restricts the types; where the library has a wider
  pattern (`image/*` against `image/png`), the wider one is kept (`UploadPolicy`).

## 10. Plan

Done: the modules of section 2, and the theorems of section 6. Left, in order:

1. An abstract `Mirror` (a copy per asset that follows the asset, or is known to be behind) that
   `BackupReplication` implements, checked by `backup` and proved step by step.
2. Visuals as sources of conversions: `AssetLifecycle` and `ConversionCache` composed, so that
   the conversions of a visual follow its regeneration and its removal.
3. Action properties of the worker and of uploads that the invariants already carry (a job is
   finished only by the run that copied it; what was received is never lost).
