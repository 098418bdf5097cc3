# A verification project for XiaoyuPostHub

XiaoyuPostHub is a self-hosted file hub: users upload files in chunks, keep them in a folder
tree with a trash, and share them by link, pickup code or direct link; administrators review
content and maintain the storage behind it. The server is one Go process over one PostgreSQL
database; the content of files lies on storage backends (local disk, S3, 123pan).

Its hard part is that what one request means to do once spreads over several statements. One
piece of content is known by four tables and a disk that change in different transactions; a
limit is counted in one statement and used in another; a file is sent for minutes between the
check that allowed it and the record that it was sent; a password is checked before the session
is created that depends on it. Handlers run concurrently, and may be cut off between any two
statements. The modules here model those statements, one by one, for the parts of the server that
have such a story; the inventory lists the others.

All paths are relative to `src/backend` unless they start with `src/`.

## Files

| Modules (configurations) | What they are |
|---|---|
| `Catalog.tla`, `MCCatalog.tla` (`MCCatalogTree`, `MCCatalogShared`; `MCPurgedNeverReclaimed`) | the content catalogue: rows, reference counts, objects, orphan purge |
| `ContentStore.tla` | the abstract promise the catalogue implements |
| `CatalogProofs.tla` | theorems about `Catalog`, and that it implements `ContentStore` |
| `StorageTask.tla`, `MCStorageTask.tla` (`MCStorageTask`) | the maintenance executor: rewrite, purge, failures, restarts |
| `StorageTaskProofs.tla` | theorems about `StorageTask` |
| `UploadSession.tla`, `MCUploadSession.tla` (`MCUploadShared`; `MCUploadTwoMergers`) | chunked uploads: chunks, parts on disk, merge, cancel, clean-up |
| `UploadSessionProofs.tla` | theorems about `UploadSession` |
| `DownloadJob.tla`, `MCDownloadJob.tla` (`MCDownloadJob`) | download jobs of a share: places, ranges, completion |
| `Tickets.tla` | the abstract promise of a download limit, which the jobs implement |
| `DownloadJobProofs.tla` | theorems about `DownloadJob` |
| `Sharing.tla`, `MCSharing.tla` (`MCSharing`; `MCSharingUnblock`) | pickup shares: codes, quota, review |
| `SharingProofs.tla` | theorems about `Sharing` |
| `DirectLink.tla`, `MCDirectLink.tla` (`MCDirectLink`) | direct links: their limits, the daily quota, dispositions |
| `DirectLinkProofs.tla` | theorems about `DirectLink` |
| `BlobStream.tla`, `MCBlobStream.tla` (`MCBlobStream`) | reading a range of an object in parts and sealed chunks |
| `BlobStreamProofs.tla` | theorems about `BlobStream` |
| `Login.tla`, `MCLogin.tla` (`MCLogin`) | logins with password, code and grace; resets; the session |
| `LoginProofs.tla` | theorems about `Login` |
| `PROJECT.json` | components, runs, mutants, the map from definitions to source lines, findings, hazards, theorems |

The configurations after a semicolon are the ones TLC refutes.
Run `tlc -config X.cfg M` with the module a run names, and `tlapm M.tla` for a module of proofs.

## Inventory

State, operations and interactions of each part; M = modelled, wholly or in part, - = not modelled.

| Part | State | Operations that change it | Hard behaviours | What makes it correct |
|---|---|---|---|---|
| M content catalogue (`resource/repo.go`, `blobstore/blobstore.go`, parts of `admin/repo.go`, `server/admin_handler.go`) | `resources`, `storage_blobs`, objects | upload (new, overwrite, auto-rename, instant), create folder, rename, trash, restore, purge, empty trash, retention, disposition, delete, delete user, orphan purge | read-then-write across statements, tree statements on a snapshot, references given back twice, foreign keys, COMMIT answer lost | a row's content exists; counts cover rows; dropped content never comes back; orphans are reclaimed |
| M storage maintenance (`admin/repo.go` from 1234, `server/storage_task_runner.go`) | `storage_tasks`, `storage_task_items`, the executor's position | create, scan, confirm, cancel, claim, five rewrite steps, purge, mark, finish, restart | failure of any step, restart between two, stale scans | content in use survives; old objects are tracked until deleted; the queue advances |
| M upload sessions (`upload/repo.go`, `server/chunk_upload_handler.go`, `filestore/store.go`) | `upload_sessions`, `upload_chunks`, part files | create or resume, chunk, complete, instant, pause, resume, cancel, administrator's cancel, expiry | a chunk late or wrong, two completions, cancel during merge, disconnection, restart | one whole file per upload; received chunks are there; no session is stuck |
| M download jobs (`sharing/repo.go` 770-1050) | jobs, ranges, counters of the share | create, reserve, claim, record a range, complete, expire, clean up | parallel ranges, expiry while finishing, a share closed or edited meanwhile | no more completions than the limit; each counted once, and only when all was sent |
| M pickup shares (`sharing/repo.go`, `server/sharing_handler.go`, `server/admin_shares_handler.go`) | `shares`, `share_moderations` | create, edit, batch, sync of the code, administer, review, hourly release | two or three statements per change, code reassigned | a code leads to at most one share and stays while the share is open; dead codes come back |
| M direct links and the download quota (`server/sharing_handler.go`, `server/download_quota.go`, `resource/repo.go`) | `direct_links`, `download_usage_events` | open, check, send, record, count; create, edit, batch; dispose and review | check, then send, then record | limits are passed by no more than the requests side by side |
| M logins and sessions (`server/auth_handler.go`, `user/totp.go`, `session/repo.go`) | users' token columns, challenges, sessions | password, challenge, code, session, grace; save a token; reset, disable, policy | concurrent challenges, replay, a reset under a login | one session, of today's password; a code is used once; tries are bounded |
| M reading (`blobstore/crypto.go`, `blobstore/blobstore.go`, `blobstore/remote.go`, `delivery_plan.go`) | positions of readers | seek, open a part, open a chunk, send, credit | boundaries, short reads, responses that ignore Range | the bytes asked for are returned, and credited |
| M review (`server/admin_review_handler.go`, `server/admin_shares_handler.go`), in `Catalog`, `Sharing`, `DirectLink` | marks of files and shares | decide | dispositions and owner's operations | restricted content is not delivered |
| M group bindings (`admin/repo.go`), in `StorageTask` | backend of a group | bind | rebinding while a migration runs | only queued migrations are cancelled |
| - upload quota (`validateUploadQuota`) | sums over sessions and rows | check, then create | check-then-act | usage stays within the limit |
| - login seal and rate limit (`loginseal/nonce.go`, `server/ratelimit.go`) | nonces, attempts in memory | issue, consume, sweep, evict | one mutex: none | a nonce is used once |
| - invitations (`admin/invitation.go`, `user/repo.go` Register) | `invitation_codes`, users | issue, revoke, use | the row is locked: none | a code makes one user |
| - backends, inbox, settings, configuration, static files, proxy, random tokens, frontend, migrations, scripts | | | | clients of external services, single statements, rendering; `PROJECT.json` has a reason for each |

How they interact: `handleUploadComplete` (upload sessions) calls `blobstore.Create` and
`SaveUploadedFile` (catalogue), which is where `UploadSession` ends and `Catalog` begins: the
"created" object of the first is the "written" object of the second. The maintenance executor
and the catalogue share `storage_blobs`; `Catalog` has the executor's purge in full and
`StorageTask` has the catalogue as two actions (`Upload`, `Unreference`). A share found by its
code (`Sharing`) hands out download jobs (`DownloadJob`), whose streams are the readers of
`BlobStream`; what those credit (`credited`) is what `RecordDownloadRange` is told there. A
disposition of a file is one action on the row in `Catalog` and three on its links in
`DirectLink`. The hourly loop of `main.go` runs expiry of sessions, retention of the trash and
release of pickup codes.

## How the modules correspond to the code

**Granularity.** One PostgreSQL transaction whose rows are locked is one action. A handler that
reads in one statement and writes in another is one action per statement; what it read stays in
its request slot `req[p]`, and other slots run in between. A single `UPDATE ... WITH RECURSIVE`
is two actions where it matters (`SelectTrash` / `MoveToTrashOwned`): READ COMMITTED takes the
set of ids from the statement's snapshot and then updates those rows, rechecking only what the
outer WHERE says. Locks held across statements (`FOR UPDATE` in `RestoreOwned` and `DeleteUser`)
are the guards `Unlocked` and `UserUnlocked`. A slot may be abandoned after any statement
(`Abandon`): client gone, panic, restart, error answer.

**`Catalog`.** `rows` is the `resources` table (state, parent, name, object, the four marks),
`blobs` is `storage_blobs` (status, reference count), `stored` the objects on their backend,
`owners` the users table, `cleaner` the executor in a purge task. Constraints of the schema are
guards: the foreign keys (`ForeignKeys`, `Droppable`), the unique sibling name (`Entry`,
`SiblingNamesUnique`). `LossyCommit` lets a COMMIT succeed and be reported failed. Of times only
their order is kept: retention may strike any trashed row, and the hour of grace that a purge
scan gives an orphan is left out (`ScanOrphans` takes any), which only adds behaviours. `short` is
a history variable: the objects of which a statement returned a reference that it had no claim to.
There are four such statements, each with its condition in the action: `SaveUploadedFile`
overwriting a row that was purged since it was read; `ReleaseUnsaved` after a COMMIT whose answer
was lost; `DeleteAdminTrashedFile` by an object it read before the row changed; `DeleteUser`
releasing what it listed before the rows were gone.

**`ContentStore`.** The promise in four actions (put, link, unlink, discard): content is kept
while anything links to it, and what has been discarded does not come back. `Catalog` implements
it with `link` = the object of each row, purged ones included, `kept` = objects registered and
stored, `gone` = objects dropped. Reference counts and statuses are not part of the promise:
the run `shared` shows that they may be wrong and the promise is kept, because `DropObject`
meets the foreign key.

**`StorageTask`.** `row` is the locator of each registered object (the list of its parts),
`FormOf` what a locator looks like (backend, encryption, part size), `used` the ids with
references, `tasks` the two task tables with the note of old locators on each item, `exec` the
position of the one executor in `executeStorageTaskItem` / `rewriteAndReplace`. Every statement
and backend call of the executor is an action with a failing alternative; `superseded` is a
history variable.

**`UploadSession`.** The sessions that one user opens for one file. `status` and `recorded` are
the two tables, `disk` what each part file holds (`right`, `wrong` or `missing`: contents are
told apart only by the checksum the client announced), `doomed` the list `DeleteExpired` has
returned and `main.go` works through. `saves` is a history variable. Any chunk request may carry
wrong bytes, and the part file is replaced before the checksum is compared, as in
`handleUploadChunk`. `overtaken` and `marred` are history as well: a handler is overtaken when
somebody else completes, cancels or deletes the session it is on, or takes it up again while it is
being cleared; a session is marred once an overtaken handler has written to it (a chunk row, the
status, or the removal of its directory). Everything after `blobstore.Create` is one action (`SaveMerged`): its inner
steps are those of `Catalog`.

**`DownloadJob`.** One share with its jobs. `job`, `total` and `ranges` are the three tables of
jobs, `count` and `traffic` the counters of the share, `limit` its limits, `size` and `shown` the
files as they are now. A request claims a file, reserves a place if the job has none, sends a range
and records it. `RecordDownloadRange` is two actions, `BeginRecord`, which locks the row of the job
and fixes `NOW()`, and one of `KeepRange`, `CompleteJob` and `RefuseCount`: in between the job may
expire for everybody else, which is how one more download than the limit can be counted (`late`).
`Covered` is the scan of the ranges in order, a fold that takes the last range last. `told`, `counted`, `late` and `most` are
history. `ConsumeJobFileOnce` records nothing, as its statement fails (below).

**`Tickets`.** A limit, the places held and the places used. `DownloadJob` implements it with
`held` = jobs reserved and not expired, `used` = jobs counted. It does not say that used and held
stay below the limit, which an owner may lower; it says that a place is only taken while there is
one. The run and `WithinLimit` say what follows for the highest limit there was.

**`Sharing`.** The pickup shares of one owner: the row, its review mark and whether its code is
live. `req` holds the statement a request does next; `SyncPickupCodeLive` is `ReadState`, then
`ReleaseCode`, or `OccupyCode` and `RotateCode`, each by what was read before. `Occupies` is the
WHERE clause with the partial unique index, and `req[p].code` the code that `ReadState` read, which
`OccupyCode` tries first. `AdminUpdateRefused` is the request of an administrator whose WHERE clause
meets no row. `LiveCodesUnique` is about stored codes: a visitor's lookup also matches the capitals
of what was typed (`sharing/repo.go:377`), so that where the setting about case has changed, a code
in lower case and one in capitals may both answer to it, which the module leaves out. Left out as well: shares without a code (the same statements
but the sync), the exemption of the super administrator from the quota, disabled owners; the two
COUNTs of a batch are read as one. `lost`, `unchecked` and `alone` are history.

**`DirectLink`.** Links of one owner, each to a file of its own, and one downloader's day. A direct
download is six steps (`OpenLink`, `ReadLink`, `CheckDirect`, `SendWhole`, `RecordDownloadUsage`,
`CompleteDirectDownload`), a disposition three. All files have one size, so that limits on bytes
are limits on the number. A subject may be exempt: `CheckDirect` and `PlanExempt` have the branch of
`resolveDownloadSubject` that lets a user pass unchecked and unrecorded because the quota could not
be read (`server/download_quota.go:69-73`); what passes that way is in `unpaid`. `served` counts what went out, `missed` what a link could not count (its
row gone, disabled, expired or full by then), `unpaid` what the day's usage did not record.

**`BlobStream`.** A byte is named by its place, so that "the right bytes" is arithmetic. `src` is
the `partsReader` with the file under it (local, or remote with a response that may ignore Range),
`opener` the `encryptedReadSeeker`, `sent` the answer so far. A chunk opens when the bytes read are
exactly the stored bytes of that chunk: the rest of AES-GCM is external. `credited` is what is
recorded for the job, by `plainRangeForWireRange` when the stored bytes were sent as they are.

**`Login`.** One user. `req` holds what a login read of the user, which is what it goes on with.
`LoadChallenge` takes the row lock of a challenge until `AcceptCode`, `RejectCode` or `Abandon`;
`ResetUserPassword` waits for it, as it deletes challenges. A code is a pair of a secret and a time
step. `straddled` marks logins that a reset or a disabling overtook. "Forced" implies "allowed"
because permissions imply it (`user/types.go:51`, `admin/repo.go:711-719`). Passwords are numbers
that a reset counts up, which tells the new one from any old one.

## Runs

Deadlock is not checked anywhere: ids, tasks and sessions are finite and never reused, so a
bounded system stops when they are used up.

| Run | What it shows | Bounds and why they are enough |
|---|---|---|
| `tree` | `TypeOK`, `ContentAvailable`, `RefsCoverRows`, `DroppedIsFinal`, and that `Catalog` implements `ContentStore`, with two handlers at once | a file and two slots, with a folder and a second name (trees, moves, renaming) or with a second object (overwriting while the executor purges the old one); `SecondObjectAlone` keeps the two apart, which together are beyond a few minutes; 0.77 million states |
| `shared` | `ContentAvailable` and `RefsCoverRows` across users, with lost COMMIT answers; `UnreferencedReclaimed` under fairness | two users with a file each and one object between them, two slots: each of the four statements of `short` is reached; 0.56 million states |
| `storage` | the safety of rewriting and purging, and that the queue advances | two tasks (a scan and its confirmation, or two rewrites of one object), two ids, three locators in two forms: an object can be rewritten, and its transitional id is the second one |
| `upload_shared` | whatever is saved is whole; one file per upload, received chunks on the disk, completed stays completed, unless the session is marred: two completions, a completion and a chunk, a cancellation and a chunk, overlapping | two chunks, so that a session can be partly received; two handlers on one session, which is where they can harm each other; a second session of the same file, begun while the directory of a cancelled or expired one is still to be removed, with one handler at a time (`SecondSessionSerial`: two on two are beyond a few minutes); 1.6 million states |
| `downloads` | the limits of a share under parallel ranges, expiry and edits; a job is counted once and whole; `DownloadJob` implements `Tickets` | two jobs, two slots and a limit of one or two, so that two jobs want the last place; one file of two bytes with one edit, or two files without: a file has a gap, an overlap and adjacent ranges; 0.25 million states |
| `sharing` | a live code leads to one share and is not moved to another, the quota is passed by no more than a batch for each request, and not at all without overlap, a deleted share takes no code, dead codes are released | two shares, two codes, two slots, three requests: a code can be taken by the other share while a request is between its statements; the owner may have one active share |
| `stream` | what is sent is what was asked for, what is credited is what was sent | files of up to three chunks in up to three parts, every range, every way to cut reads; chunks and tags of two bytes, so that a position has a first and a last byte of each; 0.3 million states |
| `direct` | limits of links, the day's quota and the bound of active links (two links to a batch) are passed by at most what ran side by side; a file's block and its link's agree | two links, two slots, limits of one and two, a day's quota of one, four requests; 2 million states |
| `login` | codes and the grace are used once unless two logins overlap, tries are bounded, the session is of today's password | two slots, two challenges, two secrets, two tries, six requests, three time steps: two challenges of one user with one code, a reset and a second login in between; 0.66 million states |
| `purged_never_reclaimed`, `two_mergers`, `unblock` | statements of the repository's comments that the code does not keep, one each (see "Where code and documentation disagree") | the instance of the passing run, or the smallest that reaches it |

Symmetry is used where objects, ids, sessions or slots are interchangeable and no liveness is
checked.

### Exceptions in properties

Some properties name the state in which the code makes an exception. They are checked in full
concurrency, so that there is no other exception; where the repository denies the exception itself,
the statement it makes is below.
`short` (the four statements that return a reference they have no claim to), `marred` (a session to
which a handler wrote that had been overtaken),
`late` (a job that expired inside the transaction that counted it), `alone` (no two requests ever
overlapped), `unchecked` (a change of a share or link that the code does not count: editing,
unblocking, an administrator's change, the trash), `missed` and `unpaid` (a record that failed, was
refused or was not attempted after the file was sent), `straddled` and `raced` (a login overtaken,
two logins at once), `lost` and `undone` (a request that ended before it put a code or a link right).

A login that straddles a reset may leave a session of the old password (`straddled`). That is an
exception and not a finding: the only statement about it, `server/admin_handler.go:609`, is that a
reset clears the sessions there are, which it does.

### Fairness

`Catalog!Fairness` is about administrators who keep confirming purge tasks (`ScanOrphans`), an
executor that continues what it has begun (`DeletePhysicalRefs`), and an executor that is not
interrupted, or told by an unlucky count to skip, every single time it reaches an object
(`TakeOrphan`, `DropOf`: strong fairness, as a restart disables them). Without the first nothing
is ever purged: the code has no automatic purge, by design. `StorageTask!FairSpec` is weak
fairness of the executor's next step: `RunStorageTasks` polls on a ticker and waits for nobody.
Restarts may go on for ever in both.
`Sharing!Spec` has weak fairness of `ReleaseDeadPickupCodes`: `main.go` runs it every hour in a
loop that waits for nobody. The other modules state safety only.

## Where code and documentation disagree

Three runs, each a finding in `PROJECT.json` that quotes the line:

- **A purged file's content is never reclaimed** (`purged_never_reclaimed`, against
  `resource/repo.go:791-792`). The row of a purged file stays and keeps its foreign key, so
  `DropObject` is refused for ever.
- **Two mergers of one session** (`two_mergers`, against `upload/repo.go:454`). The second statement
  of `RecordChunk` sets `uploading` whatever the status has become, `completing` included.
- **"Unblock" cannot undo a deletion** (`unblock`, against `server/admin_shares_handler.go:70` and
  `admin/repo.go:1012`). `AdminUpdateShare` would reset `deleted_at`, and asks for
  `deleted_at IS NULL`.

Seven more statements are defined in the modules beside the properties that hold. No configuration
lists them; each is refuted when it is added, as an invariant or (the action properties, marked *)
as a property, to the configuration given:

| Definition | Add to | What happens | Against |
|---|---|---|---|
| `Catalog!NoneReturnedTwice` | `MCCatalogShared` | The objects of a deleted user are listed before the rows are gone; what gives a reference up in between is counted down again, and somebody else's row is left uncounted: the object becomes an orphan on paper, and the foreign key saves its content | `admin/repo.go:605-606` |
| `Catalog!RestrictedNotRestored` * | `MCCatalogTree` | `RestoreOwned` looks at `restore_blocked` of the root only: a restricted file comes back with its folder | `src/README.md:50` |
| `UploadSession!SkippedIsThere` | `MCUploadShared` | A chunk recorded around a cancellation keeps its row while the cancellation removes its part | `upload/repo.go:272-275` |
| `Sharing!UsableIsLive` | `MCSharing` | `SyncPickupCodeLive` releases by a state it read before: a share opened meanwhile is left without its code | `sharing/repo.go:499-501` |
| `DirectLink!BlockedTogether` | `MCDirectLink` | A disposition ends between its two statements: the file is blocked and its link is not | `resource/repo.go:731` |
| `Login!StepsAdvance` * | `MCLogin` | The challenge is locked and the user is not: two challenges compare with the same last step, and the second accepts what is not later than the first | `user/totp.go:136-137` |
| `DownloadJob!RedirectSettles` * | `MCDownloadJob` | `ConsumeJobFileOnce` updates `used_at`, which `src/migrations/019.sql:4` dropped: a redirected delivery is never settled | `server/sharing_handler.go:969-970` |

Further states that the models reach, for which no run is kept:

- **Running a task again deletes nothing.** The note of the old locator is on a `failed` item, and
  no statement ever takes a failed item up again (`server/storage_task_runner.go:230`).
- **Two edits clear a rejection.** An edit with a description sets `pending` over `rejected`, an
  edit without one then removes the mark (`MarkShare`).
- **A code may outlive its share until the hourly release**: a review or a disposition does not
  sync it; and two rotations at once can replace a code just given (`sharing/repo.go:504`).
- **One byte too many is credited** for a range that ends inside a tag
  (`server/delivery_plan.go:236-238`), which `CreditExact` allows and nothing else.
- **Downloads that end after the link was disabled, has expired or has a lower limit are served and
  not counted**, and a file blocked while the write of its verdict fails lets a later link of it be
  unblocked (`DirectLink`).
- A child that is not in the trash is purged with its folder and stays in the listing
  (`resource/repo.go:840`); content is blocked between `FindReusable` and `Attach` and reused
  (`blobstore/blobstore.go:946`); a COMMIT answer lost in `ReplaceObject` lets the executor delete
  the content in use (`server/storage_task_runner.go:213`, set `LossyCommit` in
  `MCStorageTask.cfg`); a merge whose client goes away leaves its session `completing`
  (`server/chunk_upload_handler.go:750`); the failure of one handler overwrites the completion by
  another (`upload/repo.go:392`).

## Proofs

Eight modules hold theorems, each for every value of the constants that the module's assumption
admits (any number of files, users, objects, sessions, shares, links, requests; any limits). The
`.cfg` files give small ones. Each argument is an inductive invariant: the initial states have it,
every step keeps it (one lemma per action or group of actions), and it implies what is claimed.

| Module | Theorem | Statement |
|---|---|---|
| `CatalogProofs` | `TypeCorrect` | `Spec => []TypeOK` |
| | `SafeInvariant` | `Spec => []SafeInv` |
| | `ContentSafe`, `StatusSafe` | `[]ContentAvailable`, `[]StatusFollowsCount` |
| | `DroppedStays` | `DroppedIsFinal` |
| | `CatalogIsStore` | `ImplementsContentStore` |
| | `CountsCover` | `[]RefsCoverRows` |
| `StorageTaskProofs` | `TypeCorrect`, `OneOwner` | `[]TypeOK`, `[]OneOwnerPerRef` |
| | `ContentSafe`, `OldRefsKept` | `[]ContentAvailable`, `[]OldRefsTracked`, both assuming `LossyCommit = FALSE` |
| `UploadSessionProofs` | `TypeCorrect`, `SavedWhole` | `[]TypeOK`, `[]WholeContent` |
| | `SavesOnce`, `ReceivedStays`, `CompletedStays` | `[]SavedOnce`, `[]ReceivedOnDisk`, `CompletedIsFinal` |
| `DownloadJobProofs` | `TypesHold` | `[]TypeOK` |
| | `LimitHolds`, `CountIsExact`, `TrafficHolds` | `[]WithinLimit`, `[]CountedOnce`, `[]WithinTraffic` |
| | `RangesAreExact`, `JobsAreCountedWhole` | `[]RangesExact`, `CountedWhole` |
| | `JobsAreTickets` | `ImplementsTickets` |
| `SharingProofs` | `TypeCorrect`, `QuotaIsHeld` | `[]TypeOK`, `[]QuotaHeld` |
| | `UsableStaysLive`, `CodesAreKept` | `[]UsableIsLiveAlone`, `CodeKept` |
| | `DeletedStaysSilent` | `DeletedTakesNoCode` |
| `DirectLinkProofs` | `DirectLinkInvariant` | `Spec => []IInv` |
| | `LimitsHold`, `DayHolds` | `[]LinkWithinLimit`, `[]DayWithinQuota` |
| | `ActiveHolds`, `BlocksFollow` | `[]ActiveWithinQuota`, `[]BlockFollowsFile` |
| `BlobStreamProofs` | `StreamIsExact`, `CreditIsExact` | `[]StreamExact`, `[]CreditExact` |
| `LoginProofs` | `LoginInvariant` | `Spec => []IInv` |
| | `TriesAreBounded`, `SessionStaysCurrent`, `PassesAreUsedOnce` | `[]TriesBounded`, `[]SessionIsCurrent`, `[]PassesUsedOnce` |

No theorem restricts the number of requests. The two that assume `LossyCommit = FALSE` are false
without it, as explained under "Maintenance".

**Catalogue.** With `LossyCommit` and `CrossUser` either way. `ContentAvailable` is not inductive:
nothing in it says that an object being written is not yet in the table, or that the one whose
parts the executor deletes is out of it. `SafeInv` adds: registered objects are stored
(`Registered`); an object being written is stored, unregistered and has one writer
(`WritesPending`); an upload's slot holds an object (`UploadsHoldObjects`); what the executor
deletes it has dropped (`DeletesDropped`); and `StatusFollowsCount`. The steps that could break it
are sorted by what they leave alone (`SameRegistration`, `LinksRegistered`, `NoNewWrites`), so that
the many handlers that touch neither the disk nor the set of registered objects share one lemma.
The foreign keys carry the proof, not the counts. The refinement sorts steps by what they are in
`ContentStore` (`Registering`, `Linking`, `Unlinking`, `Discarding`, `Same`): an upload that saves
links a row to an object which the foreign key says is registered and `SafeInv` says is stored;
`DropObject` discards, because a registered object with a row cannot be dropped; everything about
trash, counts, restrictions and deletions on the backend is a stutter or unlinks.

`RefsCoverRows` is about counts, and its invariant is bookkeeping (`CountInv`). A count owes a unit
to every row that holds the object and to every row of a deleted user whose reference is listed and
not given back yet (`Booked`): without the second part the deletion of a user would break it in its
first statement and repair it in its last. Each step changes the count by as much as the holders
change (`Matched`), or the object enters `short`. That is a statement about cardinalities, which
the lemmas on finite sets carry: a tree statement takes a set of rows out of the holders and as
many units off the count, whatever the shape of the tree, so the argument needs neither the tree
nor what a handler still knows of it. `DeletionsNoted` says of which rows a deletion's list may be,
so that two deletions do not owe the same row.

**Maintenance.** `Handed`: ids and locators in use were handed out once, and superseded ones are
nobody's. `AtWork`, `InHand`: at each position of the executor, which object and locators it
holds, whose they are, and that the replacement is stored until the metadata point to it.
`Waiting`, `InNote`: items not yet taken have no note, and an item in hand has its old locator
noted from `MarkStorageTaskItemOldRefs` on. When `ReplaceObject` is undone, only the transitional
row has the new locator, as long as a reported failure is one: this is where `LossyCommit` must be
FALSE; `OneOwnerPerRef` holds either way. A note is cleared only when the locator
is gone, or has not been superseded.

**Uploads.** `Slots`: a merge about to save has compared the checksum of what it read. That is all
`WholeContent` needs, however chunks replace the parts under the merge. `Orderly` is the invariant
for the other three, for any number of handlers: what a handler found of its session still holds
until it saves (`Following`), unless it was overtaken or the session is marred; an unmarred session
that was saved has ended, and one that has not ended has the parts of its recorded chunks
(`Sound`). A step either leaves the session to the other handlers as they found it
(`Undisturbed`), or ends it and overtakes them all (`Ends`), or is the write of an overtaken
handler, which marks the session.

**Download jobs.** `RowLocks`: whoever records a range has the row of a reserved job, alone.
`WithinLimit` compares places with the highest limit there was, and `late` counts the jobs that
expired under the lock. Places are cardinalities of sets that each step changes by one job
(`PendingFinite`, `Numbers`), which is what the library's lemmas on finite sets are for.
`JInv` is about bytes: a sum of totals is the cardinality of a set of pairs, which changes by the
pairs of one job; ranges are merged into one that covers what they covered and the bytes between,
and the merged range touches no other. `CountedWhole` needs the scan: `CoveredSum` would not do,
bytes in the middle can make up for a gap. Its fold is a recursive function on finite sets; that
the function exists is shown with the least number of ranges for which there would be none
(`ScanExists`), and that what it returns is covered from 0 on by taking the last range off
(`CoveredFacts`).

**Shares.** `TypeOK` says that a live code is of one share, and is inductive as it stands: the
partial unique index is in the guard of `OccupyCode`. `DeletedTakesNoCode` follows step by step, as
the statements that give a code ask for `deleted_at IS NULL` once more, whatever was read before. `LoneInv`: while no two requests overlapped, the
one request there is owes its code to every open share that lacks it, and what it read of a share
is what the share is; `KeepsCodes` is the step that this allows. `QuotaInv`: the active shares that
came by way of a count, and those that requests which have counted may still add (`Room`), together
stay within the limit and a batch for each request. The proof attempt corrected the property: with
the bound `(Cardinality(Requests) - 1) * MaxBatch` it is false for three shares, a limit of one and
two slots, as two requests can take turns to run on beside each other; the run has two shares.

**Direct links.** `Rows`: a count is what was served, less what was missed and what is on its way
(`Counted`). `Room`: whoever passed the check of a link while nobody else was about, or when
everybody had passed it, has left room for one more. `DayKept` is the same for the quota of the
day. So a limit is passed by at most one for each other request: whoever passes a check reads a
count that lacks at most the others. `OInv` is about the owner's side: `ActiveWithinQuota` is the
argument of `QuotaInv` for links, with the same correction of the bound, and `BlockInv` says which
statement of a disposition or a review still has to be made when a link and its file differ.

**Logins.** `LockHeld`: a challenge being verified belongs to one request, which read its tries.
`TriesCounted` follows. `LoginsCurrent`, `ChallengesCurrent`: what a login or a challenge carries
on from is the password of today, or a reset came in between (`straddled`). `CodesInOrder` and
`GraceInOrder`: while no two logins overlapped, what has been used is at or before what the user's
row says was used last, which the next login reads; and a grace that let somebody in is marked in
the row, or about to be.

**Reading.** `SInv`: the file under the reader stands where the reader takes it to be (`Standing`),
at every position of a seek, an open, a short read or a response that ignored Range; and what has
been sent is the first bytes of what was asked for (`SentRun`). `CreditInv` carries the range of the
answer through to what is credited: the mapping from stored to plain bytes is monotone
(`ToPlainOrder`), a byte and its mapping lie in one chunk (`PlaceFacts`), and a byte of a tag maps to
the end of its chunk (`TagFacts`), which is where the one byte too many comes from.

**Only proved.** `StatusFollowsCount`, a conjunct of `SafeInv`.

**Only model-checked.** Liveness: `UnreferencedReclaimed`, `QueueAdvances` and
`DeadCodesReleased`, as fairness and ENABLED are beyond the prover. Every safety property and the
refinements that passing runs check are theorems as well. For two quotas
the theorems say more than the runs: with two shares or two links, `QuotaHeld` and
`ActiveWithinQuota` are checked in their half about requests that do not overlap, as there are not
enough to pass the bound of the other half.

## Not modelled

- **The upload quota** (`validateUploadQuota`): two sums compared, then a session is created; the
  check-then-act of `DirectLink` and `Sharing` over the sizes of files, which no other module
  tells apart.
- **Login seal, rate limit**: maps behind one mutex, each operation one critical section. Nothing
  interleaves, and nothing else depends on them.
- **Invitations and registration**: one transaction that locks the row of the code.
- **Inside the modelled parts**: the COMMIT of `insertObject` reported failed although it succeeded
  (the object stays registered as an orphan without content, never linked); moderation history and
  appeals; hashes, MIME types; the order of the upload queue; the failure count of logins; the
  choice between relay and redirect; shares without a code; the sliding renewal of sessions.
- **Backends and their clients, inbox, settings, configuration and start-up, HTTP plumbing, random
  tokens, frontend, schema and scripts**: clients of external services, single statements, or
  rendering. What the modules need of them is in their actions: a backend call may fail, ids are
  never reused, schema constraints are guards, start-up steps are `Restart`.

## Plan

What there is to add, in this order:

1. An upload quota module beside `DirectLink`, if quotas become per file kind or move into the
   transaction that creates a session.
2. In place of `alone`, which forgets nothing, history as fine as `short` and `marred` for `Sharing`
   and `DirectLink`: which share a sync that was overtaken has written to.
3. Catalogue and maintenance in one module, so that a rewrite meets an upload that reuses the
   object being rewritten; today each has the other as one or two actions.
