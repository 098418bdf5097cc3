------------------------------- MODULE Catalog -------------------------------
(***************************************************************************)
(* The content catalogue: rows of `resources` (files and folders with      *)
(* their trash / purge / restriction marks), rows of `storage_blobs` with  *)
(* their reference counts, the physical objects behind them, and the four  *)
(* kinds of actor that change them concurrently: uploads, the owner's      *)
(* trash operations, the administrator's dispositions and deletions, and   *)
(* the maintenance executor that purges orphaned objects.                  *)
(*                                                                         *)
(* One PostgreSQL transaction whose statements are all guarded by row      *)
(* locks is one action.  A handler that reads in one statement and writes  *)
(* in another is one action per statement, with what it read kept in its   *)
(* request slot `req[p]`: several slots interleave freely, one slot is a   *)
(* server that handles one request at a time.                              *)
(***************************************************************************)
EXTENDS Integers, FiniteSets

CONSTANTS
    Files,        \* ids of file resources (random, never reused)
    Folders,      \* ids of folder resources
    OwnerOf,      \* the user each resource id is generated for
    Owners,       \* user accounts
    Names,        \* resource names
    Blobs,        \* ids of physical objects (random, never reused)
    Requests,     \* request slots: how many handlers run at the same time
    Root,         \* parent_id IS NULL
    NoBlob,       \* blob_id IS NULL (folders)
    CrossUser,    \* the cross_user_dedupe switch
    LossyCommit   \* whether a COMMIT may succeed and still be reported failed

Ids == Files \cup Folders
Parents == Folders \cup {Root}
Modes == {"error", "overwrite", "auto_rename"}

ASSUME CatalogAssumption ==
    /\ IsFiniteSet(Ids) /\ Files \cap Folders = {}
    /\ Names # {} /\ Owners # {}
    /\ OwnerOf \in [Ids -> Owners]
    /\ Root \notin Ids
    /\ NoBlob \notin Blobs
    /\ CrossUser \in BOOLEAN
    /\ LossyCommit \in BOOLEAN

VARIABLES
    rows,      \* the resources table
    blobs,     \* the storage_blobs table
    stored,    \* objects physically present on their backend
    owners,    \* the users table
    req,       \* what each request in progress has read so far
    cleaner,   \* the storage maintenance executor, running a purge_orphan task
    short      \* history: objects of which a statement that acted on what it had
               \* read earlier gave back a reference that was not there to give

vars == <<rows, blobs, stored, owners, req, cleaner, short>>

Row == [state: {"none", "present", "deleted"}, parent: Parents, name: Names,
        blob: Blobs \cup {NoBlob}, trashed: BOOLEAN, purged: BOOLEAN,
        restore_blocked: BOOLEAN, admin_blocked: BOOLEAN]

Blob == [status: {"none", "orphaned", "active", "dropped"}, ref: Nat]

Request == [step: {"idle", "written", "created", "validated", "release",
                   "folder", "trash", "restore", "purge", "admin_delete",
                   "user_locked", "user_deleted"},
            owner: Owners, blob: Blobs \cup {NoBlob}, parent: Parents,
            name: Names, mode: Modes, fresh: BOOLEAN,
            seen: SUBSET (Ids \X (Blobs \cup {NoBlob}))]

Cleaner == [step: {"idle", "running", "refs", "delete"},
            todo: SUBSET Blobs, blob: Blobs \cup {NoBlob}]

\* Values a field has when nothing uses it.
AnyName == CHOOSE n \in Names : TRUE
AnyOwner == CHOOSE o \in Owners : TRUE

BlankRow(state) ==
    [state |-> state, parent |-> Root, name |-> AnyName, blob |-> NoBlob,
     trashed |-> FALSE, purged |-> FALSE,
     restore_blocked |-> FALSE, admin_blocked |-> FALSE]

IdleRequest ==
    [step |-> "idle", owner |-> AnyOwner, blob |-> NoBlob, parent |-> Root,
     name |-> AnyName, mode |-> "error", fresh |-> FALSE, seen |-> {}]

IdleCleaner == [step |-> "idle", todo |-> {}, blob |-> NoBlob]

Init ==
    /\ rows = [i \in Ids |-> BlankRow("none")]
    /\ blobs = [b \in Blobs |-> [status |-> "none", ref |-> 0]]
    /\ stored = {}
    /\ owners = Owners
    /\ req = [p \in Requests |-> IdleRequest]
    /\ cleaner = IdleCleaner
    /\ short = {}

-----------------------------------------------------------------------------
(* What the SQL predicates say of a row, and what the statements do to the *)
(* storage_blobs table.                                                    *)

Present(i) == rows[i].state = "present"
Active(i) == Present(i) /\ ~rows[i].trashed
Restricted(i) == rows[i].restore_blocked \/ rows[i].admin_blocked
InTable(b) == blobs[b].status \in {"orphaned", "active"}

\* Rows whose foreign key points at b, purged ones included.
Referrers(b) == {i \in Ids : Present(i) /\ rows[i].blob = b}

\* Rows that still own one unit of b's reference count.
Holders(b) == {i \in Referrers(b) : ~rows[i].purged}

\* The active row of a directory entry (resources_sibling_name_unique).
Entry(o, par, n) ==
    {i \in Ids : Active(i) /\ OwnerOf[i] = o
                           /\ rows[i].parent = par /\ rows[i].name = n}

FreeNames(o, par) == {n \in Names : Entry(o, par, n) = {}}

SiblingNamesUnique(R) ==
    \A i, j \in Ids :
        (/\ R[i].state = "present" /\ ~R[i].trashed
         /\ R[j].state = "present" /\ ~R[j].trashed
         /\ OwnerOf[i] = OwnerOf[j]
         /\ R[i].parent = R[j].parent /\ R[i].name = R[j].name) => i = j

\* WITH RECURSIVE tree: root, and every child among ok of a member.
Tree(root, ok) ==
    LET closed(S) == \A j \in ok : rows[j].parent \in S => j \in S
    IN  {i \in Ids : \A S \in SUBSET Ids : root \in S /\ closed(S) => i \in S}

Attached(B, b) == [B EXCEPT ![b] = [status |-> "active", ref |-> @.ref + 1]]

\* Mutant of Released: no GREATEST(..., 0).
ReleasedUnfloored(B, n) ==
    [b \in Blobs |->
        IF B[b].status \in {"orphaned", "active"} /\ n[b] > 0
        THEN [status |-> IF B[b].ref <= n[b] THEN "orphaned" ELSE B[b].status,
              ref    |-> B[b].ref - n[b]]
        ELSE B[b]]

\* n[b] references of each b given back; a count never goes below zero.
Released(B, n) ==
    [b \in Blobs |->
        IF B[b].status \in {"orphaned", "active"} /\ n[b] > 0
        THEN [status |-> IF B[b].ref <= n[b] THEN "orphaned" ELSE B[b].status,
              ref    |-> IF B[b].ref <= n[b] THEN 0 ELSE B[b].ref - n[b]]
        ELSE B[b]]

One(b) == [c \in Blobs |-> IF c = b THEN 1 ELSE 0]
RefsOf(S) == [b \in Blobs |-> Cardinality({i \in S : rows[i].blob = b})]

-----------------------------------------------------------------------------
(* Locks held across statements.  RestoreOwned keeps its root row locked,  *)
(* DeleteUser keeps the users row locked, which also blocks every insert   *)
(* that references the user.                                               *)

Free(p) == req[p].step = "idle"
Seen(p) == {x[1] : x \in req[p].seen}
Rooted(p) == {i \in Seen(p) : rows[i].parent \notin Seen(p)}

UnlockedBy(Q, S) == \A q \in Q : req[q].step = "restore" => Rooted(q) \cap S = {}
Unlocked(S) == UnlockedBy(Requests, S)
UserUnlocked(o) ==
    \A p \in Requests : ~(req[p].step = "user_locked" /\ req[p].owner = o)

Become(p, step) == req' = [req EXCEPT ![p].step = step]
Finish(p) == req' = [req EXCEPT ![p] = IdleRequest]
Start(p, r) == Free(p) /\ req' = [req EXCEPT ![p] = r]

\* A request that dies between two statements: a panic, a cancelled request
\* context, a restart, or an error answer.  Its open transaction rolls back.
Abandon(p) ==
    /\ ~Free(p)
    /\ Finish(p)
    /\ UNCHANGED <<rows, blobs, stored, owners, cleaner, short>>

-----------------------------------------------------------------------------
(* Uploads.                                                                *)

\* blobstore.Create: the content goes to the backend before any row exists.
WriteObject(p, o, par, n, m, b) ==
    /\ blobs[b].status = "none" /\ b \notin stored
    /\ o \in owners
    /\ Start(p, [IdleRequest EXCEPT !.step = "written", !.owner = o, !.blob = b,
                    !.parent = par, !.name = n, !.mode = m, !.fresh = TRUE])
    /\ stored' = stored \cup {b}
    /\ UNCHANGED <<rows, blobs, owners, cleaner, short>>

\* Mutant of InsertObject: the object is registered as in use from the start.
InsertObjectActive(p) ==
    /\ req[p].step = "written"
    /\ blobs' = [blobs EXCEPT ![req[p].blob] = [status |-> "active", ref |-> 0]]
    /\ Become(p, "created")
    /\ UNCHANGED <<rows, stored, owners, cleaner, short>>

\* insertObject: the object enters the table unreferenced, as an orphan.
InsertObject(p) ==
    /\ req[p].step = "written"
    /\ blobs' = [blobs EXCEPT ![req[p].blob] = [status |-> "orphaned", ref |-> 0]]
    /\ Become(p, "created")
    /\ UNCHANGED <<rows, stored, owners, cleaner, short>>

\* The transaction fails: Create removes what it wrote, as far as it can.
InsertFails(p) ==
    /\ req[p].step = "written"
    /\ stored' \in {stored, stored \ {req[p].blob}}
    /\ Finish(p)
    /\ UNCHANGED <<rows, blobs, owners, cleaner, short>>

\* FindReusable and VerifyAvailable: an active object none of whose referrers
\* is restricted, present on its backend.
ReuseObject(p, o, par, n, m, b) ==
    /\ blobs[b].status = "active"
    /\ CrossUser \/ \E i \in Referrers(b) : OwnerOf[i] = o
    /\ \A i \in Referrers(b) : ~Restricted(i)
    /\ b \in stored
    /\ o \in owners
    /\ Start(p, [IdleRequest EXCEPT !.step = "created", !.owner = o, !.blob = b,
                    !.parent = par, !.name = n, !.mode = m])
    /\ UNCHANGED <<rows, blobs, stored, owners, cleaner, short>>

\* validateParent, outside the transaction that will rely on it.
ParentUsable(o, par) ==
    par # Root => par \in Folders /\ Active(par) /\ OwnerOf[par] = o

ValidateParent(p) ==
    /\ req[p].step = "created"
    /\ ParentUsable(req[p].owner, req[p].parent)
    /\ Become(p, "validated")
    /\ UNCHANGED <<rows, blobs, stored, owners, cleaner, short>>

\* Mutant of ForeignKeys: nothing checks that the object is still registered.
ForeignKeysUnchecked(o, par, b) ==
    /\ o \in owners /\ UserUnlocked(o)
    /\ par # Root => Present(par)

\* The foreign keys an insert or an update of a resources row has to meet.
ForeignKeys(o, par, b) ==
    /\ o \in owners /\ UserUnlocked(o)
    /\ par # Root => Present(par)
    /\ b # NoBlob => InTable(b)

InsertRow(i, o, par, n, b) ==
    /\ rows[i].state = "none" /\ OwnerOf[i] = o
    /\ ForeignKeys(o, par, b)
    /\ Entry(o, par, n) = {}
    /\ rows' = [rows EXCEPT ![i] = [BlankRow("present") EXCEPT
                    !.parent = par, !.name = n, !.blob = b]]

\* Names the upload may be saved under: its own while no active entry has it,
\* or, keeping both, any free one beside an unrestricted file.
SaveNames(r) ==
    LET taken == Entry(r.owner, r.parent, r.name)
    IN  {n \in FreeNames(r.owner, r.parent) :
            \/ n = r.name
            \/ /\ r.mode = "auto_rename" /\ taken # {} /\ taken \subseteq Files
               /\ \A j \in taken : ~rows[j].admin_blocked}

\* The transaction of SaveUploadedFile, as far as its COMMIT: a new row, or the
\* unrestricted file already there overwritten in place.
SaveNew(p) ==
    LET r == req[p]
    IN  \E i \in Files, n \in SaveNames(r) :
          /\ Unlocked(Entry(r.owner, r.parent, r.name))
          /\ InsertRow(i, r.owner, r.parent, n, r.blob)
          /\ blobs' = Attached(blobs, r.blob)
          /\ UNCHANGED short

\* Mutant of SaveOver: the object written over the old one is not counted.
SaveOverUncounted(p) ==
    LET r == req[p]
    IN  /\ r.mode = "overwrite"
        /\ \E i \in Files \cap Entry(r.owner, r.parent, r.name) :
             /\ Unlocked({i}) /\ ~rows[i].admin_blocked
             /\ ForeignKeys(r.owner, r.parent, r.blob)
             /\ rows' = [rows EXCEPT ![i].blob = r.blob]
             /\ blobs' = Released(blobs, One(rows[i].blob))
             /\ short' = IF rows[i].purged THEN short \cup {rows[i].blob} ELSE short

\* A purged row that is active still has given its object back already.
SaveOver(p) ==
    LET r == req[p]
    IN  /\ r.mode = "overwrite"
        /\ \E i \in Files \cap Entry(r.owner, r.parent, r.name) :
             /\ Unlocked({i}) /\ ~rows[i].admin_blocked
             /\ ForeignKeys(r.owner, r.parent, r.blob)
             /\ rows' = [rows EXCEPT ![i].blob = r.blob]
             /\ blobs' = Released(Attached(blobs, r.blob), One(rows[i].blob))
             /\ short' = IF rows[i].purged THEN short \cup {rows[i].blob} ELSE short

SaveUploadedFile(p) ==
    /\ req[p].step = "validated"
    /\ SaveNew(p) \/ SaveOver(p)
    /\ \/ Finish(p)
       \/ LossyCommit /\ req[p].fresh /\ Become(p, "release")
    /\ UNCHANGED <<stored, owners, cleaner>>

\* Any error of SaveUploadedFile.  The chunked upload then releases the object
\* it created; the instant upload created none.
SaveFails(p) ==
    /\ req[p].step \in {"created", "validated"} /\ req[p].fresh
    /\ Become(p, "release")
    /\ UNCHANGED <<rows, blobs, stored, owners, cleaner, short>>

\* The reference is there only if the COMMIT was not what had failed.
ReleaseUnsaved(p) ==
    LET b == req[p].blob
    IN  /\ req[p].step = "release"
        /\ blobs' = Released(blobs, One(b))
        /\ short' = IF blobs[b].ref > 0 THEN short \cup {b} ELSE short
        /\ Finish(p)
        /\ UNCHANGED <<rows, stored, owners, cleaner>>

-----------------------------------------------------------------------------
(* The owner's folders, trash and purge.                                   *)

BeginFolder(p, o, par, n) ==
    /\ o \in owners
    /\ ParentUsable(o, par)
    /\ Start(p, [IdleRequest EXCEPT !.step = "folder", !.owner = o,
                    !.parent = par, !.name = n])
    /\ UNCHANGED <<rows, blobs, stored, owners, cleaner, short>>

CreateFolder(p) ==
    /\ req[p].step = "folder"
    /\ \E i \in Folders :
         InsertRow(i, req[p].owner, req[p].parent, req[p].name, NoBlob)
    /\ Finish(p)
    /\ UNCHANGED <<blobs, stored, owners, cleaner, short>>

RenameOwned(p, i, n) ==
    /\ Free(p)
    /\ Active(i) /\ ~rows[i].admin_blocked /\ rows[i].name # n
    /\ Unlocked({i})
    /\ rows' = [rows EXCEPT ![i].name = n]
    /\ SiblingNamesUnique(rows')
    /\ UNCHANGED <<blobs, stored, owners, req, cleaner, short>>

\* The rows a tree statement selects from its snapshot.  The UPDATE around it
\* runs on these ids: a row changed in between is not selected again.
SelectTree(p, step, root, ok, n) ==
    /\ Start(p, [IdleRequest EXCEPT !.step = step, !.name = n,
                    !.seen = {<<i, rows[i].blob>> : i \in Tree(root, ok)}])
    /\ UNCHANGED <<rows, blobs, stored, owners, cleaner, short>>

SelectTrash(p, i) ==
    LET ok == {j \in Ids : Active(j) /\ ~rows[j].purged /\ OwnerOf[j] = OwnerOf[i]}
    IN  /\ Active(i) /\ ~rows[i].admin_blocked
        /\ SelectTree(p, "trash", i, ok, AnyName)

MoveToTrashOwned(p) ==
    /\ req[p].step = "trash"
    /\ Unlocked(Seen(p))
    /\ rows' = [i \in Ids |-> IF i \in Seen(p) /\ Present(i)
                              THEN [rows[i] EXCEPT !.trashed = TRUE]
                              ELSE rows[i]]
    /\ Finish(p)
    /\ UNCHANGED <<blobs, stored, owners, cleaner, short>>

\* The root is locked, under its own name or a free one when that is taken.
SelectRestore(p, i) ==
    LET Trashed(j) == Present(j) /\ rows[j].trashed /\ ~rows[j].purged
        ok == {j \in Ids : Trashed(j) /\ OwnerOf[j] = OwnerOf[i]}
        free == FreeNames(OwnerOf[i], rows[i].parent)
    IN  /\ Trashed(i) /\ ~rows[i].restore_blocked
        /\ rows[i].parent # Root => ~rows[rows[i].parent].trashed
        /\ Unlocked({i})
        /\ \E n \in free : /\ rows[i].name \in free => n = rows[i].name
                           /\ SelectTree(p, "restore", i, ok, n)

RestoreOwned(p) ==
    /\ req[p].step = "restore"
    /\ UnlockedBy(Requests \ {p}, Seen(p))
    /\ rows' = [i \in Ids |->
                  IF i \in Seen(p) /\ Present(i)
                  THEN [rows[i] EXCEPT !.trashed = FALSE,
                          !.name = IF i \in Rooted(p) THEN req[p].name ELSE @]
                  ELSE rows[i]]
    /\ SiblingNamesUnique(rows')
    /\ Finish(p)
    /\ UNCHANGED <<blobs, stored, owners, cleaner, short>>

\* purged_at set on S; each row gives back the reference it holds now.
Purge(S) ==
    /\ S # {}
    /\ Unlocked(S)
    /\ rows' = [i \in Ids |-> IF i \in S THEN [rows[i] EXCEPT !.purged = TRUE]
                              ELSE rows[i]]
    /\ blobs' = Released(blobs, RefsOf(S))

\* A child need not be trashed itself to be purged with its folder.
SelectPurge(p, i) ==
    LET ok == {j \in Ids : /\ Present(j) /\ ~rows[j].purged /\ ~Restricted(j)
                           /\ OwnerOf[j] = OwnerOf[i]}
    IN  /\ i \in ok /\ rows[i].trashed
        /\ SelectTree(p, "purge", i, ok, AnyName)

PurgeTrashedOwned(p) ==
    /\ req[p].step = "purge"
    /\ Purge({i \in Seen(p) : Present(i) /\ ~rows[i].purged})
    /\ Finish(p)
    /\ UNCHANGED <<stored, owners, cleaner, short>>

\* One statement whose whole predicate is on the row it updates.
Purgeable(i) == Present(i) /\ rows[i].trashed /\ ~rows[i].purged /\ ~Restricted(i)

PurgeAllTrashOwned(p, o) ==
    /\ Free(p)
    /\ Purge({i \in Ids : Purgeable(i) /\ OwnerOf[i] = o})
    /\ UNCHANGED <<stored, owners, req, cleaner, short>>

\* The hourly loop: the trashed rows whose retention is over, any of them.
MarkTrashExpiredPurged(p) ==
    /\ Free(p)
    /\ \E S \in SUBSET {i \in Ids : Purgeable(i)} : Purge(S)
    /\ UNCHANGED <<stored, owners, req, cleaner, short>>

-----------------------------------------------------------------------------
(* The administrator.                                                      *)

\* Deleting trashes the file; undoing a deletion brings it back, unless its
\* owner purged it.
SetAdminDisposition(p, i, delete, block) ==
    LET keep == rows[i].trashed /\ (~rows[i].restore_blocked \/ rows[i].purged)
    IN  /\ Free(p)
        /\ Present(i) /\ Unlocked({i})
        /\ rows' = [rows EXCEPT ![i].trashed = delete \/ keep,
                                ![i].restore_blocked = delete,
                                ![i].admin_blocked = block]
        /\ SiblingNamesUnique(rows')
        /\ UNCHANGED <<blobs, stored, owners, req, cleaner, short>>

\* DeleteAdminTrashedFile reads the row before its transaction begins ...
ReadAdminTrashed(p, i) ==
    /\ Present(i) /\ rows[i].trashed /\ rows[i].restore_blocked
    /\ Start(p, [IdleRequest EXCEPT !.step = "admin_delete",
                    !.seen = {<<i, rows[i].blob>>}])
    /\ UNCHANGED <<rows, blobs, stored, owners, cleaner, short>>

\* Mutant of DeleteAdminTrashedFile: releases the row of a purged file again.
DeleteAdminTrashedFileTwice(p) ==
    /\ req[p].step = "admin_delete"
    /\ \E x \in req[p].seen :
         /\ Present(x[1]) /\ rows[x[1]].trashed /\ rows[x[1]].restore_blocked
         /\ Unlocked({x[1]})
         /\ rows' = [rows EXCEPT ![x[1]] = BlankRow("deleted")]
         /\ blobs' = Released(blobs, One(x[2]))
         /\ short' = IF rows[x[1]].blob = x[2] THEN short ELSE short \cup {x[2]}
    /\ Finish(p)
    /\ UNCHANGED <<stored, owners, cleaner>>

\* ... and releases the object it read then, unless the row was purged.
DeleteAdminTrashedFile(p) ==
    /\ req[p].step = "admin_delete"
    /\ \E x \in req[p].seen :
         /\ Present(x[1]) /\ rows[x[1]].trashed /\ rows[x[1]].restore_blocked
         /\ Unlocked({x[1]})
         /\ rows' = [rows EXCEPT ![x[1]] = BlankRow("deleted")]
         /\ blobs' = IF rows[x[1]].purged THEN blobs ELSE Released(blobs, One(x[2]))
         /\ short' = IF rows[x[1]].purged \/ rows[x[1]].blob = x[2] THEN short
                     ELSE short \cup {x[2]}
    /\ Finish(p)
    /\ UNCHANGED <<stored, owners, cleaner>>

\* DeleteUser locks the user and lists the objects its unpurged rows hold.
CollectUser(p, o) ==
    /\ o \in owners /\ UserUnlocked(o)
    /\ Start(p, [IdleRequest EXCEPT !.step = "user_locked", !.owner = o,
          !.seen = {<<i, rows[i].blob>> : i \in {j \in Files :
                      Present(j) /\ OwnerOf[j] = o /\ ~rows[j].purged}}])
    /\ UNCHANGED <<rows, blobs, stored, owners, cleaner, short>>

DeleteUser(p) ==
    LET mine == {i \in Ids : Present(i) /\ OwnerOf[i] = req[p].owner}
    IN  /\ req[p].step = "user_locked"
        /\ Unlocked(mine)
        /\ owners' = owners \ {req[p].owner}
        /\ rows' = [i \in Ids |-> IF i \in mine THEN BlankRow("deleted") ELSE rows[i]]
        /\ short' = short \cup {x[2] : x \in {y \in req[p].seen : y[1] \notin Holders(y[2])}}
        /\ Become(p, "user_deleted")
        /\ UNCHANGED <<blobs, stored, cleaner>>

\* The handler gives the listed references back one by one afterwards; a release
\* that fails is logged and passed over.
ReleaseDeletedUser(p) ==
    /\ req[p].step = "user_deleted"
    /\ \/ /\ req[p].seen = {} /\ Finish(p) /\ UNCHANGED blobs
       \/ \E x \in req[p].seen :
            /\ blobs' \in {blobs, Released(blobs, One(x[2]))}
            /\ req' = [req EXCEPT ![p].seen = @ \ {x}]
    /\ UNCHANGED <<rows, stored, owners, cleaner, short>>

-----------------------------------------------------------------------------
(* The maintenance executor on a purge_orphan task.                        *)

\* A confirmed scan: every object registered as an orphan.
ScanOrphans ==
    LET orphans == {b \in Blobs : blobs[b].status = "orphaned" /\ blobs[b].ref = 0}
    IN  /\ cleaner.step = "idle" /\ orphans # {}
        /\ cleaner' = [step |-> "running", todo |-> orphans, blob |-> NoBlob]
        /\ UNCHANGED <<rows, blobs, stored, owners, req, short>>

NextItem(b) ==
    LET rest == cleaner.todo \ {b}
    IN  IF rest = {} THEN IdleCleaner
        ELSE [step |-> "running", todo |-> rest, blob |-> NoBlob]

\* Reads the object: gone or referenced again it is skipped, else its
\* locators are taken before anything is removed.
TakeOrphan(b) ==
    /\ cleaner.step = "running" /\ b \in cleaner.todo
    /\ cleaner' = IF InTable(b) /\ blobs[b].ref = 0
                  THEN [cleaner EXCEPT !.step = "refs", !.blob = b]
                  ELSE NextItem(b)
    /\ UNCHANGED <<rows, blobs, stored, owners, req, short>>

\* Mutant of Droppable: the count alone decides, no foreign key.
DroppableByCount(b) == InTable(b) /\ blobs[b].ref = 0

\* DELETE ... WHERE ref_count <= 0, which the foreign key of resources.blob_id
\* refuses while any row, purged or not, still names the object.
Droppable(b) == InTable(b) /\ blobs[b].ref = 0 /\ Referrers(b) = {}

\* Mutant of DropObject: the object is deleted before its row.
DropObjectReversed ==
    LET b == cleaner.blob
    IN  /\ cleaner.step = "refs"
        /\ stored' = stored \ {b}
        /\ IF Droppable(b)
           THEN /\ blobs' = [blobs EXCEPT ![b] = [status |-> "dropped", ref |-> 0]]
                /\ cleaner' = [cleaner EXCEPT !.step = "delete"]
           ELSE cleaner' = NextItem(b) /\ UNCHANGED blobs
        /\ UNCHANGED <<rows, owners, req, short>>

DropObject ==
    LET b == cleaner.blob
    IN  /\ cleaner.step = "refs"
        /\ IF Droppable(b)
           THEN /\ blobs' = [blobs EXCEPT ![b] = [status |-> "dropped", ref |-> 0]]
                /\ cleaner' = [cleaner EXCEPT !.step = "delete"]
           ELSE cleaner' = NextItem(b) /\ UNCHANGED blobs
        /\ UNCHANGED <<rows, stored, owners, req, short>>

\* The backend deletes the object, or fails and the item is marked failed.
DeletePhysicalRefs ==
    /\ cleaner.step = "delete"
    /\ stored' \in {stored, stored \ {cleaner.blob}}
    /\ cleaner' = NextItem(cleaner.blob)
    /\ UNCHANGED <<rows, blobs, owners, req, short>>

\* A restart marks the running task failed; its remaining items are not taken up.
InterruptTask ==
    /\ cleaner.step # "idle"
    /\ cleaner' = IdleCleaner
    /\ UNCHANGED <<rows, blobs, stored, owners, req, short>>

-----------------------------------------------------------------------------
UploadStep(p) ==
    \/ \E o \in Owners, par \in Parents, n \in Names, m \in Modes, b \in Blobs :
          WriteObject(p, o, par, n, m, b) \/ ReuseObject(p, o, par, n, m, b)
    \/ InsertObject(p)
    \/ InsertFails(p)
    \/ ValidateParent(p)
    \/ SaveUploadedFile(p)
    \/ SaveFails(p)
    \/ ReleaseUnsaved(p)

\* The handlers of a user's files, folders and trash, ...
FolderStep(p) ==
    \/ \E o \in Owners, par \in Parents, n \in Names : BeginFolder(p, o, par, n)
    \/ CreateFolder(p)

ItemStep(p) ==
    \/ \E i \in Ids, n \in Names : RenameOwned(p, i, n)
    \/ \E i \in Ids : SelectTrash(p, i)
    \/ MoveToTrashOwned(p)

TrashStep(p) ==
    \/ \E i \in Ids : SelectRestore(p, i) \/ SelectPurge(p, i)
    \/ RestoreOwned(p)
    \/ PurgeTrashedOwned(p)
    \/ \E o \in Owners : PurgeAllTrashOwned(p, o)

OwnerStep(p) == FolderStep(p) \/ ItemStep(p) \/ TrashStep(p)

\* ... and of administrators: reviews, the trash of reviews, users.
ReviewTrashStep(p) ==
    \/ \E i \in Files : ReadAdminTrashed(p, i)
    \/ DeleteAdminTrashedFile(p)

UserStep(p) ==
    \/ \E o \in Owners : CollectUser(p, o)
    \/ DeleteUser(p)
    \/ ReleaseDeletedUser(p)

AdminStep(p) ==
    \/ \E i \in Files, delete, block \in BOOLEAN : SetAdminDisposition(p, i, delete, block)
    \/ ReviewTrashStep(p)
    \/ UserStep(p)

ExecutorStep ==
    \/ ScanOrphans
    \/ \E b \in Blobs : TakeOrphan(b)
    \/ DropObject
    \/ DeletePhysicalRefs
    \/ InterruptTask

Next ==
    \/ \E p \in Requests : \/ UploadStep(p) \/ OwnerStep(p) \/ AdminStep(p)
                           \/ MarkTrashExpiredPurged(p) \/ Abandon(p)
    \/ ExecutorStep

Spec == Init /\ [][Next]_vars

\* The administrator keeps running purge tasks, and some of them get to each
\* object without a restart in between.
DropOf(b) == cleaner.blob = b /\ DropObject

Fairness ==
    /\ WF_vars(ScanOrphans)
    /\ WF_vars(DeletePhysicalRefs)
    /\ \A b \in Blobs : SF_vars(TakeOrphan(b)) /\ SF_vars(DropOf(b))

FairSpec == Spec /\ Fairness

-----------------------------------------------------------------------------
(* Properties.                                                             *)

\* Every table row and every actor's notes have the shape the schema gives.
TypeOK ==
    /\ rows \in [Ids -> Row]
    /\ blobs \in [Blobs -> Blob]
    /\ stored \subseteq Blobs
    /\ owners \subseteq Owners
    /\ req \in [Requests -> Request]
    /\ cleaner \in Cleaner
    /\ short \subseteq Blobs \cup {NoBlob}

\* No content is lost: whatever uploads, purges, deletions and orphan cleaning
\* interleave, the object of every row in the resources table -- trashed,
\* restricted and purged ones too, which administrators still review -- is
\* registered and physically present, wrong reference counts notwithstanding.
ContentAvailable ==
    \A i \in Ids : Present(i) /\ rows[i].blob # NoBlob =>
                      InTable(rows[i].blob) /\ rows[i].blob \in stored

\* The two columns that decide an object's fate agree: reuse asks for status
\* 'active', cleaning for ref_count <= 0, and no statement may let an object
\* qualify for both or for neither.
StatusFollowsCount ==
    \A b \in Blobs : (blobs[b].status = "active") <=> (blobs[b].ref > 0)

\* No object is counted lower than the rows that still hold it, or content in
\* use would be registered as an orphan: whatever uploads, overwrites, purges,
\* deletions and releases interleave, a count falls short only of an object of
\* which one of four statements returned a reference it had no claim to -- an
\* overwrite of a purged row, an administrator's deletion or the deletion of a
\* user acting on rows read before they changed, the release after a COMMIT that
\* was reported failed.
RefsCoverRows ==
    \A b \in Blobs \ short : Cardinality(Holders(b)) <= blobs[b].ref

\* An object removed from the table stays removed: an upload that found it
\* earlier can no longer attach it.
DroppedIsFinal ==
    [][\A b \in Blobs : blobs[b].status = "dropped" =>
          blobs'[b].status = "dropped" /\ Referrers(b)' = {}]_vars

\* The catalogue keeps the promise of ContentStore: a row's link is a promise
\* of content, whatever the reference counts say.
Store == INSTANCE ContentStore WITH
    Rows <- Ids, Objects <- Blobs, None <- NoBlob,
    link <- [i \in Ids |-> IF Present(i) THEN rows[i].blob ELSE NoBlob],
    kept <- {b \in Blobs : InTable(b) /\ b \in stored},
    gone <- {b \in Blobs : blobs[b].status = "dropped"}

ImplementsContentStore == Store!Spec

\* An unreferenced object is eventually dropped or taken up again, although
\* tasks are interrupted and skip what changes under them.
UnreferencedReclaimed ==
    \A b \in Blobs :
        (InTable(b) /\ blobs[b].ref = 0 /\ Referrers(b) = {})
            ~> (blobs[b].status = "dropped" \/ Referrers(b) # {})

\* What admin/repo.go says of the deletion of a user: no reference is returned
\* twice, so that the files of others are not taken for orphans.
NoneReturnedTwice ==
    \A b \in Blobs : Cardinality(Holders(b)) <= blobs[b].ref

\* What README.md says of the administrator's trash: a file deleted there is seen
\* by its owner and not restored.
RestrictedNotRestored ==
    [][\A p \in Requests : RestoreOwned(p) =>
          \A i \in Ids : rows[i].restore_blocked => rows'[i].trashed = rows[i].trashed]_vars

\* What resource/repo.go says of purging: once the count reaches zero the
\* physical file is reclaimed by the orphan task.
OrphansReclaimed ==
    \A b \in Blobs :
        (blobs[b].status = "orphaned") ~> (blobs[b].status \in {"dropped", "active"})

=============================================================================
