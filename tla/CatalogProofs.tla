---------------------------- MODULE CatalogProofs ----------------------------
(***************************************************************************)
(* Proofs about Catalog: its types; the safety of content (no interleaving  *)
(* of requests, crashes and orphan purges loses the object of a row); that  *)
(* it implements ContentStore; and that, under the same interleavings, only *)
(* the statements recorded in short count an object lower than the rows     *)
(* that hold it.                                                            *)
(***************************************************************************)
EXTENDS Catalog, FiniteSetTheorems, TLAPS

-----------------------------------------------------------------------------
(* What the helpers return.                                                *)

\* An idle request slot is a request: the neutral values exist.
LEMMA IdleRequestType == IdleRequest \in Request
<1>1. AnyName \in Names /\ AnyOwner \in Owners
  BY CatalogAssumption DEF AnyName, AnyOwner
<1>2. QED
  BY <1>1 DEF IdleRequest, Request, Parents, Modes

\* A blank row is a row.
LEMMA BlankRowType ==
    ASSUME NEW st \in {"none", "present", "deleted"}
    PROVE  BlankRow(st) \in Row
<1>1. AnyName \in Names
  BY CatalogAssumption DEF AnyName
<1>2. QED
  BY <1>1 DEF BlankRow, Row, Parents

\* References given back are counted by a natural number.
LEMMA RefsOfType ==
    ASSUME NEW S \in SUBSET Ids
    PROVE  RefsOf(S) \in [Blobs -> Nat]
<1> SUFFICES ASSUME NEW b \in Blobs
             PROVE  Cardinality({i \in S : rows[i].blob = b}) \in Nat
  BY DEF RefsOf
<1>1. IsFiniteSet({i \in S : rows[i].blob = b})
  <2>1. {i \in S : rows[i].blob = b} \subseteq Ids
    OBVIOUS
  <2>2. QED
    BY <2>1, FS_Subset, CatalogAssumption
<1>2. QED
  BY <1>1, FS_CardinalityType

\* A single reference is a family of counts.
LEMMA OneType == \A b : One(b) \in [Blobs -> Nat]
BY DEF One

\* Releasing references keeps the table well formed and neither registers nor
\* removes an object.
LEMMA ReleasedFacts ==
    ASSUME NEW B \in [Blobs -> Blob], NEW n \in [Blobs -> Nat]
    PROVE  /\ Released(B, n) \in [Blobs -> Blob]
           /\ \A b \in Blobs :
                /\ Released(B, n)[b].status \in {"orphaned", "active"}
                      <=> B[b].status \in {"orphaned", "active"}
                /\ B[b].status \notin {"orphaned", "active"}
                      => Released(B, n)[b] = B[b]
<1> SUFFICES ASSUME NEW b \in Blobs
             PROVE  /\ Released(B, n)[b] \in Blob
                    /\ Released(B, n)[b].status \in {"orphaned", "active"}
                          <=> B[b].status \in {"orphaned", "active"}
                    /\ B[b].status \notin {"orphaned", "active"}
                          => Released(B, n)[b] = B[b]
  BY DEF Released
<1>0. B[b] \in Blob /\ n[b] \in Nat
  OBVIOUS
<1>1. CASE B[b].status \in {"orphaned", "active"} /\ n[b] > 0 /\ B[b].ref <= n[b]
  <2>1. Released(B, n)[b] = [status |-> "orphaned", ref |-> 0]
    BY <1>1 DEF Released
  <2>2. QED
    BY <1>1, <2>1 DEF Blob
<1>2. CASE B[b].status \in {"orphaned", "active"} /\ n[b] > 0 /\ ~(B[b].ref <= n[b])
  <2>1. Released(B, n)[b] = [status |-> B[b].status, ref |-> B[b].ref - n[b]]
    BY <1>2 DEF Released
  <2>2. B[b].ref - n[b] \in Nat
    BY <1>0, <1>2 DEF Blob
  <2>3. QED
    BY <1>0, <1>2, <2>1, <2>2 DEF Blob
<1>3. CASE ~(B[b].status \in {"orphaned", "active"} /\ n[b] > 0)
  <2>1. Released(B, n)[b] = B[b]
    BY <1>3 DEF Released
  <2>2. QED
    BY <1>0, <2>1
<1>4. QED
  BY <1>1, <1>2, <1>3

\* An attach registers its object and touches no other.
LEMMA AttachedType ==
    ASSUME NEW B \in [Blobs -> Blob], NEW b
    PROVE  Attached(B, b) \in [Blobs -> Blob]
<1> SUFFICES ASSUME NEW c \in Blobs
             PROVE  Attached(B, b)[c] \in Blob
  BY DEF Attached
<1>1. B[c].ref + 1 \in Nat
  BY DEF Blob
<1>2. CASE c = b
  <2>1. Attached(B, b)[c] = [status |-> "active", ref |-> B[c].ref + 1]
    BY <1>2 DEF Attached
  <2>2. QED
    BY <1>1, <2>1 DEF Blob
<1>3. CASE c # b
  BY <1>3 DEF Attached
<1>4. QED
  BY <1>2, <1>3

\* An attach counts one reference more at its object and leaves the others.
LEMMA AttachedFacts ==
    ASSUME NEW B \in [Blobs -> Blob], NEW b \in Blobs
    PROVE  /\ Attached(B, b)[b] = [status |-> "active", ref |-> B[b].ref + 1]
           /\ \A c \in Blobs \ {b} : Attached(B, b)[c] = B[c]
BY DEF Attached

-----------------------------------------------------------------------------
(* How a step may leave the request slots.                                 *)

\* An idle, a moved or a newly started slot keeps the table of slots typed.
LEMMA FinishType ==
    ASSUME req \in [Requests -> Request], NEW p \in Requests, Finish(p)
    PROVE  req' \in [Requests -> Request]
BY IdleRequestType DEF Finish

\* A slot that goes on to a step of a request is a request.
LEMMA BecomeType ==
    ASSUME req \in [Requests -> Request], NEW p \in Requests,
           NEW s \in {"created", "validated", "release", "user_deleted"},
           Become(p, s)
    PROVE  req' \in [Requests -> Request]
<1>1. [req[p] EXCEPT !.step = s] \in Request
  <2>1. req[p] \in Request
    OBVIOUS
  <2>2. QED
    BY <2>1 DEF Request
<1>2. req' = [req EXCEPT ![p] = [req[p] EXCEPT !.step = s]]
  BY DEF Become
<1>3. QED
  BY <1>1, <1>2

\* A slot that takes up a request is one.
LEMMA StartType ==
    ASSUME req \in [Requests -> Request], NEW p \in Requests,
           NEW r \in Request, Start(p, r)
    PROVE  req' \in [Requests -> Request]
BY DEF Start

\* A row the schema lets in is a row of the table.
LEMMA InsertRowType ==
    ASSUME rows \in [Ids -> Row], NEW i \in Ids, NEW o, NEW par \in Parents,
           NEW n \in Names, NEW b \in Blobs \cup {NoBlob},
           InsertRow(i, o, par, n, b)
    PROVE  rows' \in [Ids -> Row]
<1>1. [BlankRow("present") EXCEPT !.parent = par, !.name = n, !.blob = b] \in Row
  BY BlankRowType DEF Row
<1>2. QED
  BY <1>1 DEF InsertRow

-----------------------------------------------------------------------------
(* Every step of an upload keeps the types.                                *)

\* A step of an upload leaves rows, counts and its slot well formed.
LEMMA UploadType ==
    ASSUME TypeOK, NEW p \in Requests, UploadStep(p)
    PROVE  TypeOK'
<1> USE DEF TypeOK
<1>1. ASSUME NEW o \in Owners, NEW par \in Parents, NEW n \in Names,
             NEW m \in Modes, NEW b \in Blobs, WriteObject(p, o, par, n, m, b)
      PROVE  TypeOK'
  <2> DEFINE r == [IdleRequest EXCEPT !.step = "written", !.owner = o, !.blob = b,
                    !.parent = par, !.name = n, !.mode = m, !.fresh = TRUE]
  <2>1. r \in Request
    BY IdleRequestType DEF Request
  <2>2. req' \in [Requests -> Request]
    BY <1>1, <2>1, StartType DEF WriteObject
  <2>3. QED
    BY <1>1, <2>2 DEF WriteObject
<1>2. ASSUME NEW o \in Owners, NEW par \in Parents, NEW n \in Names,
             NEW m \in Modes, NEW b \in Blobs, ReuseObject(p, o, par, n, m, b)
      PROVE  TypeOK'
  <2> DEFINE r == [IdleRequest EXCEPT !.step = "created", !.owner = o, !.blob = b,
                    !.parent = par, !.name = n, !.mode = m]
  <2>1. r \in Request
    BY IdleRequestType DEF Request
  <2>2. req' \in [Requests -> Request]
    BY <1>2, <2>1, StartType DEF ReuseObject
  <2>3. QED
    BY <1>2, <2>2 DEF ReuseObject
<1>3. CASE InsertObject(p)
  <2>1. req' \in [Requests -> Request]
    BY <1>3, BecomeType DEF InsertObject
  <2>2. blobs' \in [Blobs -> Blob]
    BY <1>3 DEF InsertObject, Blob
  <2>3. QED
    BY <1>3, <2>1, <2>2 DEF InsertObject
<1>4. CASE ValidateParent(p)
  BY <1>4, BecomeType DEF ValidateParent
<1>5. CASE SaveUploadedFile(p)
  <2>1. req' \in [Requests -> Request]
    BY <1>5, FinishType, BecomeType DEF SaveUploadedFile
  <2>2. rows' \in [Ids -> Row] /\ blobs' \in [Blobs -> Blob]
    <3>1. CASE SaveNew(p)
      <4>1. PICK i \in Files, n \in SaveNames(req[p]) :
               /\ InsertRow(i, req[p].owner, req[p].parent, n, req[p].blob)
               /\ blobs' = Attached(blobs, req[p].blob)
        BY <3>1 DEF SaveNew
      <4>2. req[p] \in Request
        OBVIOUS
      <4>3. n \in Names
        BY DEF SaveNames, FreeNames
      <4>4. rows' \in [Ids -> Row]
        BY <4>1, <4>2, <4>3, InsertRowType DEF Request, Ids
      <4>5. blobs' \in [Blobs -> Blob]
        BY <4>1, AttachedType
      <4>6. QED
        BY <4>4, <4>5
    <3>2. CASE SaveOver(p)
      <4>1. PICK i \in Files :
               /\ rows' = [rows EXCEPT ![i].blob = req[p].blob]
               /\ blobs' = Released(Attached(blobs, req[p].blob), One(rows[i].blob))
        BY <3>2 DEF SaveOver
      <4>2. req[p].blob \in Blobs \cup {NoBlob}
        BY DEF Request
      <4>3. rows' \in [Ids -> Row]
        BY <4>1, <4>2 DEF Row, Ids
      <4>4. blobs' \in [Blobs -> Blob]
        BY <4>1, AttachedType, ReleasedFacts, OneType
      <4>5. QED
        BY <4>3, <4>4
    <3>3. QED
      BY <1>5, <3>1, <3>2 DEF SaveUploadedFile
  <2>3. short' \subseteq Blobs \cup {NoBlob}
    <3>1. CASE SaveNew(p)
      BY <3>1 DEF SaveNew
    <3>2. CASE SaveOver(p)
      <4>1. PICK i \in Files :
               short' = IF rows[i].purged THEN short \cup {rows[i].blob} ELSE short
        BY <3>2 DEF SaveOver
      <4>2. rows[i].blob \in Blobs \cup {NoBlob}
        BY DEF Row, Ids
      <4>3. QED
        BY <4>1, <4>2
    <3>3. QED
      BY <1>5, <3>1, <3>2 DEF SaveUploadedFile
  <2>4. QED
    BY <1>5, <2>1, <2>2, <2>3 DEF SaveUploadedFile
<1>6. CASE SaveFails(p)
  BY <1>6, BecomeType DEF SaveFails
<1>7. CASE ReleaseUnsaved(p)
  <2>1. req[p].blob \in Blobs \cup {NoBlob}
    BY DEF Request
  <2>2. short' \subseteq Blobs \cup {NoBlob}
    BY <1>7, <2>1 DEF ReleaseUnsaved
  <2>3. QED
    BY <1>7, <2>2, FinishType, ReleasedFacts, OneType DEF ReleaseUnsaved
<1>8. CASE InsertFails(p)
  BY <1>8, FinishType DEF InsertFails
<1>9. QED
  BY <1>1, <1>2, <1>3, <1>4, <1>5, <1>6, <1>7, <1>8 DEF UploadStep

-----------------------------------------------------------------------------
(* Every step of an owner keeps the types.                                 *)

\* A tree statement notes ids and the objects their rows name.
LEMMA SelectTreeType ==
    ASSUME TypeOK, NEW p \in Requests, NEW step \in {"trash", "restore", "purge"},
           NEW root, NEW ok, NEW n \in Names, SelectTree(p, step, root, ok, n)
    PROVE  TypeOK'
<1> USE DEF TypeOK
<1> DEFINE seen == {<<i, rows[i].blob>> : i \in Tree(root, ok)}
<1> DEFINE r == [IdleRequest EXCEPT !.step = step, !.name = n, !.seen = seen]
<1>1. Tree(root, ok) \subseteq Ids
  BY DEF Tree
<1>2. seen \in SUBSET (Ids \X (Blobs \cup {NoBlob}))
  BY <1>1 DEF Row
<1>3. r \in Request
  <2> HIDE DEF seen
  <2> QED
    BY <1>2, IdleRequestType DEF Request
<1>4. Start(p, r)
  BY DEF SelectTree
<1>5. req' \in [Requests -> Request]
  <2> HIDE DEF r
  <2> QED
    BY <1>3, <1>4, StartType
<1>6. QED
  BY <1>5 DEF SelectTree

\* A purge marks rows and gives their references back.
LEMMA PurgeType ==
    ASSUME TypeOK, NEW S \in SUBSET Ids, Purge(S)
    PROVE  rows' \in [Ids -> Row] /\ blobs' \in [Blobs -> Blob]
<1>1. rows' \in [Ids -> Row]
  BY DEF Purge, TypeOK, Row
<1>2. blobs' \in [Blobs -> Blob]
  BY RefsOfType, ReleasedFacts DEF Purge, TypeOK
<1>3. QED
  BY <1>1, <1>2

\* A step of an owner's folder, trash or purge operation keeps the types.
LEMMA OwnerType ==
    ASSUME TypeOK, NEW p \in Requests, OwnerStep(p)
    PROVE  TypeOK'
<1> USE DEF TypeOK
<1>0. req[p] \in Request /\ AnyName \in Names
  BY CatalogAssumption DEF AnyName
<1>1. ASSUME NEW o \in Owners, NEW par \in Parents, NEW n \in Names,
             BeginFolder(p, o, par, n)
      PROVE  TypeOK'
  <2> DEFINE r == [IdleRequest EXCEPT !.step = "folder", !.owner = o,
                    !.parent = par, !.name = n]
  <2>1. r \in Request
    BY IdleRequestType DEF Request
  <2>2. req' \in [Requests -> Request]
    BY <1>1, <2>1, StartType DEF BeginFolder
  <2>3. QED
    BY <1>1, <2>2 DEF BeginFolder
<1>2. CASE CreateFolder(p)
  <2>1. req' \in [Requests -> Request]
    BY <1>2, FinishType DEF CreateFolder
  <2>2. rows' \in [Ids -> Row]
    <3>1. PICK i \in Folders :
             InsertRow(i, req[p].owner, req[p].parent, req[p].name, NoBlob)
      BY <1>2 DEF CreateFolder
    <3>2. req[p].parent \in Parents /\ req[p].name \in Names
      BY <1>0 DEF Request
    <3>3. QED
      BY <3>1, <3>2, InsertRowType DEF Ids
  <2>3. QED
    BY <1>2, <2>1, <2>2 DEF CreateFolder
<1>3. ASSUME NEW i \in Ids, NEW n \in Names, RenameOwned(p, i, n)
      PROVE  TypeOK'
  BY <1>3 DEF RenameOwned, Row
<1>4. ASSUME NEW i \in Ids, SelectTrash(p, i)
      PROVE  TypeOK'
  <2> DEFINE ok == {j \in Ids : Active(j) /\ ~rows[j].purged /\ OwnerOf[j] = OwnerOf[i]}
  <2>1. SelectTree(p, "trash", i, ok, AnyName)
    BY <1>4 DEF SelectTrash
  <2> HIDE DEF ok
  <2>2. QED
    BY <1>0, <2>1, SelectTreeType
<1>5. ASSUME NEW i \in Ids, SelectRestore(p, i)
      PROVE  TypeOK'
  <2> DEFINE Trashed(j) == Present(j) /\ rows[j].trashed /\ ~rows[j].purged
  <2> DEFINE ok == {j \in Ids : Trashed(j) /\ OwnerOf[j] = OwnerOf[i]}
  <2>1. PICK n \in FreeNames(OwnerOf[i], rows[i].parent) :
           SelectTree(p, "restore", i, ok, n)
    BY <1>5 DEF SelectRestore
  <2> HIDE DEF ok
  <2>2. QED
    BY <2>1, SelectTreeType DEF FreeNames
<1>6. ASSUME NEW i \in Ids, SelectPurge(p, i)
      PROVE  TypeOK'
  <2> DEFINE ok == {j \in Ids : /\ Present(j) /\ ~rows[j].purged /\ ~Restricted(j)
                                 /\ OwnerOf[j] = OwnerOf[i]}
  <2>1. SelectTree(p, "purge", i, ok, AnyName)
    BY <1>6 DEF SelectPurge
  <2> HIDE DEF ok
  <2>2. QED
    BY <1>0, <2>1, SelectTreeType
<1>7. CASE MoveToTrashOwned(p)
  BY <1>7, FinishType DEF MoveToTrashOwned, Row
<1>8. CASE RestoreOwned(p)
  <2>1. ASSUME NEW i \in Ids
        PROVE  rows'[i] \in Row
    <3>1. rows[i] \in Row /\ req[p].name \in Names
      BY <1>0 DEF Request
    <3>2. CASE i \in Seen(p) /\ Present(i)
      <4> DEFINE nm == IF i \in Rooted(p) THEN req[p].name ELSE rows[i].name
      <4>1. nm \in Names
        BY <3>1 DEF Row
      <4>2. rows'[i] = [rows[i] EXCEPT !.trashed = FALSE, !.name = nm]
        BY <1>8, <3>2 DEF RestoreOwned
      <4> HIDE DEF nm
      <4>3. QED
        BY <3>1, <4>1, <4>2 DEF Row
    <3>3. CASE ~(i \in Seen(p) /\ Present(i))
      BY <1>8, <3>1, <3>3 DEF RestoreOwned
    <3>4. QED
      BY <3>2, <3>3
  <2>2. rows' \in [Ids -> Row]
    BY <1>8, <2>1 DEF RestoreOwned
  <2>3. QED
    BY <1>8, <2>2, FinishType DEF RestoreOwned
<1>9. CASE PurgeTrashedOwned(p)
  <2>1. {i \in Seen(p) : Present(i) /\ ~rows[i].purged} \in SUBSET Ids
    BY <1>0 DEF Seen, Request
  <2>2. QED
    BY <1>9, <2>1, PurgeType, FinishType DEF PurgeTrashedOwned
<1>10. ASSUME NEW o \in Owners, PurgeAllTrashOwned(p, o)
       PROVE  TypeOK'
  BY <1>10, PurgeType DEF PurgeAllTrashOwned
<1>11. QED
  BY <1>1, <1>2, <1>3, <1>4, <1>5, <1>6, <1>7, <1>8, <1>9, <1>10 DEF OwnerStep, FolderStep, ItemStep,
     TrashStep

-----------------------------------------------------------------------------
(* Every step of an administrator and of the executor keeps the types.     *)

\* A step of an administrator's disposition or deletion keeps the types.
LEMMA AdminType ==
    ASSUME TypeOK, NEW p \in Requests, AdminStep(p)
    PROVE  TypeOK'
<1> USE DEF TypeOK
<1>0. req[p] \in Request
  OBVIOUS
<1>1. ASSUME NEW i \in Files, NEW delete \in BOOLEAN, NEW block \in BOOLEAN,
             SetAdminDisposition(p, i, delete, block)
      PROVE  TypeOK'
  BY <1>1 DEF SetAdminDisposition, Row, Ids
<1>2. ASSUME NEW i \in Files, ReadAdminTrashed(p, i)
      PROVE  TypeOK'
  <2> DEFINE seen == {<<i, rows[i].blob>>}
  <2> DEFINE r == [IdleRequest EXCEPT !.step = "admin_delete", !.seen = seen]
  <2>1. seen \in SUBSET (Ids \X (Blobs \cup {NoBlob}))
    BY DEF Ids, Row
  <2> HIDE DEF seen
  <2>2. r \in Request
    BY <2>1, IdleRequestType DEF Request
  <2>3. Start(p, r)
    BY <1>2 DEF ReadAdminTrashed, seen
  <2> HIDE DEF r
  <2>4. req' \in [Requests -> Request]
    BY <2>2, <2>3, StartType
  <2>5. QED
    BY <1>2, <2>4 DEF ReadAdminTrashed
<1>3. CASE DeleteAdminTrashedFile(p)
  <2>1. PICK x \in req[p].seen :
           /\ rows' = [rows EXCEPT ![x[1]] = BlankRow("deleted")]
           /\ blobs' = IF rows[x[1]].purged THEN blobs ELSE Released(blobs, One(x[2]))
           /\ short' \subseteq short \cup {x[2]}
    BY <1>3 DEF DeleteAdminTrashedFile
  <2>2. rows' \in [Ids -> Row]
    BY <2>1, BlankRowType
  <2>3. blobs' \in [Blobs -> Blob]
    BY <2>1, ReleasedFacts, OneType
  <2>4. x[2] \in Blobs \cup {NoBlob}
    BY <1>0 DEF Request
  <2>5. QED
    BY <1>3, <2>1, <2>2, <2>3, <2>4, FinishType DEF DeleteAdminTrashedFile
<1>4. ASSUME NEW o \in Owners, CollectUser(p, o)
      PROVE  TypeOK'
  <2> DEFINE seen == {<<i, rows[i].blob>> : i \in {j \in Files :
                       Present(j) /\ OwnerOf[j] = o /\ ~rows[j].purged}}
  <2> DEFINE r == [IdleRequest EXCEPT !.step = "user_locked", !.owner = o,
                     !.seen = seen]
  <2>1. seen \in SUBSET (Ids \X (Blobs \cup {NoBlob}))
    BY DEF Ids, Row
  <2> HIDE DEF seen
  <2>2. r \in Request
    BY <2>1, IdleRequestType DEF Request
  <2>3. Start(p, r)
    BY <1>4 DEF CollectUser, seen
  <2> HIDE DEF r
  <2>4. req' \in [Requests -> Request]
    BY <2>2, <2>3, StartType
  <2>5. QED
    BY <1>4, <2>4 DEF CollectUser
<1>5. CASE DeleteUser(p)
  <2>1. rows' \in [Ids -> Row]
    BY <1>5, BlankRowType DEF DeleteUser
  <2>2. \A x \in req[p].seen : x[2] \in Blobs \cup {NoBlob}
    BY <1>0 DEF Request
  <2>3. short' \subseteq Blobs \cup {NoBlob}
    BY <1>5, <2>2 DEF DeleteUser
  <2>4. QED
    BY <1>5, <2>1, <2>3, BecomeType DEF DeleteUser
<1>6. CASE ReleaseDeletedUser(p)
  <2>1. CASE req[p].seen = {} /\ Finish(p) /\ UNCHANGED blobs
    BY <1>6, <2>1, FinishType DEF ReleaseDeletedUser
  <2>2. ASSUME NEW x \in req[p].seen,
               blobs' \in {blobs, Released(blobs, One(x[2]))},
               req' = [req EXCEPT ![p].seen = @ \ {x}]
        PROVE  TypeOK'
    <3>1. blobs' \in [Blobs -> Blob]
      BY <2>2, ReleasedFacts, OneType
    <3>2. [req[p] EXCEPT !.seen = @ \ {x}] \in Request
      BY <1>0 DEF Request
    <3>3. req' \in [Requests -> Request]
      BY <2>2, <3>2
    <3>4. QED
      BY <1>6, <3>1, <3>3 DEF ReleaseDeletedUser
  <2>3. QED
    BY <1>6, <2>1, <2>2 DEF ReleaseDeletedUser
<1>7. QED
  BY <1>1, <1>2, <1>3, <1>4, <1>5, <1>6 DEF AdminStep, ReviewTrashStep, UserStep

\* What the executor turns to next is a well-formed note.
LEMMA NextItemType ==
    ASSUME cleaner \in Cleaner, NEW b
    PROVE  NextItem(b) \in Cleaner
BY DEF NextItem, IdleCleaner, Cleaner

\* A step of the purge executor keeps the types.
LEMMA ExecutorType ==
    ASSUME TypeOK, ExecutorStep
    PROVE  TypeOK'
<1> USE DEF TypeOK
<1>1. CASE ScanOrphans
  BY <1>1 DEF ScanOrphans, Cleaner
<1>2. ASSUME NEW b \in Blobs, TakeOrphan(b)
      PROVE  TypeOK'
  BY <1>2, NextItemType DEF TakeOrphan, Cleaner
<1>3. CASE DropObject
  <2>1. cleaner' \in Cleaner
    BY <1>3, NextItemType DEF DropObject, Cleaner
  <2>2. blobs' \in [Blobs -> Blob]
    BY <1>3 DEF DropObject, Blob
  <2>3. QED
    BY <1>3, <2>1, <2>2 DEF DropObject
<1>4. CASE DeletePhysicalRefs
  BY <1>4, NextItemType DEF DeletePhysicalRefs
<1>5. CASE InterruptTask
  BY <1>5 DEF InterruptTask, IdleCleaner, Cleaner
<1>6. QED
  BY <1>1, <1>2, <1>3, <1>4, <1>5 DEF ExecutorStep

\* Type correctness: every table row and every note keeps the shape the schema
\* and the handlers give it, for any number of ids, objects and requests.
THEOREM TypeCorrect == Spec => []TypeOK
<1>1. Init => TypeOK
  BY IdleRequestType, BlankRowType
     DEF Init, TypeOK, Blob, IdleCleaner, Cleaner
<1>2. TypeOK /\ [Next]_vars => TypeOK'
  <2> SUFFICES ASSUME TypeOK, [Next]_vars
               PROVE  TypeOK'
    OBVIOUS
  <2>1. ASSUME NEW p \in Requests, MarkTrashExpiredPurged(p)
        PROVE  TypeOK'
    <3>1. PICK S \in SUBSET {i \in Ids : Purgeable(i)} : Purge(S)
      BY <2>1 DEF MarkTrashExpiredPurged
    <3>2. QED
      BY <2>1, <3>1, PurgeType DEF MarkTrashExpiredPurged, TypeOK
  <2>2. ASSUME NEW p \in Requests, Abandon(p)
        PROVE  TypeOK'
    BY <2>2, FinishType DEF Abandon, TypeOK
  <2>3. CASE UNCHANGED vars
    BY <2>3 DEF vars, TypeOK
  <2>4. QED
    BY <2>1, <2>2, <2>3, UploadType, OwnerType, AdminType, ExecutorType DEF Next
<1>3. QED
  BY <1>1, <1>2, PTL DEF Spec

-----------------------------------------------------------------------------
(* The inductive invariant behind ContentAvailable and DroppedIsFinal.     *)

\* A registered object is physically present.
Registered == \A b \in Blobs : InTable(b) => b \in stored

\* An object still being written has no row yet, and one writer.
Written(p) == req[p].step = "written"

WritesPending ==
    /\ \A p \in Requests : Written(p) =>
          req[p].blob \in stored /\ blobs[req[p].blob].status = "none"
    /\ \A p, q \in Requests :
          Written(p) /\ Written(q) /\ req[p].blob = req[q].blob => p = q

\* An upload holds an object from its first step on.
UploadsHoldObjects ==
    \A p \in Requests :
        req[p].step \in {"written", "created", "validated", "release"}
            => req[p].blob \in Blobs

\* The executor deletes only what it has removed from the table.
DeletesDropped ==
    /\ cleaner.step = "refs" => cleaner.blob \in Blobs
    /\ cleaner.step = "delete" => /\ cleaner.blob \in Blobs
                                  /\ blobs[cleaner.blob].status = "dropped"

SafeInv ==
    /\ ContentAvailable
    /\ Registered
    /\ WritesPending
    /\ UploadsHoldObjects
    /\ DeletesDropped
    /\ StatusFollowsCount

\* What a step of a request leaves to the objects: the table registers the
\* same ones ...
SameRegistration ==
    /\ stored' = stored /\ cleaner' = cleaner
    /\ \A b \in Blobs : /\ InTable(b)' <=> InTable(b)
                        /\ ~InTable(b) => blobs'[b] = blobs[b]

\* ... its rows name objects they named before or registered ones ...
LinksRegistered ==
    \A i \in Ids : Present(i)' /\ rows'[i].blob # NoBlob =>
        \/ Present(i) /\ rows'[i].blob = rows[i].blob
        \/ rows'[i].blob \in Blobs /\ InTable(rows'[i].blob)

\* ... and no slot starts to write an object.
NoNewWrites ==
    \A q \in Requests :
        req'[q].step \in {"written", "created", "validated", "release"} =>
            /\ req'[q].blob \in Blobs
            /\ req'[q].step = "written" => Written(q) /\ req'[q].blob = req[q].blob

\* An object dropped from the table stays dropped.
DropsLast ==
    \A b \in Blobs : blobs[b].status = "dropped" => blobs'[b].status = "dropped"

\* A step of this shape keeps the invariant.
LEMMA Frame ==
    ASSUME TypeOK, TypeOK', SafeInv, StatusFollowsCount',
           SameRegistration, LinksRegistered, NoNewWrites
    PROVE  SafeInv' /\ DropsLast
<1> USE DEF SafeInv
<1>1. ContentAvailable'
  <2> SUFFICES ASSUME NEW i \in Ids, Present(i)', (rows[i].blob # NoBlob)'
               PROVE  (InTable(rows[i].blob) /\ rows[i].blob \in stored)'
    BY DEF ContentAvailable
  <2>1. PICK b \in Blobs : rows'[i].blob = b
    BY DEF TypeOK, Row
  <2>2. InTable(b) /\ b \in stored
    BY <2>1 DEF LinksRegistered, ContentAvailable, Registered
  <2>3. InTable(b)' /\ b \in stored'
    BY <2>2 DEF SameRegistration
  <2>4. QED
    BY <2>1, <2>3 DEF InTable
<1>2. Registered'
  BY DEF Registered, SameRegistration
<1>3. WritesPending' /\ UploadsHoldObjects'
  <2>1. ASSUME NEW q \in Requests, Written(q)'
        PROVE  /\ Written(q) /\ req'[q].blob = req[q].blob
               /\ req'[q].blob \in Blobs
    BY <2>1 DEF NoNewWrites, Written
  <2>2. ASSUME NEW q \in Requests, Written(q)'
        PROVE  req'[q].blob \in stored' /\ blobs'[req'[q].blob].status = "none"
    <3>1. /\ req'[q].blob \in stored /\ blobs[req'[q].blob].status = "none"
          /\ req'[q].blob \in Blobs
      BY <2>1, <2>2 DEF WritesPending
    <3>2. ~InTable(req'[q].blob)
      BY <3>1 DEF InTable
    <3>3. QED
      BY <3>1, <3>2 DEF SameRegistration
  <2>3. QED
    BY <2>1, <2>2 DEF WritesPending, UploadsHoldObjects, NoNewWrites, Written
<1>4. DeletesDropped'
  BY DEF DeletesDropped, SameRegistration, InTable
<1>5. DropsLast
  BY DEF DropsLast, SameRegistration, InTable
<1>6. QED
  BY <1>1, <1>2, <1>3, <1>4, <1>5

\* The ways a request slot changes start no write, if the upload's object is
\* known.
LEMMA SlotFacts ==
    ASSUME TypeOK, SafeInv, NEW p \in Requests
    PROVE  /\ Finish(p) => NoNewWrites
           /\ \A s \in {"created", "validated", "release", "user_deleted"} :
                 Become(p, s) /\ (s # "user_deleted" => req[p].blob \in Blobs)
                     => NoNewWrites
           /\ \A r \in Request :
                 /\ Start(p, r) /\ r.step # "written"
                 /\ r.step \in {"created", "validated", "release"} => r.blob \in Blobs
                 => NoNewWrites
           /\ UNCHANGED req => NoNewWrites
BY DEF TypeOK, SafeInv, UploadsHoldObjects, NoNewWrites, Written, Finish, Become,
       Start, IdleRequest, Request

\* Counting references up or down keeps status and count in agreement.
Agrees(B) == \A b \in Blobs : (B[b].status = "active") <=> (B[b].ref > 0)

\* An object that gains a reference is active and counted above zero.
LEMMA AttachedAgrees ==
    ASSUME NEW B \in [Blobs -> Blob], Agrees(B), NEW b \in Blobs
    PROVE  Agrees(Attached(B, b))
BY DEF Attached, Agrees, Blob

\* An object that loses references is orphaned exactly when none is left.
LEMMA ReleasedAgrees ==
    ASSUME NEW B \in [Blobs -> Blob], Agrees(B), NEW n \in [Blobs -> Nat]
    PROVE  Agrees(Released(B, n))
BY DEF Released, Agrees, Blob

\* Giving references back registers the same objects.
LEMMA ReleaseKeeps ==
    ASSUME TypeOK, SafeInv, NEW n \in [Blobs -> Nat], blobs' = Released(blobs, n),
           UNCHANGED <<stored, cleaner>>
    PROVE  SameRegistration /\ StatusFollowsCount'
<1>1. SameRegistration
  BY ReleasedFacts DEF SameRegistration, InTable, TypeOK
<1>2. StatusFollowsCount'
  BY ReleasedAgrees DEF StatusFollowsCount, Agrees, TypeOK, SafeInv
<1>3. QED
  BY <1>1, <1>2

\* Attaching a registered object, and giving references back after it,
\* registers the same objects.
LEMMA AttachKeeps ==
    ASSUME TypeOK, SafeInv, NEW b \in Blobs, InTable(b), NEW n \in [Blobs -> Nat],
           \/ blobs' = Attached(blobs, b)
           \/ blobs' = Released(Attached(blobs, b), n),
           UNCHANGED <<stored, cleaner>>
    PROVE  SameRegistration /\ StatusFollowsCount'
<1> DEFINE B == Attached(blobs, b)
<1>1. B \in [Blobs -> Blob] /\ Agrees(B)
  BY AttachedType, AttachedAgrees DEF TypeOK, SafeInv, StatusFollowsCount, Agrees
<1>2. \A c \in Blobs : /\ B[c].status \in {"orphaned", "active"} <=> InTable(c)
                       /\ ~InTable(c) => B[c] = blobs[c]
  <2>1. B[b].status = "active" /\ \A c \in Blobs \ {b} : B[c] = blobs[c]
    <3>1. blobs \in [Blobs -> Blob]
      BY DEF TypeOK
    <3>2. Attached(blobs, b)[b] = [status |-> "active", ref |-> blobs[b].ref + 1]
      BY <3>1, AttachedFacts
    <3>3. \A c \in Blobs \ {b} : Attached(blobs, b)[c] = blobs[c]
      BY <3>1, AttachedFacts
    <3>4. QED
      BY <3>2, <3>3
  <2> HIDE DEF B
  <2>2. QED
    BY <2>1 DEF InTable
<1> HIDE DEF B
<1>3. CASE blobs' = B
  BY <1>1, <1>2, <1>3 DEF SameRegistration, InTable, StatusFollowsCount, Agrees
<1>4. CASE blobs' = Released(B, n)
  <2>1. SameRegistration
    BY <1>1, <1>2, <1>4, ReleasedFacts DEF SameRegistration, InTable
  <2>2. StatusFollowsCount'
    BY <1>1, <1>4, ReleasedAgrees DEF StatusFollowsCount, Agrees
  <2>3. QED
    BY <2>1, <2>2
<1>5. QED
  BY <1>3, <1>4 DEF B

\* Where rows are left alone, they name what they named.
LEMMA SameRows ==
    ASSUME TypeOK, UNCHANGED rows
    PROVE  LinksRegistered
BY DEF LinksRegistered, Present

\* Rows taken out of the table link to nothing.
LEMMA DeletedLinks ==
    ASSUME TypeOK, \A i \in Ids : \/ rows'[i] = rows[i]
                                 \/ rows'[i] = BlankRow("deleted")
    PROVE  LinksRegistered
BY DEF LinksRegistered, Present, BlankRow

\* Where objects are left alone, what is registered stays so.
LEMMA StutterKeeps ==
    ASSUME TypeOK, SafeInv, UNCHANGED <<blobs, stored, cleaner>>
    PROVE  /\ SameRegistration /\ StatusFollowsCount'
           /\ UNCHANGED rows => LinksRegistered
BY SameRows DEF SameRegistration, InTable, SafeInv, StatusFollowsCount

-----------------------------------------------------------------------------
(* Every step of an upload keeps the invariant.                            *)

\* A row let in by the schema names a registered object.
LEMMA InsertRowLinks ==
    ASSUME TypeOK, NEW i \in Ids, NEW o, NEW par, NEW n, NEW b \in Blobs \cup {NoBlob},
           InsertRow(i, o, par, n, b)
    PROVE  LinksRegistered
<1>1. rows'[i].blob = b /\ (b # NoBlob => InTable(b))
  BY BlankRowType DEF InsertRow, ForeignKeys, BlankRow, TypeOK
<1>2. \A j \in Ids \ {i} : rows'[j] = rows[j]
  BY DEF InsertRow, TypeOK
<1>3. QED
  BY <1>1, <1>2 DEF LinksRegistered, Present

\* Whatever an upload writes, registers, attaches or gives back, the content
\* of every row stays available.
LEMMA UploadSafe ==
    ASSUME TypeOK, TypeOK', SafeInv, NEW p \in Requests, UploadStep(p)
    PROVE  SafeInv' /\ DropsLast
<1>0. req[p] \in Request /\ NoBlob \notin Blobs
  BY CatalogAssumption DEF TypeOK
<1>1. ASSUME NEW o \in Owners, NEW par \in Parents, NEW n \in Names,
             NEW m \in Modes, NEW b \in Blobs, WriteObject(p, o, par, n, m, b)
      PROVE  SafeInv' /\ DropsLast
  <2>1. /\ req'[p].step = "written" /\ req'[p].blob = b
        /\ \A q \in Requests \ {p} : req'[q] = req[q]
    BY <1>1 DEF WriteObject, Start, IdleRequest, TypeOK
  <2>2. /\ rows' = rows /\ blobs' = blobs /\ cleaner' = cleaner
        /\ stored' = stored \cup {b}
        /\ b \notin stored /\ blobs[b].status = "none"
    BY <1>1 DEF WriteObject
  <2>3. WritesPending' /\ UploadsHoldObjects'
    BY <2>1, <2>2 DEF SafeInv, WritesPending, UploadsHoldObjects, Written
  <2>4. ContentAvailable' /\ Registered' /\ DeletesDropped' /\ StatusFollowsCount'
    BY <2>2 DEF SafeInv, ContentAvailable, Registered, DeletesDropped,
                StatusFollowsCount, Present, InTable
  <2>5. QED
    BY <2>2, <2>3, <2>4 DEF SafeInv, DropsLast
<1>2. ASSUME NEW o \in Owners, NEW par \in Parents, NEW n \in Names,
             NEW m \in Modes, NEW b \in Blobs, ReuseObject(p, o, par, n, m, b)
      PROVE  SafeInv' /\ DropsLast
  <2> DEFINE r == [IdleRequest EXCEPT !.step = "created", !.owner = o, !.blob = b,
                    !.parent = par, !.name = n, !.mode = m]
  <2>1. r \in Request /\ r.step = "created" /\ r.blob = b
    BY IdleRequestType DEF Request, IdleRequest
  <2>2. Start(p, r) /\ UNCHANGED <<rows, blobs, stored, cleaner>>
    BY <1>2 DEF ReuseObject
  <2> HIDE DEF r
  <2>3. NoNewWrites
    BY <2>1, <2>2, SlotFacts
  <2>4. QED
    BY <2>2, <2>3, StutterKeeps, Frame
<1>3. CASE InsertObject(p)
  <2> DEFINE b == req[p].blob
  <2>1. b \in Blobs /\ b \in stored /\ blobs[b].status = "none"
    BY <1>3 DEF InsertObject, SafeInv, UploadsHoldObjects, WritesPending, Written
  <2>2. /\ blobs'[b] = [status |-> "orphaned", ref |-> 0]
        /\ \A c \in Blobs \ {b} : blobs'[c] = blobs[c]
        /\ rows' = rows /\ stored' = stored /\ cleaner' = cleaner
    BY <1>3, <2>1 DEF InsertObject, TypeOK
  <2>3. /\ req'[p].step = "created" /\ req'[p].blob = b
        /\ \A q \in Requests \ {p} : req'[q] = req[q]
    BY <1>3 DEF InsertObject, Become, TypeOK, Request
  <2>4. \A q \in Requests \ {p} : Written(q) => req[q].blob # b
    BY <1>3 DEF InsertObject, SafeInv, WritesPending, Written
  <2> HIDE DEF b
  <2>5. WritesPending' /\ UploadsHoldObjects'
    BY <2>1, <2>2, <2>3, <2>4 DEF SafeInv, WritesPending, UploadsHoldObjects, Written
  <2>6. ContentAvailable' /\ Registered'
    BY <2>1, <2>2 DEF SafeInv, ContentAvailable, Registered, Present, InTable,
                      TypeOK, Row
  <2>7. DeletesDropped' /\ StatusFollowsCount' /\ DropsLast
    BY <2>1, <2>2 DEF SafeInv, DeletesDropped, StatusFollowsCount, DropsLast
  <2>8. QED
    BY <2>5, <2>6, <2>7 DEF SafeInv
<1>4. CASE ValidateParent(p)
  <2>1. req[p].blob \in Blobs /\ Become(p, "validated")
        /\ UNCHANGED <<rows, blobs, stored, cleaner>>
    BY <1>4 DEF ValidateParent, SafeInv, UploadsHoldObjects
  <2>2. QED
    BY <2>1, SlotFacts, StutterKeeps, Frame
<1>5. CASE SaveUploadedFile(p)
  <2> DEFINE b == req[p].blob
  <2>1. b \in Blobs /\ b # NoBlob
    BY <1>0, <1>5 DEF SaveUploadedFile, SafeInv, UploadsHoldObjects
  <2>2. NoNewWrites
    BY <1>5, <2>1, SlotFacts DEF SaveUploadedFile
  <2>3. UNCHANGED <<stored, cleaner>>
    BY <1>5 DEF SaveUploadedFile
  <2>4. SameRegistration /\ LinksRegistered /\ StatusFollowsCount'
    <3>1. CASE SaveNew(p)
      <4>1. PICK i \in Files, n \in SaveNames(req[p]) :
               /\ InsertRow(i, req[p].owner, req[p].parent, n, b)
               /\ blobs' = Attached(blobs, b)
        BY <3>1 DEF SaveNew
      <4>2. LinksRegistered
        BY <2>1, <4>1, InsertRowLinks DEF Ids
      <4>3. InTable(b)
        BY <2>1, <4>1 DEF InsertRow, ForeignKeys
      <4>4. QED
        BY <2>1, <2>3, <4>1, <4>2, <4>3, AttachKeeps, OneType
    <3>2. CASE SaveOver(p)
      <4>1. PICK i \in Files :
               /\ ForeignKeys(req[p].owner, req[p].parent, b)
               /\ rows' = [rows EXCEPT ![i].blob = b]
               /\ blobs' = Released(Attached(blobs, b), One(rows[i].blob))
        BY <3>2 DEF SaveOver
      <4>2. InTable(b)
        BY <2>1, <4>1 DEF ForeignKeys
      <4>3. LinksRegistered
        BY <2>1, <4>1, <4>2 DEF LinksRegistered, Present, TypeOK, Row, Ids
      <4>4. QED
        BY <2>1, <2>3, <4>1, <4>2, <4>3, AttachKeeps, OneType
    <3>3. QED
      BY <1>5, <3>1, <3>2 DEF SaveUploadedFile
  <2>5. QED
    BY <2>2, <2>4, Frame
<1>6. CASE SaveFails(p)
  <2>1. req[p].blob \in Blobs /\ Become(p, "release")
        /\ UNCHANGED <<rows, blobs, stored, cleaner>>
    BY <1>6 DEF SaveFails, SafeInv, UploadsHoldObjects
  <2>2. QED
    BY <2>1, SlotFacts, StutterKeeps, Frame
<1>7. CASE ReleaseUnsaved(p)
  <2>1. /\ blobs' = Released(blobs, One(req[p].blob)) /\ Finish(p)
        /\ UNCHANGED <<rows, stored, cleaner>>
    BY <1>7 DEF ReleaseUnsaved
  <2>2. QED
    BY <2>1, SlotFacts, OneType, ReleaseKeeps, SameRows, Frame
<1>8. CASE InsertFails(p)
  <2> DEFINE b == req[p].blob
  <2>1. b \in Blobs /\ blobs[b].status = "none"
    BY <1>8 DEF InsertFails, SafeInv, UploadsHoldObjects, WritesPending, Written
  <2>2. /\ UNCHANGED <<rows, blobs, cleaner>>
        /\ stored' \in {stored, stored \ {b}}
    BY <1>8 DEF InsertFails
  <2>3. /\ req'[p].step = "idle"
        /\ \A q \in Requests \ {p} : req'[q] = req[q]
    BY <1>8 DEF InsertFails, Finish, IdleRequest, TypeOK
  <2>4. \A q \in Requests \ {p} : Written(q) => req[q].blob # b
    BY <1>8 DEF InsertFails, SafeInv, WritesPending, Written
  <2> HIDE DEF b
  <2>5. WritesPending' /\ UploadsHoldObjects'
    BY <2>2, <2>3, <2>4 DEF SafeInv, WritesPending, UploadsHoldObjects, Written
  <2>6. ContentAvailable' /\ Registered'
    BY <2>1, <2>2 DEF SafeInv, ContentAvailable, Registered, Present, InTable
  <2>7. DeletesDropped' /\ StatusFollowsCount' /\ DropsLast
    BY <2>2 DEF SafeInv, DeletesDropped, StatusFollowsCount, DropsLast
  <2>8. QED
    BY <2>5, <2>6, <2>7 DEF SafeInv
<1>9. QED
  BY <1>1, <1>2, <1>3, <1>4, <1>5, <1>6, <1>7, <1>8 DEF UploadStep

-----------------------------------------------------------------------------
(* Every step of an owner and of an administrator keeps the invariant.     *)

\* A tree statement only takes notes.
LEMMA SelectTreeSafe ==
    ASSUME TypeOK, TypeOK', SafeInv, NEW p \in Requests,
           NEW step \in {"trash", "restore", "purge"},
           NEW root, NEW ok, NEW n, SelectTree(p, step, root, ok, n)
    PROVE  SafeInv' /\ DropsLast
<1> DEFINE seen == {<<i, rows[i].blob>> : i \in Tree(root, ok)}
<1>1. req'[p].step = step /\ \A q \in Requests \ {p} : req'[q] = req[q]
  <2> HIDE DEF seen
  <2>1. Start(p, [IdleRequest EXCEPT !.step = step, !.name = n, !.seen = seen])
    BY DEF SelectTree, seen
  <2>2. QED
    BY <2>1 DEF Start, IdleRequest, TypeOK
<1>2. NoNewWrites
  BY <1>1 DEF NoNewWrites, Written, SafeInv, UploadsHoldObjects
<1>3. UNCHANGED <<rows, blobs, stored, cleaner>>
  BY DEF SelectTree
<1>4. QED
  BY <1>2, <1>3, StutterKeeps, Frame

\* Rows marked in place keep their objects.
LEMMA MarkedLinks ==
    ASSUME TypeOK, \A i \in Ids : /\ rows'[i].state = rows[i].state
                                 /\ rows'[i].blob = rows[i].blob
    PROVE  LinksRegistered
BY DEF LinksRegistered, Present

\* A purge marks rows and gives references back; it unregisters no object.
LEMMA PurgeKeeps ==
    ASSUME TypeOK, SafeInv, NEW S \in SUBSET Ids, Purge(S),
           UNCHANGED <<stored, cleaner>>
    PROVE  SameRegistration /\ LinksRegistered /\ StatusFollowsCount'
<1>1. SameRegistration /\ StatusFollowsCount'
  BY RefsOfType, ReleaseKeeps DEF Purge
<1>2. LinksRegistered
  BY MarkedLinks DEF Purge, TypeOK, Row
<1>3. QED
  BY <1>1, <1>2

\* No step of an owner's operation takes content from a row.
LEMMA OwnerSafe ==
    ASSUME TypeOK, TypeOK', SafeInv, NEW p \in Requests, OwnerStep(p)
    PROVE  SafeInv' /\ DropsLast
<1>0. req[p] \in Request
  BY DEF TypeOK
<1>1. ASSUME NEW o \in Owners, NEW par \in Parents, NEW n \in Names,
             BeginFolder(p, o, par, n)
      PROVE  SafeInv' /\ DropsLast
  <2> DEFINE r == [IdleRequest EXCEPT !.step = "folder", !.owner = o,
                    !.parent = par, !.name = n]
  <2>1. r \in Request /\ r.step = "folder"
    BY IdleRequestType DEF Request, IdleRequest
  <2>2. Start(p, r) /\ UNCHANGED <<rows, blobs, stored, cleaner>>
    BY <1>1 DEF BeginFolder
  <2> HIDE DEF r
  <2>3. QED
    BY <2>1, <2>2, SlotFacts, StutterKeeps, Frame
<1>2. CASE CreateFolder(p)
  <2>1. LinksRegistered
    BY <1>0, <1>2, InsertRowLinks DEF CreateFolder, Ids
  <2>2. Finish(p) /\ UNCHANGED <<blobs, stored, cleaner>>
    BY <1>2 DEF CreateFolder
  <2>3. QED
    BY <2>1, <2>2, SlotFacts, StutterKeeps, Frame
<1>3. ASSUME NEW i \in Ids, NEW n \in Names, RenameOwned(p, i, n)
      PROVE  SafeInv' /\ DropsLast
  <2>1. LinksRegistered
    BY <1>3, MarkedLinks DEF RenameOwned, TypeOK, Row
  <2>2. UNCHANGED <<req, blobs, stored, cleaner>>
    BY <1>3 DEF RenameOwned
  <2>3. QED
    BY <2>1, <2>2, SlotFacts, StutterKeeps, Frame
<1>4. ASSUME NEW i \in Ids, SelectTrash(p, i)
      PROVE  SafeInv' /\ DropsLast
  <2> DEFINE ok == {j \in Ids : Active(j) /\ ~rows[j].purged /\ OwnerOf[j] = OwnerOf[i]}
  <2>1. SelectTree(p, "trash", i, ok, AnyName)
    BY <1>4 DEF SelectTrash
  <2> HIDE DEF ok
  <2>2. QED
    BY <2>1, SelectTreeSafe
<1>5. ASSUME NEW i \in Ids, SelectRestore(p, i)
      PROVE  SafeInv' /\ DropsLast
  <2> DEFINE Trashed(j) == Present(j) /\ rows[j].trashed /\ ~rows[j].purged
  <2> DEFINE ok == {j \in Ids : Trashed(j) /\ OwnerOf[j] = OwnerOf[i]}
  <2>1. PICK n \in FreeNames(OwnerOf[i], rows[i].parent) :
           SelectTree(p, "restore", i, ok, n)
    BY <1>5 DEF SelectRestore
  <2> HIDE DEF ok
  <2>2. QED
    BY <2>1, SelectTreeSafe
<1>6. ASSUME NEW i \in Ids, SelectPurge(p, i)
      PROVE  SafeInv' /\ DropsLast
  <2> DEFINE ok == {j \in Ids : /\ Present(j) /\ ~rows[j].purged /\ ~Restricted(j)
                                 /\ OwnerOf[j] = OwnerOf[i]}
  <2>1. SelectTree(p, "purge", i, ok, AnyName)
    BY <1>6 DEF SelectPurge
  <2> HIDE DEF ok
  <2>2. QED
    BY <2>1, SelectTreeSafe
<1>7. CASE MoveToTrashOwned(p)
  <2>1. LinksRegistered
    BY <1>7, MarkedLinks DEF MoveToTrashOwned, TypeOK, Row
  <2>2. Finish(p) /\ UNCHANGED <<blobs, stored, cleaner>>
    BY <1>7 DEF MoveToTrashOwned
  <2>3. QED
    BY <2>1, <2>2, SlotFacts, StutterKeeps, Frame
<1>8. CASE RestoreOwned(p)
  <2>1. LinksRegistered
    <3>1. ASSUME NEW i \in Ids
          PROVE  rows'[i].state = rows[i].state /\ rows'[i].blob = rows[i].blob
      <4> DEFINE nm == IF i \in Rooted(p) THEN req[p].name ELSE rows[i].name
      <4>1. \/ rows'[i] = [rows[i] EXCEPT !.trashed = FALSE, !.name = nm]
            \/ rows'[i] = rows[i]
        BY <1>8 DEF RestoreOwned
      <4> HIDE DEF nm
      <4>2. rows[i] \in Row
        BY DEF TypeOK
      <4>3. QED
        BY <4>1, <4>2 DEF Row
    <3>2. QED
      BY <3>1, MarkedLinks
  <2>2. Finish(p) /\ UNCHANGED <<blobs, stored, cleaner>>
    BY <1>8 DEF RestoreOwned
  <2>3. QED
    BY <2>1, <2>2, SlotFacts, StutterKeeps, Frame
<1>9. CASE PurgeTrashedOwned(p)
  <2>1. {i \in Seen(p) : Present(i) /\ ~rows[i].purged} \in SUBSET Ids
    BY <1>0 DEF Seen, Request
  <2>2. SameRegistration /\ LinksRegistered /\ StatusFollowsCount'
    BY <1>9, <2>1, PurgeKeeps DEF PurgeTrashedOwned
  <2>3. QED
    BY <1>9, <2>2, SlotFacts, Frame DEF PurgeTrashedOwned
<1>10. ASSUME NEW o \in Owners, PurgeAllTrashOwned(p, o)
       PROVE  SafeInv' /\ DropsLast
  <2>1. SameRegistration /\ LinksRegistered /\ StatusFollowsCount'
    BY <1>10, PurgeKeeps DEF PurgeAllTrashOwned
  <2>2. QED
    BY <1>10, <2>1, SlotFacts, Frame DEF PurgeAllTrashOwned
<1>11. QED
  BY <1>1, <1>2, <1>3, <1>4, <1>5, <1>6, <1>7, <1>8, <1>9, <1>10 DEF OwnerStep, FolderStep, ItemStep,
     TrashStep

\* No step of an administrator, a wrong release included, takes content from
\* a row.
LEMMA AdminSafe ==
    ASSUME TypeOK, TypeOK', SafeInv, NEW p \in Requests, AdminStep(p)
    PROVE  SafeInv' /\ DropsLast
<1>0. req[p] \in Request
  BY DEF TypeOK
<1>1. ASSUME NEW i \in Files, NEW delete \in BOOLEAN, NEW block \in BOOLEAN,
             SetAdminDisposition(p, i, delete, block)
      PROVE  SafeInv' /\ DropsLast
  <2>1. LinksRegistered
    BY <1>1, MarkedLinks DEF SetAdminDisposition, TypeOK, Row
  <2>2. UNCHANGED <<req, blobs, stored, cleaner>>
    BY <1>1 DEF SetAdminDisposition
  <2>3. QED
    BY <2>1, <2>2, SlotFacts, StutterKeeps, Frame
<1>2. ASSUME NEW i \in Files, ReadAdminTrashed(p, i)
      PROVE  SafeInv' /\ DropsLast
  <2>1. /\ req'[p].step = "admin_delete"
        /\ \A q \in Requests \ {p} : req'[q] = req[q]
    BY <1>2 DEF ReadAdminTrashed, Start, IdleRequest, TypeOK
  <2>2. NoNewWrites
    BY <2>1 DEF NoNewWrites, Written, SafeInv, UploadsHoldObjects
  <2>3. QED
    BY <1>2, <2>2, StutterKeeps, Frame DEF ReadAdminTrashed
<1>3. CASE DeleteAdminTrashedFile(p)
  <2>1. PICK x \in req[p].seen :
           /\ rows' = [rows EXCEPT ![x[1]] = BlankRow("deleted")]
           /\ blobs' = IF rows[x[1]].purged THEN blobs ELSE Released(blobs, One(x[2]))
    BY <1>3 DEF DeleteAdminTrashedFile
  <2>2. LinksRegistered
    BY <2>1, DeletedLinks DEF TypeOK
  <2>3. Finish(p) /\ UNCHANGED <<stored, cleaner>>
    BY <1>3 DEF DeleteAdminTrashedFile
  <2>4. SameRegistration /\ StatusFollowsCount'
    BY <2>1, <2>3, StutterKeeps, ReleaseKeeps, OneType
  <2>5. QED
    BY <2>2, <2>3, <2>4, SlotFacts, Frame
<1>4. ASSUME NEW o \in Owners, CollectUser(p, o)
      PROVE  SafeInv' /\ DropsLast
  <2>1. /\ req'[p].step = "user_locked"
        /\ \A q \in Requests \ {p} : req'[q] = req[q]
    BY <1>4 DEF CollectUser, Start, IdleRequest, TypeOK
  <2>2. NoNewWrites
    BY <2>1 DEF NoNewWrites, Written, SafeInv, UploadsHoldObjects
  <2>3. QED
    BY <1>4, <2>2, StutterKeeps, Frame DEF CollectUser
<1>5. CASE DeleteUser(p)
  <2>1. LinksRegistered
    BY <1>5, DeletedLinks DEF DeleteUser, TypeOK
  <2>2. Become(p, "user_deleted") /\ UNCHANGED <<blobs, stored, cleaner>>
    BY <1>5 DEF DeleteUser
  <2>3. QED
    BY <2>1, <2>2, SlotFacts, StutterKeeps, Frame
<1>6. CASE ReleaseDeletedUser(p)
  <2>1. UNCHANGED <<rows, stored, cleaner>>
    BY <1>6 DEF ReleaseDeletedUser
  <2>2. SameRegistration /\ StatusFollowsCount'
    BY <1>6, <2>1, StutterKeeps, ReleaseKeeps, OneType DEF ReleaseDeletedUser
  <2>3. NoNewWrites
    <3>1. CASE Finish(p)
      BY <3>1, SlotFacts
    <3>2. ASSUME NEW x \in req[p].seen, req' = [req EXCEPT ![p].seen = @ \ {x}]
          PROVE  NoNewWrites
      BY <1>0, <3>2 DEF NoNewWrites, Written, SafeInv, UploadsHoldObjects, TypeOK,
                        Request
    <3>3. QED
      BY <1>6, <3>1, <3>2 DEF ReleaseDeletedUser
  <2>4. QED
    BY <2>1, <2>2, <2>3, SameRows, Frame
<1>7. QED
  BY <1>1, <1>2, <1>3, <1>4, <1>5, <1>6 DEF AdminStep, ReviewTrashStep, UserStep

-----------------------------------------------------------------------------
(* Every step of the executor keeps the invariant.                         *)

\* The next item is no deletion.
LEMMA NextItemStep == \A b : NextItem(b).step \in {"idle", "running"}
BY DEF NextItem, IdleCleaner

\* The executor drops an object only when no row names it, and deletes only
\* what it has dropped.
LEMMA ExecutorSafe ==
    ASSUME TypeOK, TypeOK', SafeInv, ExecutorStep
    PROVE  SafeInv' /\ DropsLast
<1> DEFINE Quiet == UNCHANGED <<rows, blobs, stored, req>>
<1>1. ASSUME Quiet, (cleaner'.step \in {"idle", "running"}) \/ (cleaner'.blob \in Blobs),
             cleaner'.step # "delete"
      PROVE  SafeInv' /\ DropsLast
  BY <1>1 DEF SafeInv, DropsLast, ContentAvailable, Registered, WritesPending,
              UploadsHoldObjects, DeletesDropped, StatusFollowsCount, Present,
              InTable, Written
<1>2. CASE ScanOrphans
  BY <1>1, <1>2 DEF ScanOrphans
<1>3. ASSUME NEW b \in Blobs, TakeOrphan(b)
      PROVE  SafeInv' /\ DropsLast
  <2>1. \/ cleaner' = [cleaner EXCEPT !.step = "refs", !.blob = b]
        \/ cleaner' = NextItem(b)
    BY <1>3 DEF TakeOrphan
  <2>2. \/ cleaner'.step \in {"idle", "running"}
        \/ cleaner'.step = "refs" /\ cleaner'.blob = b
    BY <2>1, NextItemStep DEF TypeOK, Cleaner
  <2>3. QED
    BY <1>1, <1>3, <2>2 DEF TakeOrphan
<1>4. CASE DropObject
  <2> DEFINE b == cleaner.blob
  <2>0. b \in Blobs
    BY <1>4 DEF DropObject, SafeInv, DeletesDropped
  <2>1. CASE Droppable(b)
    <3>1. /\ blobs'[b] = [status |-> "dropped", ref |-> 0]
          /\ \A c \in Blobs \ {b} : blobs'[c] = blobs[c]
          /\ cleaner'.step = "delete" /\ cleaner'.blob = b
          /\ rows' = rows /\ stored' = stored /\ req' = req
      BY <1>4, <2>0, <2>1 DEF DropObject, TypeOK, Cleaner
    <3>2. /\ InTable(b)
          /\ \A i \in Ids : Present(i) => rows[i].blob # b
      BY <2>1 DEF Droppable, Referrers
    <3> HIDE DEF b
    <3>3. ContentAvailable' /\ Registered'
      BY <2>0, <3>1, <3>2 DEF SafeInv, ContentAvailable, Registered, Present,
                              InTable, TypeOK, Row
    <3>4. WritesPending' /\ UploadsHoldObjects'
      BY <2>0, <3>1, <3>2 DEF SafeInv, WritesPending, UploadsHoldObjects, Written,
                              InTable
    <3>5. DeletesDropped' /\ StatusFollowsCount' /\ DropsLast
      BY <2>0, <3>1 DEF SafeInv, DeletesDropped, StatusFollowsCount, DropsLast
    <3>6. QED
      BY <3>3, <3>4, <3>5 DEF SafeInv
  <2>2. CASE ~Droppable(b)
    <3>1. cleaner' = NextItem(b) /\ Quiet
      BY <1>4, <2>2 DEF DropObject
    <3>2. QED
      BY <1>1, <3>1, NextItemStep
  <2>3. QED
    BY <2>1, <2>2
<1>5. CASE DeletePhysicalRefs
  <2> DEFINE b == cleaner.blob
  <2>1. b \in Blobs /\ blobs[b].status = "dropped"
    BY <1>5 DEF DeletePhysicalRefs, SafeInv, DeletesDropped
  <2>2. /\ cleaner'.step \in {"idle", "running"}
        /\ rows' = rows /\ blobs' = blobs /\ req' = req
        /\ \A c \in Blobs \ {b} : c \in stored => c \in stored'
    BY <1>5, NextItemStep DEF DeletePhysicalRefs
  <2> HIDE DEF b
  <2>3. ContentAvailable' /\ Registered'
    BY <2>1, <2>2 DEF SafeInv, ContentAvailable, Registered, Present, InTable,
                      TypeOK, Row
  <2>4. WritesPending' /\ UploadsHoldObjects'
    BY <2>1, <2>2 DEF SafeInv, WritesPending, UploadsHoldObjects, Written
  <2>5. DeletesDropped' /\ StatusFollowsCount' /\ DropsLast
    BY <2>2 DEF SafeInv, DeletesDropped, StatusFollowsCount, DropsLast
  <2>6. QED
    BY <2>3, <2>4, <2>5 DEF SafeInv
<1>6. CASE InterruptTask
  BY <1>1, <1>6 DEF InterruptTask, IdleCleaner
<1>7. QED
  BY <1>2, <1>3, <1>4, <1>5, <1>6 DEF ExecutorStep

-----------------------------------------------------------------------------
(* The theorems.                                                           *)

\* The invariant holds at first, and every step keeps it and drops no object
\* that comes back.
LEMMA SafeInit == Init => SafeInv
BY CatalogAssumption
   DEF Init, SafeInv, ContentAvailable, Registered, WritesPending,
       UploadsHoldObjects, DeletesDropped, StatusFollowsCount, Present, InTable,
       Written, BlankRow, IdleRequest, IdleCleaner

\* No step takes the content from under a row, an upload or a request.
LEMMA SafeStep ==
    ASSUME TypeOK, TypeOK', SafeInv, [Next]_vars
    PROVE  SafeInv' /\ DropsLast
<1>1. ASSUME NEW p \in Requests, MarkTrashExpiredPurged(p)
      PROVE  SafeInv' /\ DropsLast
  <2>1. PICK S \in SUBSET {i \in Ids : Purgeable(i)} : Purge(S)
    BY <1>1 DEF MarkTrashExpiredPurged
  <2>2. UNCHANGED <<stored, req, cleaner>>
    BY <1>1 DEF MarkTrashExpiredPurged
  <2>3. QED
    BY <1>1, <2>1, <2>2, PurgeKeeps, SlotFacts, Frame
<1>2. ASSUME NEW p \in Requests, Abandon(p)
      PROVE  SafeInv' /\ DropsLast
  BY <1>2, SlotFacts, StutterKeeps, Frame DEF Abandon
<1>3. CASE UNCHANGED vars
  BY <1>3 DEF vars, SafeInv, DropsLast, ContentAvailable, Registered, WritesPending,
              UploadsHoldObjects, DeletesDropped, StatusFollowsCount, Present,
              InTable, Written
<1>4. QED
  BY <1>1, <1>2, <1>3, UploadSafe, OwnerSafe, AdminSafe, ExecutorSafe DEF Next

\* The inductive invariant holds in every reachable state.
THEOREM SafeInvariant == Spec => []SafeInv
<1>1. TypeOK /\ TypeOK' /\ SafeInv /\ [Next]_vars => SafeInv'
  BY SafeStep
<1>2. QED
  BY <1>1, SafeInit, TypeCorrect, PTL DEF Spec

\* No content is lost: the object of every row of the resources table, purged
\* ones included, stays registered and physically present, for any number of
\* users, rows, objects and concurrent requests.
THEOREM ContentSafe == Spec => []ContentAvailable
<1>1. SafeInv => ContentAvailable
  BY DEF SafeInv
<1>2. QED
  BY <1>1, SafeInvariant, PTL

\* Status and reference count agree in every reachable state.
THEOREM StatusSafe == Spec => []StatusFollowsCount
<1>1. SafeInv => StatusFollowsCount
  BY DEF SafeInv
<1>2. QED
  BY <1>1, SafeInvariant, PTL

\* An object removed from the table is never attached or registered again.
THEOREM DroppedStays == Spec => DroppedIsFinal
<1> DEFINE Final == \A b \in Blobs : blobs[b].status = "dropped" =>
                       blobs'[b].status = "dropped" /\ Referrers(b)' = {}
<1>1. TypeOK /\ TypeOK' /\ SafeInv /\ [Next]_vars => [Final]_vars
  <2> SUFFICES ASSUME TypeOK, TypeOK', SafeInv, [Next]_vars,
                      NEW b \in Blobs, blobs[b].status = "dropped"
               PROVE  blobs'[b].status = "dropped" /\ Referrers(b)' = {}
    OBVIOUS
  <2>1. SafeInv' /\ blobs'[b].status = "dropped"
    BY SafeStep DEF DropsLast
  <2>2. Referrers(b)' = {}
    <3>1. ~InTable(b)'
      BY <2>1 DEF InTable
    <3>2. ASSUME NEW i \in Ids, Present(i)', rows'[i].blob = b
          PROVE  FALSE
      <4>1. b # NoBlob
        BY CatalogAssumption
      <4>2. (InTable(rows[i].blob))'
        BY <2>1, <3>2, <4>1 DEF SafeInv, ContentAvailable
      <4>3. QED
        BY <3>1, <3>2, <4>2 DEF InTable
    <3>3. QED
      BY <3>2 DEF Referrers
  <2>3. QED
    BY <2>1, <2>2
<1>2. QED
  BY <1>1, TypeCorrect, SafeInvariant, PTL DEF Spec, DroppedIsFinal

-----------------------------------------------------------------------------
(* Catalog implements ContentStore, for any finite tree, any users, objects   *)
(* and requests: whatever its tables go through, a row links to an object     *)
(* whose content is kept, and what was discarded never comes back.            *)

\* The state of ContentStore that a state of the catalogue stands for.
Links == [i \in Ids |-> IF Present(i) THEN rows[i].blob ELSE NoBlob]
Kept == {b \in Blobs : InTable(b) /\ b \in stored}
Gone == {b \in Blobs : blobs[b].status = "dropped"}

StoreStep == [Store!Next]_<<Links, Kept, Gone>>

\* A step that neither registers nor drops an object ...
SameContent == Kept' = Kept /\ Gone' = Gone

\* ... and one that leaves every row with the object it had.
SameLinks ==
    \A i \in Ids : (IF Present(i)' THEN rows'[i].blob ELSE NoBlob)
                 = (IF Present(i) THEN rows[i].blob ELSE NoBlob)

-----------------------------------------------------------------------------
(* The steps of ContentStore.                                              *)

\* A step that leaves links and content alone is a stutter of ContentStore, ...
LEMMA Same == ASSUME SameContent, SameLinks PROVE StoreStep
<1>1. Links' = Links
  BY DEF SameLinks, Links
<1>2. QED
  BY <1>1 DEF SameContent, StoreStep

\* ... one that registers an object keeps it, ...
LEMMA Registering ==
    ASSUME SameLinks, Gone' = Gone, NEW b \in Blobs, b \notin Kept \cup Gone, Kept' = Kept \cup {b}
    PROVE  StoreStep
<1>1. Links' = Links
  BY DEF SameLinks, Links
<1>2. Store!Put(b)
  BY <1>1 DEF Store!Put, Links, Kept, Gone
<1>3. QED
  BY <1>2 DEF StoreStep, Store!Next

\* ... one that gives a row an object whose content is kept links it, ...
LEMMA Linking ==
    ASSUME SameContent, NEW i \in Ids, NEW b \in Kept,
           Present(i)', rows'[i].blob = b,
           \A j \in Ids \ {i} : rows'[j] = rows[j]
    PROVE  StoreStep
<1>1. Links' = [Links EXCEPT ![i] = b]
  BY DEF Links, Present
<1>2. b \in Blobs
  BY DEF Kept
<1>3. Store!Link(i, b)
  BY <1>1 DEF SameContent, Store!Link, Links, Kept, Gone
<1>4. QED
  BY <1>2, <1>3 DEF StoreStep, Store!Next

\* ... one that deletes rows unlinks them, ...
LEMMA Unlinking ==
    ASSUME SameContent, NEW S \in SUBSET Ids,
           \A i \in S : rows'[i] = BlankRow("deleted"),
           \A i \in Ids \ S : rows'[i] = rows[i]
    PROVE  StoreStep
<1>1. \A i \in Ids : Present(i)' => i \notin S
  BY DEF Present, BlankRow
<1>2. Links' = [i \in Ids |-> IF i \in S THEN NoBlob ELSE Links[i]]
  BY <1>1 DEF Links, Present
<1>3. Store!Unlink(S)
  BY <1>2 DEF SameContent, Store!Unlink, Links, Kept, Gone
<1>4. QED
  BY <1>3 DEF StoreStep, Store!Next

\* ... and one that drops an object that no row links to discards it.
LEMMA Discarding ==
    ASSUME SameLinks, NEW b \in Kept, \A i \in Ids : Links[i] # b,
           Kept' = Kept \ {b}, Gone' = Gone \cup {b}
    PROVE  StoreStep
<1>1. Links' = Links
  BY DEF SameLinks, Links
<1>2. b \in Blobs
  BY DEF Kept
<1>3. Store!Discard(b)
  BY <1>1 DEF Store!Discard, Links, Kept, Gone
<1>4. QED
  BY <1>2, <1>3 DEF StoreStep, Store!Next

-----------------------------------------------------------------------------
(* What the steps of the catalogue leave alone.                            *)

\* A step that registers and drops no object leaves the content as it is.
LEMMA RegistrationKept == ASSUME SameRegistration PROVE SameContent
<1>1. Kept' = Kept
  BY DEF SameRegistration, Kept
<1>2. \A b \in Blobs : (blobs'[b].status = "dropped") <=> (blobs[b].status = "dropped")
  BY DEF SameRegistration, InTable
<1>3. Gone' = Gone
  BY <1>2 DEF Gone
<1>4. QED
  BY <1>1, <1>3 DEF SameContent

\* So does one that leaves the object table alone.
LEMMA TablesKept == ASSUME UNCHANGED <<blobs, stored>> PROVE SameContent
  BY DEF SameContent, Kept, Gone, InTable

\* A step that leaves the rows alone, ...
LEMMA RowsKept == ASSUME UNCHANGED rows PROVE SameLinks
  BY DEF SameLinks, Present

\* ... or only marks and renames them, leaves the links as they are.
LEMMA MarkedRows ==
    ASSUME \A i \in Ids : rows'[i].state = rows[i].state /\ rows'[i].blob = rows[i].blob
    PROVE  SameLinks
  BY DEF SameLinks, Present

\* A step that touches no table is a stutter.
LEMMA Quiet == ASSUME UNCHANGED <<rows, blobs, stored>> PROVE StoreStep
  BY Same, TablesKept, RowsKept

\* An object that is given back, any number of times, stays registered.
LEMMA Releases ==
    ASSUME TypeOK, SafeInv, NEW n \in [Blobs -> Nat], UNCHANGED <<stored, cleaner>>,
           blobs' = Released(blobs, n) \/ UNCHANGED blobs
    PROVE  SameContent
<1>1. CASE blobs' = Released(blobs, n)
  BY <1>1, ReleaseKeeps, RegistrationKept
<1>2. CASE UNCHANGED blobs
  BY <1>2, TablesKept
<1>3. QED
  BY <1>1, <1>2

\* A row that comes or goes by itself.
LEMMA RowInserted ==
    ASSUME TypeOK, NEW i \in Ids, NEW o, NEW par, NEW n, NEW b, InsertRow(i, o, par, n, b)
    PROVE  /\ rows[i].state = "none" /\ rows'[i].state = "present" /\ rows'[i].blob = b
           /\ \A j \in Ids \ {i} : rows'[j] = rows[j]
           /\ b # NoBlob => InTable(b)
<1> DEFINE x == [BlankRow("present") EXCEPT !.parent = par, !.name = n, !.blob = b]
<1>1. /\ rows' = [rows EXCEPT ![i] = x] /\ rows[i].state = "none"
      /\ b # NoBlob => InTable(b)
  BY DEF InsertRow, ForeignKeys
<1>2. x.state = "present" /\ x.blob = b
  BY DEF BlankRow
<1> HIDE DEF x
<1>3. QED
  BY <1>1, <1>2 DEF TypeOK

-----------------------------------------------------------------------------
(* Uploads.                                                                *)

\* SaveUploadedFile links its row to the object it holds.
LEMMA SaveImplements ==
    ASSUME TypeOK, SafeInv, NEW p \in Requests, SaveUploadedFile(p)
    PROVE  StoreStep
<1> DEFINE b == req[p].blob
<1>1. b \in Blobs /\ b # NoBlob /\ UNCHANGED <<stored, cleaner>>
  BY CatalogAssumption DEF SaveUploadedFile, SafeInv, UploadsHoldObjects
<1>2. InTable(b) => b \in Kept
  BY <1>1 DEF SafeInv, Registered, Kept
<1>3. CASE SaveNew(p)
  <2>1. PICK i \in Files, n \in SaveNames(req[p]) :
           InsertRow(i, req[p].owner, req[p].parent, n, b) /\ blobs' = Attached(blobs, b)
    BY <1>3 DEF SaveNew
  <2>2. i \in Ids
    BY DEF Ids
  <2> HIDE DEF b
  <2>3. /\ rows'[i].state = "present" /\ rows'[i].blob = b /\ InTable(b)
        /\ \A j \in Ids \ {i} : rows'[j] = rows[j]
    BY <1>1, <2>1, <2>2, RowInserted
  <2>4. SameContent
    BY <1>1, <2>1, <2>3, AttachKeeps, OneType, RegistrationKept
  <2>5. QED
    BY <1>2, <2>2, <2>3, <2>4, Linking DEF Present
<1>4. CASE SaveOver(p)
  <2>1. PICK i \in Files \cap Entry(req[p].owner, req[p].parent, req[p].name) :
           /\ ForeignKeys(req[p].owner, req[p].parent, b)
           /\ rows' = [rows EXCEPT ![i].blob = b]
           /\ blobs' = Released(Attached(blobs, b), One(rows[i].blob))
    BY <1>4 DEF SaveOver
  <2>2. i \in Ids /\ Present(i)
    BY DEF Ids, Entry, Active
  <2>3. InTable(b)
    BY <1>1, <2>1 DEF ForeignKeys
  <2> HIDE DEF b
  <2>4. /\ rows'[i].state = "present" /\ rows'[i].blob = b
        /\ \A j \in Ids \ {i} : rows'[j] = rows[j]
    BY <2>1, <2>2 DEF TypeOK, Row, Present
  <2>5. SameContent
    BY <1>1, <2>1, <2>3, AttachKeeps, OneType, RegistrationKept
  <2>6. QED
    BY <1>2, <2>2, <2>3, <2>4, <2>5, Linking DEF Present
<1>5. QED
  BY <1>3, <1>4 DEF SaveUploadedFile

\* Every step of an upload keeps the promise.
LEMMA UploadImplements ==
    ASSUME TypeOK, SafeInv, NEW p \in Requests, UploadStep(p)
    PROVE  StoreStep
<1>1. ASSUME NEW o \in Owners, NEW par \in Parents, NEW n \in Names, NEW m \in Modes,
             NEW b \in Blobs, WriteObject(p, o, par, n, m, b)
      PROVE  StoreStep
  <2>1. UNCHANGED <<rows, blobs>> /\ stored' = stored \cup {b} /\ ~InTable(b)
    BY <1>1 DEF WriteObject, InTable
  <2>2. SameContent
    BY <2>1 DEF SameContent, Kept, Gone, InTable
  <2>3. QED
    BY <2>1, <2>2, RowsKept, Same
<1>2. ASSUME NEW o \in Owners, NEW par \in Parents, NEW n \in Names, NEW m \in Modes,
             NEW b \in Blobs, ReuseObject(p, o, par, n, m, b)
      PROVE  StoreStep
  BY <1>2, Quiet DEF ReuseObject
<1>3. CASE InsertObject(p)
  <2> DEFINE b == req[p].blob
  <2>1. b \in Blobs /\ b \in stored /\ blobs[b].status = "none"
    BY <1>3 DEF InsertObject, SafeInv, UploadsHoldObjects, WritesPending, Written
  <2>2. /\ blobs'[b].status = "orphaned" /\ \A c \in Blobs \ {b} : blobs'[c] = blobs[c]
        /\ UNCHANGED <<rows, stored>>
    BY <1>3, <2>1 DEF InsertObject, TypeOK
  <2> HIDE DEF b
  <2>3. b \notin Kept \cup Gone /\ Kept' = Kept \cup {b} /\ Gone' = Gone
    BY <2>1, <2>2 DEF Kept, Gone, InTable
  <2>4. QED
    BY <2>1, <2>2, <2>3, RowsKept, Registering
<1>4. CASE InsertFails(p)
  <2> DEFINE b == req[p].blob
  <2>1. UNCHANGED <<rows, blobs>> /\ stored' \in {stored, stored \ {b}} /\ ~InTable(b)
    BY <1>4 DEF InsertFails, SafeInv, WritesPending, Written, InTable
  <2> HIDE DEF b
  <2>2. SameContent
    BY <2>1 DEF SameContent, Kept, Gone, InTable
  <2>3. QED
    BY <2>1, <2>2, RowsKept, Same
<1>5. CASE ValidateParent(p) \/ SaveFails(p)
  BY <1>5, Quiet DEF ValidateParent, SaveFails
<1>6. CASE SaveUploadedFile(p)
  BY <1>6, SaveImplements
<1>7. CASE ReleaseUnsaved(p)
  <2>1. UNCHANGED <<rows, stored, cleaner>> /\ blobs' = Released(blobs, One(req[p].blob))
    BY <1>7 DEF ReleaseUnsaved
  <2>2. QED
    BY <2>1, OneType, Releases, RowsKept, Same
<1>8. QED
  BY <1>1, <1>2, <1>3, <1>4, <1>5, <1>6, <1>7 DEF UploadStep

-----------------------------------------------------------------------------
(* Owners.                                                                 *)

\* PurgeOwned only marks rows and gives objects back.
LEMMA PurgeImplements ==
    ASSUME TypeOK, SafeInv, NEW S \in SUBSET Ids, Purge(S), UNCHANGED <<stored, cleaner>>
    PROVE  StoreStep
<1>1. SameContent
  BY RefsOfType, Releases DEF Purge
<1>2. SameLinks
  BY MarkedRows DEF Purge, TypeOK, Row
<1>3. QED
  BY <1>1, <1>2, Same

\* RestoreOwned only marks and renames rows.
LEMMA RestoreImplements ==
    ASSUME TypeOK, NEW p \in Requests, RestoreOwned(p)
    PROVE  StoreStep
<1>1. ASSUME NEW i \in Ids
      PROVE  rows'[i].state = rows[i].state /\ rows'[i].blob = rows[i].blob
  <2> DEFINE name == IF i \in Rooted(p) THEN req[p].name ELSE rows[i].name
  <2>1. rows'[i] = [rows[i] EXCEPT !.trashed = FALSE, !.name = name] \/ rows'[i] = rows[i]
    BY DEF RestoreOwned
  <2> HIDE DEF name
  <2>2. rows[i] \in Row
    BY DEF TypeOK
  <2>3. QED
    BY <2>1, <2>2 DEF Row
<1>2. UNCHANGED <<blobs, stored>>
  BY DEF RestoreOwned
<1>3. QED
  BY <1>1, <1>2, MarkedRows, TablesKept, Same

\* So does every statement of a user on folders, names and the trash.
LEMMA OwnerImplements ==
    ASSUME TypeOK, SafeInv, NEW p \in Requests, OwnerStep(p)
    PROVE  StoreStep
<1>1. ASSUME NEW o \in Owners, NEW par \in Parents, NEW n \in Names, BeginFolder(p, o, par, n)
      PROVE  StoreStep
  BY <1>1, Quiet DEF BeginFolder
<1>2. CASE CreateFolder(p)
  <2>1. PICK i \in Folders : InsertRow(i, req[p].owner, req[p].parent, req[p].name, NoBlob)
    BY <1>2 DEF CreateFolder
  <2>2. i \in Ids /\ UNCHANGED <<blobs, stored>>
    BY <1>2 DEF Ids, CreateFolder
  <2>3. SameLinks
    BY <2>1, <2>2, RowInserted DEF SameLinks, Present
  <2>4. QED
    BY <2>2, <2>3, TablesKept, Same
<1>3. ASSUME NEW i \in Ids, NEW n \in Names, RenameOwned(p, i, n) PROVE StoreStep
  <2>1. SameLinks
    BY <1>3, MarkedRows DEF RenameOwned, TypeOK, Row
  <2>2. QED
    BY <1>3, <2>1, TablesKept, Same DEF RenameOwned
<1>4. ASSUME NEW i \in Ids, SelectTrash(p, i) \/ SelectRestore(p, i) \/ SelectPurge(p, i)
      PROVE  StoreStep
  BY <1>4, Quiet DEF SelectTrash, SelectRestore, SelectPurge, SelectTree
<1>5. CASE MoveToTrashOwned(p)
  <2>1. SameLinks
    BY <1>5, MarkedRows DEF MoveToTrashOwned, TypeOK, Row
  <2>2. QED
    BY <1>5, <2>1, TablesKept, Same DEF MoveToTrashOwned
<1>6. CASE RestoreOwned(p)
  BY <1>6, RestoreImplements
<1>7. CASE PurgeTrashedOwned(p)
  <2> DEFINE S == {i \in Seen(p) : Present(i) /\ ~rows[i].purged}
  <2>1. S \in SUBSET Ids
    BY DEF TypeOK, Seen, Request
  <2>2. Purge(S) /\ UNCHANGED <<stored, cleaner>>
    BY <1>7 DEF PurgeTrashedOwned
  <2> HIDE DEF S
  <2>3. QED
    BY <2>1, <2>2, PurgeImplements
<1>8. ASSUME NEW o \in Owners, PurgeAllTrashOwned(p, o) PROVE StoreStep
  <2> DEFINE S == {i \in Ids : Purgeable(i) /\ OwnerOf[i] = o}
  <2>1. S \in SUBSET Ids /\ Purge(S) /\ UNCHANGED <<stored, cleaner>>
    BY <1>8 DEF PurgeAllTrashOwned
  <2> HIDE DEF S
  <2>2. QED
    BY <2>1, PurgeImplements
<1>9. QED
  BY <1>1, <1>2, <1>3, <1>4, <1>5, <1>6, <1>7, <1>8 DEF OwnerStep, FolderStep, ItemStep, TrashStep

-----------------------------------------------------------------------------
(* Administrators and the executor.                                        *)

\* So does every statement of an administrator or on an account.
LEMMA AdminImplements ==
    ASSUME TypeOK, SafeInv, NEW p \in Requests, AdminStep(p)
    PROVE  StoreStep
<1>1. ASSUME NEW i \in Files, NEW delete \in BOOLEAN, NEW block \in BOOLEAN,
             SetAdminDisposition(p, i, delete, block)
      PROVE  StoreStep
  <2>1. SameLinks
    BY <1>1, MarkedRows DEF SetAdminDisposition, TypeOK, Row
  <2>2. QED
    BY <1>1, <2>1, TablesKept, Same DEF SetAdminDisposition
<1>2. ASSUME NEW i \in Files, ReadAdminTrashed(p, i) PROVE StoreStep
  BY <1>2, Quiet DEF ReadAdminTrashed
<1>3. CASE DeleteAdminTrashedFile(p)
  <2>1. PICK x \in req[p].seen :
           /\ rows' = [rows EXCEPT ![x[1]] = BlankRow("deleted")]
           /\ blobs' = IF rows[x[1]].purged THEN blobs ELSE Released(blobs, One(x[2]))
    BY <1>3 DEF DeleteAdminTrashedFile
  <2>2. x[1] \in Ids
    BY DEF TypeOK, Request
  <2>3. SameContent
    BY <1>3, <2>1, OneType, Releases DEF DeleteAdminTrashedFile
  <2>4. \A i \in {x[1]} : rows'[i] = BlankRow("deleted")
    BY <2>1, <2>2 DEF TypeOK
  <2>5. \A i \in Ids \ {x[1]} : rows'[i] = rows[i]
    BY <2>1 DEF TypeOK
  <2>6. {x[1]} \in SUBSET Ids
    BY <2>2
  <2>7. QED
    BY <2>3, <2>4, <2>5, <2>6, Unlinking
<1>4. ASSUME NEW o \in Owners, CollectUser(p, o) PROVE StoreStep
  BY <1>4, Quiet DEF CollectUser
<1>5. CASE DeleteUser(p)
  <2> DEFINE S == {i \in Ids : Present(i) /\ OwnerOf[i] = req[p].owner}
  <2>1. S \in SUBSET Ids
    OBVIOUS
  <2>2. /\ rows' = [i \in Ids |-> IF i \in S THEN BlankRow("deleted") ELSE rows[i]]
        /\ UNCHANGED <<blobs, stored>>
    BY <1>5 DEF DeleteUser
  <2> HIDE DEF S
  <2>3. QED
    BY <2>1, <2>2, TablesKept, Unlinking
<1>6. CASE ReleaseDeletedUser(p)
  <2>1. UNCHANGED <<rows, stored, cleaner>>
    BY <1>6 DEF ReleaseDeletedUser
  <2>2. \E x : blobs' \in {blobs, Released(blobs, One(x[2]))}
    BY <1>6 DEF ReleaseDeletedUser
  <2>3. SameContent
    BY <2>1, <2>2, OneType, Releases
  <2>4. QED
    BY <2>1, <2>3, RowsKept, Same
<1>7. QED
  BY <1>1, <1>2, <1>3, <1>4, <1>5, <1>6 DEF AdminStep, ReviewTrashStep, UserStep

\* DropObject discards an object, if it finds that no row links to it.
LEMMA DropImplements ==
    ASSUME TypeOK, SafeInv, DropObject
    PROVE  StoreStep
<1> DEFINE b == cleaner.blob
<1>1. b \in Blobs /\ b # NoBlob /\ UNCHANGED <<rows, stored>>
  BY CatalogAssumption DEF DropObject, SafeInv, DeletesDropped
<1>2. CASE Droppable(b)
  <2>1. /\ blobs'[b].status = "dropped" /\ \A c \in Blobs \ {b} : blobs'[c] = blobs[c]
        /\ InTable(b) /\ \A i \in Ids : Present(i) => rows[i].blob # b
    BY <1>1, <1>2 DEF DropObject, Droppable, Referrers, TypeOK
  <2> HIDE DEF b
  <2>2. b \in Kept
    BY <1>1, <2>1 DEF Kept, SafeInv, Registered
  <2>3. Kept' = Kept \ {b} /\ Gone' = Gone \cup {b}
    BY <1>1, <2>1 DEF Kept, Gone, InTable
  <2>4. \A i \in Ids : Links[i] # b
    BY <1>1, <2>1 DEF Links
  <2>5. QED
    BY <1>1, <2>2, <2>3, <2>4, RowsKept, Discarding
<1>3. CASE ~Droppable(b)
  BY <1>1, <1>3, Quiet DEF DropObject
<1>4. QED
  BY <1>2, <1>3

\* The executor stutters but where it drops an object.
LEMMA ExecutorImplements ==
    ASSUME TypeOK, SafeInv, ExecutorStep
    PROVE  StoreStep
<1>1. CASE ScanOrphans \/ InterruptTask \/ \E b \in Blobs : TakeOrphan(b)
  BY <1>1, Quiet DEF ScanOrphans, InterruptTask, TakeOrphan
<1>2. CASE DropObject
  BY <1>2, DropImplements
<1>3. CASE DeletePhysicalRefs
  <2> DEFINE b == cleaner.blob
  <2>1. UNCHANGED <<rows, blobs>> /\ stored' \in {stored, stored \ {b}} /\ ~InTable(b)
    BY <1>3 DEF DeletePhysicalRefs, SafeInv, DeletesDropped, InTable
  <2> HIDE DEF b
  <2>2. SameContent
    BY <2>1 DEF SameContent, Kept, Gone, InTable
  <2>3. QED
    BY <2>1, <2>2, RowsKept, Same
<1>4. QED
  BY <1>1, <1>2, <1>3 DEF ExecutorStep

-----------------------------------------------------------------------------
\* Every step maps to a step of ContentStore or a stutter.
LEMMA StepImplements == ASSUME TypeOK, SafeInv, [Next]_vars PROVE StoreStep
<1>1. ASSUME NEW p \in Requests, MarkTrashExpiredPurged(p) PROVE StoreStep
  <2>1. PICK S \in SUBSET {i \in Ids : Purgeable(i)} : Purge(S)
    BY <1>1 DEF MarkTrashExpiredPurged
  <2>2. UNCHANGED <<stored, cleaner>> /\ S \in SUBSET Ids
    BY <1>1 DEF MarkTrashExpiredPurged
  <2>3. QED
    BY <2>1, <2>2, PurgeImplements
<1>2. ASSUME NEW p \in Requests, Abandon(p) PROVE StoreStep
  BY <1>2, Quiet DEF Abandon
<1>3. CASE UNCHANGED vars
  BY <1>3, Quiet DEF vars
<1>4. QED
  BY <1>1, <1>2, <1>3, UploadImplements, OwnerImplements, AdminImplements, ExecutorImplements
     DEF Next

\* The initial states map to initial states.
LEMMA InitImplements == Init => Store!Init
<1> SUFFICES ASSUME Init PROVE Store!Init
  OBVIOUS
<1>1. Links = [i \in Ids |-> NoBlob]
  BY DEF Init, Links, Present, BlankRow
<1>2. Kept = {} /\ Gone = {}
  BY DEF Init, Kept, Gone, InTable
<1>3. QED
  BY <1>1, <1>2 DEF Store!Init, Links, Kept, Gone

\* Reference counts, statuses, locks and the order of statements are one way to
\* keep the promise of ContentStore: every step of every handler and of the
\* executor links a row to content that is kept, unlinks rows, keeps a new
\* object, discards one that no row links to, or changes nothing of these.
THEOREM CatalogIsStore == Spec => ImplementsContentStore
<1>1. TypeOK /\ SafeInv /\ [Next]_vars => StoreStep
  BY StepImplements
<1>2. QED
  BY <1>1, InitImplements, TypeCorrect, SafeInvariant, PTL
     DEF Spec, ImplementsContentStore, Store!Spec, StoreStep, Links, Kept, Gone

-----------------------------------------------------------------------------
(* Reference counts under any interleaving.  A count owes a unit to every    *)
(* row that holds the object, and to every row of a deleted user whose       *)
(* reference is listed and not given back yet.  A statement that gives back  *)
(* more than that on the strength of what it read earlier says so in short.  *)

\* Rows of deleted users whose references are still to be given back.
Owed(b) ==
    {i \in Ids : \E q \in Requests :
        req[q].step = "user_deleted" /\ <<i, b>> \in req[q].seen}

Booked(b) == Cardinality(Holders(b)) + Cardinality(Owed(b)) <= blobs[b].ref

Books == \A b \in Blobs \ short : Booked(b)

\* A deletion lists rows of its own user, who is there until the rows are gone,
\* and objects that are or were registered.
Deleting(r) == r.step \in {"user_locked", "user_deleted"}

UserNoted(r) ==
    Deleting(r) =>
        /\ r.owner \in owners <=> r.step = "user_locked"
        /\ \A x \in r.seen : /\ OwnerOf[x[1]] = r.owner
                             /\ x[2] \in Blobs => blobs[x[2]].status # "none"

\* No row is listed by two deletions: a user is deleted once, under a lock.
OneDeletion ==
    \A q, r \in Requests :
        Deleting(req[q]) /\ Deleting(req[r]) /\ req[q].owner = req[r].owner => q = r

DeletionsNoted == OneDeletion /\ \A q \in Requests : UserNoted(req[q])

CountInv == Books /\ DeletionsNoted

\* What a step does for an object's count: it grows by as much as the holders
\* do, or shrinks by no more.
Matched(b) ==
    Cardinality(Holders(b)') - Cardinality(Holders(b)) <= blobs'[b].ref - blobs[b].ref

\* An object once registered, or dropped, is never unknown again.
Remembered == \A b \in Blobs : blobs[b].status # "none" => blobs'[b].status # "none"

\* A step of slot p that leaves no deletion of a user behind.
Settled(p) ==
    /\ req'[p].step \notin {"user_locked", "user_deleted"}
    /\ \A q \in Requests \ {p} : req'[q] = req[q]
    /\ UNCHANGED owners
    /\ Remembered
    /\ short \subseteq short'
    /\ \A b \in Blobs \ short' : Matched(b)

\* The sets counted are finite.
LEMMA CountTypes ==
    \A b : /\ Holders(b) \subseteq Ids /\ IsFiniteSet(Holders(b)) /\ Cardinality(Holders(b)) \in Nat
           /\ Owed(b) \subseteq Ids /\ IsFiniteSet(Owed(b)) /\ Cardinality(Owed(b)) \in Nat
<1> TAKE b
<1>1. Holders(b) \subseteq Ids /\ Owed(b) \subseteq Ids /\ IsFiniteSet(Ids)
  BY CatalogAssumption DEF Holders, Referrers, Owed
<1>2. QED
  BY <1>1, FS_Subset, FS_CardinalityType

\* Counts before and after a step are natural numbers.
LEMMA CountTypesNow ==
    ASSUME TypeOK, TypeOK', NEW b \in Blobs
    PROVE  /\ blobs[b].ref \in Nat /\ blobs'[b].ref \in Nat
           /\ Cardinality(Holders(b)) \in Nat /\ Cardinality(Holders(b)') \in Nat
           /\ Cardinality(Owed(b)) \in Nat /\ Cardinality(Owed(b)') \in Nat
<1>1. blobs[b].ref \in Nat /\ blobs'[b].ref \in Nat
  BY DEF TypeOK, Blob
<1>2. Holders(b)' \subseteq Ids /\ Owed(b)' \subseteq Ids /\ IsFiniteSet(Ids)
  BY CatalogAssumption DEF Holders, Referrers, Owed
<1>3. Cardinality(Holders(b)') \in Nat /\ Cardinality(Owed(b)') \in Nat
  BY <1>2, FS_Subset, FS_CardinalityType
<1>4. QED
  BY <1>1, <1>3, CountTypes

\* A finished request is idle, one that goes on keeps what it noted, and the
\* other slots are not concerned.
LEMMA SlotSteps ==
    ASSUME TypeOK, NEW p \in Requests
    PROVE  /\ Finish(p) => /\ req'[p].step = "idle"
                           /\ \A q \in Requests \ {p} : req'[q] = req[q]
           /\ \A s : Become(p, s) =>
                 /\ req'[p].step = s /\ req'[p].seen = req[p].seen
                 /\ req'[p].owner = req[p].owner
                 /\ \A q \in Requests \ {p} : req'[q] = req[q]
           /\ \A r : Start(p, r) =>
                 req'[p] = r /\ \A q \in Requests \ {p} : req'[q] = req[q]
<1>1. req[p] \in Request
  BY DEF TypeOK
<1>2. Finish(p) => req'[p] = IdleRequest /\ \A q \in Requests \ {p} : req'[q] = req[q]
  BY DEF Finish, TypeOK
<1>3. IdleRequest.step = "idle"
  BY DEF IdleRequest
<1>4. ASSUME NEW s, Become(p, s)
      PROVE  /\ req'[p].step = s /\ req'[p].seen = req[p].seen
             /\ req'[p].owner = req[p].owner
             /\ \A q \in Requests \ {p} : req'[q] = req[q]
  <2>1. req'[p] = [req[p] EXCEPT !.step = s] /\ \A q \in Requests \ {p} : req'[q] = req[q]
    BY <1>4 DEF Become, TypeOK
  <2>2. QED
    BY <1>1, <2>1 DEF Request
<1>5. ASSUME NEW r, Start(p, r)
      PROVE  req'[p] = r /\ \A q \in Requests \ {p} : req'[q] = req[q]
  BY <1>5 DEF Start, TypeOK
<1>6. QED
  BY <1>2, <1>3, <1>4, <1>5

\* A release gives back no more than it is asked to.
LEMMA ReleasedAtLeast ==
    ASSUME NEW B \in [Blobs -> Blob], NEW n \in [Blobs -> Nat], NEW b \in Blobs
    PROVE  Released(B, n)[b].ref \in Nat /\ Released(B, n)[b].ref >= B[b].ref - n[b]
<1>0. B[b].ref \in Nat /\ n[b] \in Nat
  BY DEF Blob
<1>1. CASE B[b].status \in {"orphaned", "active"} /\ n[b] > 0 /\ B[b].ref <= n[b]
  <2>1. Released(B, n)[b].ref = 0
    BY <1>1 DEF Released
  <2>2. QED
    BY <1>0, <1>1, <2>1
<1>2. CASE B[b].status \in {"orphaned", "active"} /\ n[b] > 0 /\ ~(B[b].ref <= n[b])
  <2>1. Released(B, n)[b].ref = B[b].ref - n[b]
    BY <1>2 DEF Released
  <2>2. QED
    BY <1>0, <1>2, <2>1
<1>3. CASE ~(B[b].status \in {"orphaned", "active"} /\ n[b] > 0)
  <2>1. Released(B, n)[b] = B[b]
    BY <1>3 DEF Released
  <2>2. QED
    BY <1>0, <2>1
<1>4. QED
  BY <1>1, <1>2, <1>3

\* An attach counts one more.
LEMMA AttachedRef ==
    ASSUME NEW B \in [Blobs -> Blob], NEW c \in Blobs, NEW b \in Blobs
    PROVE  Attached(B, c)[b].ref = IF b = c THEN B[b].ref + 1 ELSE B[b].ref
<1>1. Attached(B, c)[c] = [status |-> "active", ref |-> B[c].ref + 1]
  BY AttachedFacts
<1>2. b # c => Attached(B, c)[b] = B[b]
  BY AttachedFacts
<1>3. QED
  BY <1>1, <1>2

\* Neither makes the table forget an object.
LEMMA CountingRemembers ==
    ASSUME TypeOK, NEW c \in Blobs, NEW n \in [Blobs -> Nat],
           \/ blobs' = blobs
           \/ blobs' = Attached(blobs, c)
           \/ blobs' = Released(blobs, n)
           \/ blobs' = Released(Attached(blobs, c), n)
    PROVE  Remembered
<1>1. ASSUME NEW B \in [Blobs -> Blob], NEW b \in Blobs, B[b].status # "none"
      PROVE  Released(B, n)[b].status # "none"
  <2>1. CASE B[b].status \in {"orphaned", "active"}
    <3>1. Released(B, n)[b].status \in {"orphaned", "active"}
      BY <2>1, ReleasedFacts
    <3>2. QED
      BY <3>1
  <2>2. CASE B[b].status \notin {"orphaned", "active"}
    BY <1>1, <2>2, ReleasedFacts
  <2>3. QED
    BY <2>1, <2>2
<1>2. ASSUME NEW b \in Blobs, blobs[b].status # "none"
      PROVE  Attached(blobs, c)[b].status # "none"
  <2>1. blobs \in [Blobs -> Blob]
    BY DEF TypeOK
  <2>2. Attached(blobs, c)[c].status = "active"
    <3>1. Attached(blobs, c)[c] = [status |-> "active", ref |-> blobs[c].ref + 1]
      BY <2>1, AttachedFacts
    <3>2. QED
      BY <3>1
  <2>3. b # c => Attached(blobs, c)[b] = blobs[b]
    BY <2>1, AttachedFacts
  <2>4. QED
    BY <1>2, <2>2, <2>3
<1>3. blobs \in [Blobs -> Blob] /\ Attached(blobs, c) \in [Blobs -> Blob]
  BY AttachedType DEF TypeOK
<1>4. QED
  BY <1>1, <1>2, <1>3 DEF Remembered

\* The books say what is claimed.
LEMMA BooksCover ==
    ASSUME TypeOK, Books
    PROVE  RefsCoverRows
<1> SUFFICES ASSUME NEW b \in Blobs \ short
             PROVE  Cardinality(Holders(b)) <= blobs[b].ref
  BY DEF RefsCoverRows
<1>1. blobs[b].ref \in Nat
  BY DEF TypeOK, Blob
<1>2. QED
  BY <1>1, CountTypes DEF Books, Booked

\* A step that matches the counts and leaves no deletion behind keeps the books.
LEMMA SettledKeeps ==
    ASSUME TypeOK, TypeOK', CountInv, NEW p \in Requests, Settled(p)
    PROVE  CountInv'
<1>1. \A b : Owed(b)' \subseteq Owed(b)
  <2> SUFFICES ASSUME NEW b, NEW i \in Ids, NEW q \in Requests,
                      req'[q].step = "user_deleted", <<i, b>> \in req'[q].seen
               PROVE  i \in Owed(b)
    BY DEF Owed
  <2>1. req'[q] = req[q]
    BY DEF Settled
  <2>2. QED
    BY <2>1 DEF Owed
<1>2. ASSUME NEW b \in Blobs \ short'
      PROVE  Booked(b)'
  <2>1. Matched(b) /\ Booked(b)
    BY <1>2 DEF Settled, CountInv, Books
  <2>2. Cardinality(Owed(b)') <= Cardinality(Owed(b))
    BY <1>1, CountTypes, FS_Subset
  <2>3. QED
    BY <2>1, <2>2, CountTypesNow DEF Booked, Matched
<1>3. ASSUME NEW q \in Requests, Deleting(req[q])'
      PROVE  q # p /\ req'[q] = req[q] /\ Deleting(req[q]) /\ UserNoted(req[q])'
  <2>1. q # p /\ req'[q] = req[q]
    BY <1>3 DEF Settled, Deleting
  <2>2. Deleting(req[q]) /\ UserNoted(req[q])
    BY <1>3, <2>1 DEF Deleting, CountInv, DeletionsNoted
  <2>3. UNCHANGED owners /\ Remembered
    BY DEF Settled
  <2>4. UserNoted(req[q])'
    BY <2>1, <2>2, <2>3 DEF UserNoted, Remembered
  <2>5. QED
    BY <2>1, <2>2, <2>4
<1>4. DeletionsNoted'
  <2>1. \A q \in Requests : UserNoted(req[q])'
    BY <1>3 DEF UserNoted, Deleting
  <2>2. OneDeletion'
    BY <1>3 DEF OneDeletion, CountInv, DeletionsNoted
  <2>3. QED
    BY <2>1, <2>2 DEF DeletionsNoted
<1>5. QED
  BY <1>2, <1>4 DEF CountInv, Books

-----------------------------------------------------------------------------
(* What each kind of statement does to the count of an object.              *)

\* Where an object gains no holder, its count needs only not to fall.
LEMMA FewerHolders ==
    ASSUME TypeOK, TypeOK', NEW b \in Blobs,
           Holders(b)' \subseteq Holders(b), blobs'[b].ref >= blobs[b].ref
    PROVE  Matched(b)
<1>1. Cardinality(Holders(b)') <= Cardinality(Holders(b))
  BY CountTypes, FS_Subset
<1>2. QED
  BY <1>1, CountTypesNow DEF Matched

\* Names, places and marks other than that of a purge change no holder.
LEMMA SameMatched ==
    ASSUME TypeOK, TypeOK', UNCHANGED blobs,
           \A i \in Ids : /\ rows'[i].state = rows[i].state
                          /\ rows'[i].blob = rows[i].blob
                          /\ rows'[i].purged = rows[i].purged
    PROVE  \A b \in Blobs : Matched(b)
<1>1. \A b : Holders(b)' = Holders(b)
  BY DEF Holders, Referrers, Present
<1>2. \A b \in Blobs : blobs'[b].ref >= blobs[b].ref
  BY CountTypesNow
<1>3. QED
  BY <1>1, <1>2, FewerHolders

\* A row that comes with a reference is counted; a folder needs none.
LEMMA InsertMatched ==
    ASSUME TypeOK, TypeOK', NEW i \in Ids, NEW o, NEW par, NEW n,
           NEW c \in Blobs \cup {NoBlob}, InsertRow(i, o, par, n, c),
           blobs' = IF c = NoBlob THEN blobs ELSE Attached(blobs, c),
           NEW b \in Blobs
    PROVE  Matched(b)
<1>1. /\ rows[i].state = "none"
      /\ rows'[i].state = "present" /\ rows'[i].blob = c /\ ~rows'[i].purged
      /\ \A j \in Ids \ {i} : rows'[j] = rows[j]
  BY DEF InsertRow, TypeOK, BlankRow
<1>2. blobs[b].ref \in Nat /\ NoBlob \notin Blobs /\ b # NoBlob
  BY CatalogAssumption DEF TypeOK, Blob
<1>3. CASE b = c
  <2>1. Holders(b)' = Holders(b) \cup {i} /\ i \notin Holders(b)
    BY <1>1, <1>3 DEF Holders, Referrers, Present
  <2>2. Cardinality(Holders(b)') = Cardinality(Holders(b)) + 1
    BY <2>1, CountTypes, FS_AddElement
  <2>3. blobs'[b].ref = blobs[b].ref + 1
    <3>1. blobs' = Attached(blobs, b)
      BY <1>2, <1>3
    <3>2. Attached(blobs, b)[b].ref = blobs[b].ref + 1
      BY AttachedRef DEF TypeOK
    <3>3. QED
      BY <3>1, <3>2
  <2>4. QED
    BY <1>2, <2>2, <2>3, CountTypes DEF Matched
<1>4. CASE b # c
  <2>1. Holders(b)' = Holders(b)
    BY <1>1, <1>4 DEF Holders, Referrers, Present
  <2>2. blobs'[b].ref = blobs[b].ref
    <3>1. CASE c = NoBlob
      BY <3>1
    <3>2. CASE c # NoBlob
      <4>1. blobs' = Attached(blobs, c) /\ c \in Blobs
        BY <3>2
      <4>2. Attached(blobs, c)[b].ref = blobs[b].ref
        BY <1>4, <4>1, AttachedRef DEF TypeOK
      <4>3. QED
        BY <4>1, <4>2
    <3>3. QED
      BY <3>1, <3>2
  <2>3. QED
    BY <1>2, <2>1, <2>2, FewerHolders
<1>5. QED
  BY <1>3, <1>4

\* An overwritten row moves its reference.  A purged one has none to move: the
\* object it names loses another's.
LEMMA MovedMatched ==
    ASSUME TypeOK, TypeOK', NEW i \in Ids, NEW c \in Blobs, Present(i),
           rows' = [rows EXCEPT ![i].blob = c],
           blobs' = Released(Attached(blobs, c), One(rows[i].blob)),
           NEW b \in Blobs, rows[i].purged => b # rows[i].blob
    PROVE  Matched(b)
<1>1. /\ rows'[i].blob = c /\ Present(i)' /\ rows'[i].purged = rows[i].purged
      /\ \A j \in Ids \ {i} : rows'[j] = rows[j]
  BY DEF TypeOK, Row, Present
<1>2. blobs[b].ref \in Nat
  BY DEF TypeOK, Blob
<1>3. Attached(blobs, c)[b].ref = IF b = c THEN blobs[b].ref + 1 ELSE blobs[b].ref
  BY AttachedRef DEF TypeOK
<1>4. PICK m \in Nat : /\ m = blobs'[b].ref
                       /\ m >= Attached(blobs, c)[b].ref - One(rows[i].blob)[b]
  BY AttachedType, OneType, ReleasedAtLeast DEF TypeOK
<1>5. One(rows[i].blob)[b] = IF b = rows[i].blob THEN 1 ELSE 0
  BY DEF One
<1>6. Cardinality(Holders(b)) \in Nat
  BY CountTypes
<1>7. i \in Holders(b) <=> b = rows[i].blob /\ ~rows[i].purged
  BY DEF Holders, Referrers
<1>8. CASE b = c
  <2>1. Holders(b)' = IF rows[i].purged THEN Holders(b) ELSE Holders(b) \cup {i}
    BY <1>1, <1>7, <1>8 DEF Holders, Referrers, Present
  <2>2. Cardinality(Holders(b) \cup {i}) =
            IF i \in Holders(b) THEN Cardinality(Holders(b)) ELSE Cardinality(Holders(b)) + 1
    BY CountTypes, FS_AddElement
  <2>3. QED
    BY <1>2, <1>3, <1>4, <1>5, <1>6, <1>7, <1>8, <2>1, <2>2 DEF Matched
<1>9. CASE b # c
  <2>1. Holders(b)' = Holders(b) \ {i}
    BY <1>1, <1>9 DEF Holders, Referrers, Present
  <2>2. Cardinality(Holders(b) \ {i}) =
            IF i \in Holders(b) THEN Cardinality(Holders(b)) - 1 ELSE Cardinality(Holders(b))
    BY CountTypes, FS_RemoveElement
  <2>3. QED
    BY <1>2, <1>3, <1>4, <1>5, <1>6, <1>7, <1>9, <2>1, <2>2 DEF Matched
<1>10. QED
  BY <1>8, <1>9

\* A purge takes as many holders as it gives references back.
LEMMA PurgeMatched ==
    ASSUME TypeOK, TypeOK', NEW S \in SUBSET Ids, Purge(S),
           \A i \in S : Present(i) /\ ~rows[i].purged, NEW b \in Blobs
    PROVE  Matched(b)
<1> DEFINE G == {i \in S : rows[i].blob = b}
<1>1. \A i \in Ids : /\ rows'[i].state = rows[i].state /\ rows'[i].blob = rows[i].blob
                     /\ i \in S => rows'[i].purged
                     /\ i \notin S => rows'[i].purged = rows[i].purged
  <2> SUFFICES ASSUME NEW i \in Ids
               PROVE  /\ rows'[i].state = rows[i].state /\ rows'[i].blob = rows[i].blob
                      /\ i \in S => rows'[i].purged
                      /\ i \notin S => rows'[i].purged = rows[i].purged
    OBVIOUS
  <2>1. rows[i] \in Row
    BY DEF TypeOK
  <2>2. rows'[i] = IF i \in S THEN [rows[i] EXCEPT !.purged = TRUE] ELSE rows[i]
    BY DEF Purge
  <2>3. QED
    BY <2>1, <2>2 DEF Row
<1>2. Holders(b)' = Holders(b) \ G /\ Holders(b) \cap G = G
  BY <1>1 DEF Holders, Referrers, Present
<1>3. RefsOf(S)[b] = Cardinality(G)
  BY DEF RefsOf
<1>4. PICK m \in Nat : m = blobs'[b].ref /\ m >= blobs[b].ref - RefsOf(S)[b]
  BY RefsOfType, ReleasedAtLeast DEF Purge, TypeOK
<1> HIDE DEF G
<1>5. Cardinality(Holders(b)') = Cardinality(Holders(b)) - Cardinality(G)
  BY <1>2, CountTypes, FS_Difference
<1>6. Cardinality(Holders(b)) \in Nat /\ blobs[b].ref \in Nat
  BY CountTypes DEF TypeOK, Blob
<1>7. Cardinality(G) \in Nat
  BY <1>3, RefsOfType
<1>8. QED
  BY <1>3, <1>4, <1>5, <1>6, <1>7 DEF Matched

\* A row deleted by an administrator takes its reference with it, if the one
\* given back is its own.
LEMMA DeletedMatched ==
    ASSUME TypeOK, TypeOK', NEW i \in Ids, NEW c, Present(i),
           rows' = [rows EXCEPT ![i] = BlankRow("deleted")],
           blobs' = IF rows[i].purged THEN blobs ELSE Released(blobs, One(c)),
           NEW b \in Blobs, rows[i].purged \/ rows[i].blob = c \/ b # c
    PROVE  Matched(b)
<1>1. ~Present(i)' /\ \A j \in Ids \ {i} : rows'[j] = rows[j]
  BY DEF TypeOK, Present, BlankRow
<1>2. Holders(b)' = Holders(b) \ {i}
  BY <1>1 DEF Holders, Referrers, Present
<1>3. i \in Holders(b) <=> ~rows[i].purged /\ b = rows[i].blob
  BY DEF Holders, Referrers
<1>4. Cardinality(Holders(b) \ {i}) =
        IF i \in Holders(b) THEN Cardinality(Holders(b)) - 1 ELSE Cardinality(Holders(b))
  BY CountTypes, FS_RemoveElement
<1>5. Cardinality(Holders(b)) \in Nat /\ blobs[b].ref \in Nat
  BY CountTypes DEF TypeOK, Blob
<1>6. CASE rows[i].purged
  BY <1>2, <1>3, <1>4, <1>5, <1>6 DEF Matched
<1>7. CASE ~rows[i].purged
  <2>1. PICK m \in Nat : m = blobs'[b].ref /\ m >= blobs[b].ref - One(c)[b]
    BY <1>7, OneType, ReleasedAtLeast DEF TypeOK
  <2>2. One(c)[b] = IF b = c THEN 1 ELSE 0
    BY DEF One
  <2>3. QED
    BY <1>2, <1>3, <1>4, <1>5, <1>7, <2>1, <2>2 DEF Matched
<1>8. QED
  BY <1>6, <1>7

\* A purge leaves the slots settled if its own is.
LEMMA PurgeSettled ==
    ASSUME TypeOK, TypeOK', NEW S \in SUBSET Ids, Purge(S),
           \A i \in S : Present(i) /\ ~rows[i].purged,
           NEW p \in Requests, req'[p].step = "idle",
           \A q \in Requests \ {p} : req'[q] = req[q], UNCHANGED <<owners, short>>
    PROVE  Settled(p)
<1>1. Remembered
  <2>1. blobs' = Released(blobs, RefsOf(S)) /\ RefsOf(S) \in [Blobs -> Nat]
    BY RefsOfType DEF Purge
  <2>2. ASSUME NEW b \in Blobs
        PROVE  Remembered
    BY <2>1, <2>2, CountingRemembers
  <2>3. QED
    BY <2>2 DEF Remembered
<1>2. \A b \in Blobs : Matched(b)
  BY PurgeMatched
<1>3. QED
  BY <1>1, <1>2 DEF Settled

\* Where neither rows nor objects change, a slot only has to be settled itself.
LEMMA ReadingSettled ==
    ASSUME TypeOK, TypeOK', NEW p \in Requests,
           req'[p].step \notin {"user_locked", "user_deleted"},
           \A q \in Requests \ {p} : req'[q] = req[q],
           UNCHANGED <<rows, blobs, owners, short>>
    PROVE  Settled(p)
BY SameMatched DEF Settled, Remembered

\* Nor does a change of names, places and other marks than that of a purge.
LEMMA MarkingSettled ==
    ASSUME TypeOK, TypeOK', NEW p \in Requests,
           req'[p].step \notin {"user_locked", "user_deleted"},
           \A q \in Requests \ {p} : req'[q] = req[q],
           UNCHANGED <<blobs, owners, short>>,
           \A i \in Ids : /\ rows'[i].state = rows[i].state
                          /\ rows'[i].blob = rows[i].blob
                          /\ rows'[i].purged = rows[i].purged
    PROVE  Settled(p)
BY SameMatched DEF Settled, Remembered

-----------------------------------------------------------------------------
(* Every step keeps the books, whatever the other requests are doing.       *)

\* An upload adds its row and its reference in one step; an object it enters
\* into the table is linked to by no row and listed by no deletion.
LEMMA UploadCounts ==
    ASSUME TypeOK, TypeOK', SafeInv, CountInv, NEW p \in Requests, UploadStep(p)
    PROVE  CountInv'
<1>0. /\ req[p] \in Request
      /\ req[p].step \in {"written", "created", "validated", "release"} => req[p].blob \in Blobs
  BY DEF TypeOK, SafeInv, UploadsHoldObjects
<1>1. ASSUME NEW o \in Owners, NEW par \in Parents, NEW n \in Names,
             NEW m \in Modes, NEW b \in Blobs,
             WriteObject(p, o, par, n, m, b) \/ ReuseObject(p, o, par, n, m, b)
      PROVE  CountInv'
  <2>1. /\ req'[p].step \in {"written", "created"}
        /\ \A q \in Requests \ {p} : req'[q] = req[q]
        /\ UNCHANGED <<rows, blobs, owners, short>>
    <3>1. CASE WriteObject(p, o, par, n, m, b)
      BY <3>1 DEF WriteObject, Start, IdleRequest, TypeOK
    <3>2. CASE ReuseObject(p, o, par, n, m, b)
      BY <3>2 DEF ReuseObject, Start, IdleRequest, TypeOK
    <3>3. QED
      BY <1>1, <3>1, <3>2
  <2>2. Settled(p)
    BY <2>1, ReadingSettled
  <2>3. QED
    BY <2>2, SettledKeeps
<1>2. CASE InsertFails(p) \/ SaveFails(p) \/ ValidateParent(p)
  <2>1. /\ req'[p].step \in {"idle", "release", "validated"}
        /\ \A q \in Requests \ {p} : req'[q] = req[q]
        /\ UNCHANGED <<rows, blobs, owners, short>>
    BY <1>2, SlotSteps DEF InsertFails, SaveFails, ValidateParent
  <2>2. Settled(p)
    BY <2>1, ReadingSettled
  <2>3. QED
    BY <2>2, SettledKeeps
<1>3. CASE InsertObject(p)
  <2>0. PICK c \in Blobs : c = req[p].blob
    BY <1>0, <1>3 DEF InsertObject
  <2>1. /\ req'[p].step = "created" /\ UNCHANGED <<rows, owners, short>>
        /\ \A q \in Requests \ {p} : req'[q] = req[q]
        /\ blobs' = [blobs EXCEPT ![c] = [status |-> "orphaned", ref |-> 0]]
        /\ Written(p)
    BY <1>3, <2>0, SlotSteps DEF InsertObject, Written
  <2>2. c \in Blobs /\ blobs[c].status = "none"
    BY <2>0, <2>1 DEF SafeInv, WritesPending, Written
  <2>3. Referrers(c) = {}
    <3>1. ~InTable(c) /\ c # NoBlob
      BY <2>2, CatalogAssumption DEF InTable
    <3>2. QED
      BY <3>1 DEF SafeInv, ContentAvailable, Referrers
  <2>4. \A q \in Requests : Deleting(req[q]) => \A x \in req[q].seen : x[2] # c
    BY <2>2 DEF CountInv, DeletionsNoted, UserNoted
  <2>5. /\ \A b \in Blobs : Holders(b)' = Holders(b) /\ Owed(b)' \subseteq Owed(b)
        /\ Holders(c)' = {} /\ Owed(c)' = {}
    <3>1. \A b : Holders(b)' = Holders(b)
      BY <2>1 DEF Holders, Referrers, Present
    <3>2. \A q \in Requests : req'[q].step = "user_deleted" => req'[q] = req[q]
      BY <2>1
    <3>3. \A b \in Blobs : Owed(b)' \subseteq Owed(b)
      BY <3>2 DEF Owed
    <3>4. Owed(c) = {}
      <4>1. \A i : <<i, c>>[2] = c
        OBVIOUS
      <4>2. \A q \in Requests : req[q].step = "user_deleted" =>
                \A i : <<i, c>> \notin req[q].seen
        BY <2>4, <4>1 DEF Deleting
      <4>3. QED
        BY <4>2 DEF Owed
    <3>5. Holders(c) = {}
      BY <2>3 DEF Holders
    <3>6. Holders(c)' = {} /\ Owed(c)' = {}
      BY <2>2, <3>1, <3>3, <3>4, <3>5
    <3>7. QED
      BY <3>1, <3>3, <3>6
  <2>6. ASSUME NEW b \in Blobs \ short'
        PROVE  Booked(b)'
    <3>1. CASE b = c
      <4>1. blobs'[b].ref \in Nat
        BY CountTypesNow
      <4>2. Cardinality(Holders(b)') = 0 /\ Cardinality(Owed(b)') = 0
        <5>1. Holders(b)' = {} /\ Owed(b)' = {}
          BY <2>5, <3>1
        <5>2. QED
          BY <5>1, FS_EmptySet
      <4>3. QED
        BY <4>1, <4>2 DEF Booked
    <3>2. CASE b # c
      <4>1. blobs'[b] = blobs[b] /\ Booked(b)
        BY <2>1, <2>6, <3>2 DEF TypeOK, CountInv, Books
      <4>2. Cardinality(Owed(b)') <= Cardinality(Owed(b))
        BY <2>5, CountTypes, FS_Subset
      <4>3. Holders(b)' = Holders(b)
        BY <2>5
      <4>4. QED
        BY <4>1, <4>2, <4>3, CountTypesNow DEF Booked
    <3>3. QED
      BY <3>1, <3>2
  <2>7. \A q \in Requests : Deleting(req[q])' => req'[q] = req[q] /\ Deleting(req[q])
    BY <2>1 DEF Deleting
  <2>8. \A b \in Blobs : blobs[b].status # "none" => blobs'[b].status # "none"
    BY <2>1, <2>2 DEF TypeOK
  <2>9. DeletionsNoted'
    <3>1. \A q \in Requests : UserNoted(req[q])'
      BY <2>1, <2>7, <2>8 DEF CountInv, DeletionsNoted, UserNoted
    <3>2. QED
      BY <2>7, <3>1 DEF CountInv, DeletionsNoted, OneDeletion
  <2>10. QED
    BY <2>6, <2>9 DEF CountInv, Books
<1>4. CASE SaveUploadedFile(p)
  <2>1. /\ req'[p].step \in {"idle", "release"} /\ UNCHANGED owners
        /\ \A q \in Requests \ {p} : req'[q] = req[q]
        /\ req[p].blob \in Blobs
    BY <1>0, <1>4, SlotSteps DEF SaveUploadedFile
  <2>2. CASE SaveNew(p)
    <3>1. PICK i \in Files, n \in SaveNames(req[p]) :
             /\ InsertRow(i, req[p].owner, req[p].parent, n, req[p].blob)
             /\ blobs' = Attached(blobs, req[p].blob)
             /\ UNCHANGED short
      BY <2>2 DEF SaveNew
    <3>2. i \in Ids /\ req[p].blob # NoBlob
      BY <2>1, CatalogAssumption DEF Ids
    <3>3. \A b \in Blobs : Matched(b)
      BY <2>1, <3>1, <3>2, InsertMatched
    <3>4. Remembered
      BY <2>1, <3>1, OneType, CountingRemembers
    <3>5. Settled(p)
      BY <2>1, <3>1, <3>3, <3>4 DEF Settled
    <3>6. QED
      BY <3>5, SettledKeeps
  <2>3. CASE SaveOver(p)
    <3>1. PICK i \in Files \cap Entry(req[p].owner, req[p].parent, req[p].name) :
             /\ rows' = [rows EXCEPT ![i].blob = req[p].blob]
             /\ blobs' = Released(Attached(blobs, req[p].blob), One(rows[i].blob))
             /\ short' = IF rows[i].purged THEN short \cup {rows[i].blob} ELSE short
      BY <2>3 DEF SaveOver
    <3>2. i \in Ids /\ Present(i)
      BY <3>1 DEF Entry, Active
    <3>3. \A b \in Blobs \ short' : Matched(b)
      BY <2>1, <3>1, <3>2, MovedMatched
    <3>4. Remembered
      BY <2>1, <3>1, OneType, CountingRemembers
    <3>5. Settled(p)
      BY <2>1, <3>1, <3>3, <3>4 DEF Settled
    <3>6. QED
      BY <3>5, SettledKeeps
  <2>4. QED
    BY <1>4, <2>2, <2>3 DEF SaveUploadedFile
<1>5. CASE ReleaseUnsaved(p)
  <2> DEFINE c == req[p].blob
  <2>1. /\ req'[p].step = "idle" /\ UNCHANGED <<rows, owners>>
        /\ \A q \in Requests \ {p} : req'[q] = req[q]
        /\ blobs' = Released(blobs, One(c))
        /\ short' = IF blobs[c].ref > 0 THEN short \cup {c} ELSE short
        /\ c \in Blobs
    BY <1>0, <1>5, SlotSteps DEF ReleaseUnsaved
  <2>2. ASSUME NEW b \in Blobs \ short'
        PROVE  Matched(b)
    <3>1. Holders(b)' = Holders(b)
      BY <2>1 DEF Holders, Referrers, Present
    <3>2. /\ blobs'[b].ref \in Nat /\ blobs[b].ref \in Nat
          /\ blobs'[b].ref >= blobs[b].ref - One(c)[b]
      BY <2>1, OneType, ReleasedAtLeast DEF TypeOK, Blob
    <3>3. One(c)[b] = IF b = c THEN 1 ELSE 0
      BY DEF One
    <3>4. b = c => blobs[b].ref = 0
      BY <2>1, <2>2, <3>2
    <3>5. blobs'[b].ref >= blobs[b].ref
      BY <3>2, <3>3, <3>4
    <3>6. QED
      BY <3>1, <3>5, FewerHolders
  <2>3. Remembered
    BY <2>1, OneType, CountingRemembers
  <2>4. Settled(p)
    BY <2>1, <2>2, <2>3 DEF Settled
  <2>5. QED
    BY <2>4, SettledKeeps
<1>6. QED
  BY <1>1, <1>2, <1>3, <1>4, <1>5 DEF UploadStep

\* Whatever an owner does, a row that stays unpurged keeps its reference.
LEMMA OwnerCounts ==
    ASSUME TypeOK, TypeOK', CountInv, NEW p \in Requests, OwnerStep(p)
    PROVE  CountInv'
<1>0. req[p] \in Request
  BY DEF TypeOK
<1>b. \A i \in Ids : rows[i] \in Row
  BY DEF TypeOK
<1>1. ASSUME NEW o \in Owners, NEW par \in Parents, NEW n \in Names,
             BeginFolder(p, o, par, n)
      PROVE  Settled(p)
  <2>1. /\ req'[p].step = "folder" /\ \A q \in Requests \ {p} : req'[q] = req[q]
        /\ UNCHANGED <<rows, blobs, owners, short>>
    BY <1>1 DEF BeginFolder, Start, IdleRequest, TypeOK
  <2>2. QED
    BY <2>1, ReadingSettled
<1>2. CASE CreateFolder(p)
  <2>1. PICK i \in Folders :
           InsertRow(i, req[p].owner, req[p].parent, req[p].name, NoBlob)
    BY <1>2 DEF CreateFolder
  <2>2. /\ i \in Ids /\ UNCHANGED <<blobs, owners, short>> /\ req'[p].step = "idle"
        /\ \A q \in Requests \ {p} : req'[q] = req[q]
    BY <1>2, SlotSteps DEF CreateFolder, Ids
  <2>3. \A b \in Blobs : Matched(b)
    BY <2>1, <2>2, InsertMatched
  <2>4. Settled(p)
    BY <2>2, <2>3 DEF Settled, Remembered
  <2>5. QED
    BY <2>4, SettledKeeps
<1>3. ASSUME NEW i \in Ids, NEW n \in Names, RenameOwned(p, i, n)
      PROVE  Settled(p)
  <2>1. \A j \in Ids : /\ rows'[j].state = rows[j].state /\ rows'[j].blob = rows[j].blob
                       /\ rows'[j].purged = rows[j].purged
    BY <1>3, <1>b DEF RenameOwned, TypeOK, Row
  <2>2. UNCHANGED <<blobs, owners, short, req>> /\ req'[p].step = "idle"
    BY <1>3 DEF RenameOwned, Free
  <2>3. QED
    BY <2>1, <2>2, MarkingSettled
<1>4. ASSUME NEW step \in {"trash", "restore", "purge"}, NEW i, NEW ok, NEW n,
             SelectTree(p, step, i, ok, n)
      PROVE  Settled(p)
  <2> DEFINE s == {<<j, rows[j].blob>> : j \in Tree(i, ok)}
  <2>1. /\ Start(p, [IdleRequest EXCEPT !.step = step, !.name = n, !.seen = s])
        /\ UNCHANGED <<rows, blobs, owners, short>>
    BY <1>4 DEF SelectTree
  <2> HIDE DEF s
  <2>2. /\ req'[p] = [IdleRequest EXCEPT !.step = step, !.name = n, !.seen = s]
        /\ \A q \in Requests \ {p} : req'[q] = req[q]
    BY <2>1 DEF Start, TypeOK
  <2>3. req'[p].step = step
    BY <2>2 DEF IdleRequest
  <2>4. QED
    BY <2>1, <2>2, <2>3, ReadingSettled
<1>5. ASSUME NEW i \in Ids, SelectTrash(p, i) \/ SelectRestore(p, i) \/ SelectPurge(p, i)
      PROVE  Settled(p)
  BY <1>4, <1>5 DEF SelectTrash, SelectRestore, SelectPurge
<1>6. CASE MoveToTrashOwned(p) \/ RestoreOwned(p)
  <2>1. \A j \in Ids : /\ rows'[j].state = rows[j].state /\ rows'[j].blob = rows[j].blob
                       /\ rows'[j].purged = rows[j].purged
    <3>1. CASE MoveToTrashOwned(p)
      BY <1>b, <3>1 DEF MoveToTrashOwned, Row
    <3>2. CASE RestoreOwned(p)
      <4>1. ASSUME NEW j \in Ids
            PROVE  /\ rows'[j].state = rows[j].state /\ rows'[j].blob = rows[j].blob
                   /\ rows'[j].purged = rows[j].purged
        <5> DEFINE nm == IF j \in Rooted(p) THEN req[p].name ELSE rows[j].name
        <5>1. \/ rows'[j] = [rows[j] EXCEPT !.trashed = FALSE, !.name = nm]
              \/ rows'[j] = rows[j]
          BY <3>2 DEF RestoreOwned
        <5> HIDE DEF nm
        <5>2. QED
          BY <1>b, <5>1 DEF Row
      <4>2. QED
        BY <4>1
    <3>3. QED
      BY <1>6, <3>1, <3>2
  <2>2. /\ UNCHANGED <<blobs, owners, short>> /\ req'[p].step = "idle"
        /\ \A q \in Requests \ {p} : req'[q] = req[q]
    BY <1>6, SlotSteps DEF MoveToTrashOwned, RestoreOwned
  <2>3. Settled(p)
    BY <2>1, <2>2, MarkingSettled
  <2>4. QED
    BY <2>3, SettledKeeps
<1>7. CASE PurgeTrashedOwned(p)
  <2> DEFINE S == {i \in Seen(p) : Present(i) /\ ~rows[i].purged}
  <2>1. /\ Purge(S) /\ req'[p].step = "idle" /\ UNCHANGED <<owners, short>>
        /\ \A q \in Requests \ {p} : req'[q] = req[q]
    BY <1>7, SlotSteps DEF PurgeTrashedOwned
  <2>2. S \in SUBSET Ids /\ \A i \in S : Present(i) /\ ~rows[i].purged
    BY <1>0 DEF Seen, Request
  <2> HIDE DEF S
  <2>3. Settled(p)
    BY <2>1, <2>2, PurgeSettled
  <2>4. QED
    BY <2>3, SettledKeeps
<1>8. ASSUME NEW o \in Owners, PurgeAllTrashOwned(p, o)
      PROVE  Settled(p)
  <2> DEFINE S == {i \in Ids : Purgeable(i) /\ OwnerOf[i] = o}
  <2>1. Purge(S) /\ req'[p].step = "idle" /\ UNCHANGED <<owners, short, req>>
    BY <1>8 DEF PurgeAllTrashOwned, Free
  <2>2. S \in SUBSET Ids /\ \A i \in S : Present(i) /\ ~rows[i].purged
    BY DEF Purgeable
  <2> HIDE DEF S
  <2>3. QED
    BY <2>1, <2>2, PurgeSettled
<1>9. QED
  BY <1>1, <1>2, <1>3, <1>5, <1>6, <1>7, <1>8, SettledKeeps
     DEF OwnerStep, FolderStep, ItemStep, TrashStep

\* The deletion of a user moves what its rows are counted for from the holders
\* to what is owed, whoever else changes those rows meanwhile.
LEMMA UserDeletedCounts ==
    ASSUME TypeOK, TypeOK', CountInv, NEW p \in Requests, DeleteUser(p)
    PROVE  CountInv'
<1> DEFINE mine == {i \in Ids : Present(i) /\ OwnerOf[i] = req[p].owner}
           lost == {x[2] : x \in {y \in req[p].seen : y[1] \notin Holders(y[2])}}
<1>1. /\ \A i \in Ids : rows'[i] = IF i \in mine THEN BlankRow("deleted") ELSE rows[i]
      /\ UNCHANGED blobs /\ req[p].step = "user_locked"
      /\ owners' = owners \ {req[p].owner} /\ short' = short \cup lost
  BY DEF DeleteUser
<1>2. /\ req'[p].step = "user_deleted" /\ req'[p].seen = req[p].seen
      /\ req'[p].owner = req[p].owner
      /\ \A q \in Requests \ {p} : req'[q] = req[q]
  BY SlotSteps DEF DeleteUser
<1>3. UserNoted(req[p]) /\ Deleting(req[p])
  BY <1>1 DEF CountInv, DeletionsNoted, Deleting
<1>4. ASSUME NEW b \in Blobs \ short'
      PROVE  Booked(b)'
  <2>1. Holders(b)' = Holders(b) \ mine
    BY <1>1 DEF Holders, Referrers, Present, BlankRow
  <2>2. ASSUME NEW i \in Ids, <<i, b>> \in req[p].seen
        PROVE  i \in Holders(b) \cap mine
    <3>1. i \in Holders(b)
      <4>1. b \notin lost
        BY <1>1, <1>4
      <4>2. QED
        BY <2>2, <4>1
    <3>2. OwnerOf[i] = req[p].owner
      BY <1>3, <2>2 DEF UserNoted
    <3>3. QED
      BY <3>1, <3>2 DEF Holders, Referrers
  <2>3. Owed(b)' \subseteq Owed(b) \cup (Holders(b) \cap mine)
    <3> SUFFICES ASSUME NEW i \in Ids, NEW q \in Requests,
                        req'[q].step = "user_deleted", <<i, b>> \in req'[q].seen
                 PROVE  i \in Owed(b) \cup (Holders(b) \cap mine)
      BY DEF Owed
    <3>1. CASE q = p
      BY <1>2, <2>2, <3>1
    <3>2. CASE q # p
      BY <1>2, <3>2 DEF Owed
    <3>3. QED
      BY <3>1, <3>2
  <2> HIDE DEF mine
  <2>4. /\ Cardinality(Holders(b) \ mine)
              = Cardinality(Holders(b)) - Cardinality(Holders(b) \cap mine)
        /\ IsFiniteSet(Holders(b) \cap mine) /\ Cardinality(Holders(b) \cap mine) \in Nat
    BY CountTypes, FS_Difference, FS_Intersection, FS_CardinalityType
  <2>5. Cardinality(Owed(b)') <= Cardinality(Owed(b)) + Cardinality(Holders(b) \cap mine)
    <3> DEFINE U == Owed(b) \cup (Holders(b) \cap mine)
    <3>1. /\ IsFiniteSet(U)
          /\ Cardinality(U) = Cardinality(Owed(b)) + Cardinality(Holders(b) \cap mine)
                - Cardinality(Owed(b) \cap (Holders(b) \cap mine))
      BY <2>4, CountTypes, FS_Union
    <3>2. Cardinality(Owed(b) \cap (Holders(b) \cap mine)) \in Nat
      BY CountTypes, FS_Intersection, FS_CardinalityType
    <3>3. Cardinality(Owed(b)') <= Cardinality(U)
      BY <2>3, <3>1, FS_Subset
    <3>4. Cardinality(U) \in Nat
      BY <3>1, FS_CardinalityType
    <3> HIDE DEF U
    <3>5. QED
      BY <2>4, <3>1, <3>2, <3>3, <3>4, CountTypesNow
  <2>6. Booked(b) /\ blobs'[b].ref = blobs[b].ref
    BY <1>1, <1>4 DEF CountInv, Books
  <2>7. QED
    BY <2>1, <2>4, <2>5, <2>6, CountTypesNow DEF Booked
<1> HIDE DEF lost, mine
<1>5. ASSUME NEW q \in Requests, Deleting(req[q])', q # p
      PROVE  /\ req'[q] = req[q] /\ Deleting(req[q]) /\ req[q].owner # req[p].owner
             /\ UserNoted(req[q])'
  <2>1. req'[q] = req[q] /\ Deleting(req[q])
    BY <1>2, <1>5 DEF Deleting
  <2>2. req[q].owner # req[p].owner
    BY <1>3, <1>5, <2>1 DEF CountInv, DeletionsNoted, OneDeletion
  <2>3. UserNoted(req[q])
    BY DEF CountInv, DeletionsNoted
  <2>4. UserNoted(req[q])'
    BY <1>1, <2>1, <2>2, <2>3 DEF UserNoted
  <2>5. QED
    BY <2>1, <2>2, <2>4
<1>6. UserNoted(req[p])'
  BY <1>1, <1>2, <1>3 DEF UserNoted
<1>7. DeletionsNoted'
  <2>1. \A q \in Requests : UserNoted(req[q])'
    BY <1>5, <1>6 DEF UserNoted, Deleting
  <2>2. OneDeletion'
    <3> SUFFICES ASSUME NEW q \in Requests, NEW r \in Requests, Deleting(req[q])',
                        Deleting(req[r])', req'[q].owner = req'[r].owner
                 PROVE  q = r
      BY DEF OneDeletion
    <3>1. CASE q # p /\ r # p
      BY <1>5, <3>1 DEF CountInv, DeletionsNoted, OneDeletion
    <3>2. CASE q = p \/ r = p
      BY <1>2, <1>5, <3>2
    <3>3. QED
      BY <3>1, <3>2
  <2>3. QED
    BY <2>1, <2>2 DEF DeletionsNoted
<1>8. QED
  BY <1>4, <1>7 DEF CountInv, Books

\* What is given back for a deleted user was owed, and is owed no longer.
LEMMA UserReleasedCounts ==
    ASSUME TypeOK, TypeOK', CountInv, NEW p \in Requests, req[p].step = "user_deleted",
           NEW x \in req[p].seen, blobs' \in {blobs, Released(blobs, One(x[2]))},
           req' = [req EXCEPT ![p].seen = @ \ {x}], UNCHANGED <<rows, owners, short>>
    PROVE  CountInv'
<1>0. req[p] \in Request
  BY DEF TypeOK
<1>1. /\ req'[p].step = "user_deleted" /\ req'[p].owner = req[p].owner
      /\ req'[p].seen = req[p].seen \ {x}
      /\ \A q \in Requests \ {p} : req'[q] = req[q]
  BY <1>0 DEF TypeOK, Request
<1>2. x[1] \in Ids /\ x = <<x[1], x[2]>> /\ x[2] \in Blobs \cup {NoBlob}
  BY <1>0 DEF Request
<1>3. \A q \in Requests : req[q].step = "user_deleted" /\ x \in req[q].seen => q = p
  BY DEF CountInv, DeletionsNoted, OneDeletion, UserNoted, Deleting
<1>4. ASSUME NEW b \in Blobs \ short'
      PROVE  Booked(b)'
  <2>1. Holders(b)' = Holders(b)
    BY DEF Holders, Referrers, Present
  <2>2. Owed(b)' \subseteq IF b = x[2] THEN Owed(b) \ {x[1]} ELSE Owed(b)
    <3> SUFFICES ASSUME NEW i \in Ids, NEW q \in Requests,
                        req'[q].step = "user_deleted", <<i, b>> \in req'[q].seen
                 PROVE  /\ i \in Owed(b)
                        /\ b = x[2] => i # x[1]
      BY DEF Owed
    <3>1. req[q].step = "user_deleted" /\ <<i, b>> \in req[q].seen
      BY <1>1
    <3>2. <<i, b>> # x
      BY <1>1, <1>3, <3>1
    <3>3. QED
      BY <1>2, <3>1, <3>2 DEF Owed
  <2>3. b = x[2] => x[1] \in Owed(b)
    BY <1>2 DEF Owed
  <2>4. Cardinality(Owed(b)') <= IF b = x[2] THEN Cardinality(Owed(b)) - 1
                                 ELSE Cardinality(Owed(b))
    <3>1. CASE b = x[2]
      <4>1. /\ IsFiniteSet(Owed(b) \ {x[1]})
            /\ Cardinality(Owed(b) \ {x[1]}) = Cardinality(Owed(b)) - 1
        BY <2>3, <3>1, CountTypes, FS_RemoveElement
      <4>2. QED
        BY <2>2, <3>1, <4>1, FS_Subset
    <3>2. CASE b # x[2]
      BY <2>2, <3>2, CountTypes, FS_Subset
    <3>3. QED
      BY <3>1, <3>2
  <2>5. PICK m \in Nat : m = blobs'[b].ref /\ m >= blobs[b].ref - One(x[2])[b]
    <3>1. One(x[2])[b] \in Nat
      BY OneType
    <3>2. CASE blobs' = blobs
      BY <3>1, <3>2, CountTypesNow
    <3>3. CASE blobs' = Released(blobs, One(x[2]))
      BY <3>3, OneType, ReleasedAtLeast DEF TypeOK
    <3>4. QED
      BY <3>2, <3>3
  <2>6. One(x[2])[b] = IF b = x[2] THEN 1 ELSE 0
    BY DEF One
  <2>7. Booked(b)
    BY <1>4 DEF CountInv, Books
  <2>8. QED
    BY <2>1, <2>4, <2>5, <2>6, <2>7, CountTypesNow DEF Booked
<1>5. \A b \in Blobs : blobs[b].status # "none" => blobs'[b].status # "none"
  <2>1. ASSUME NEW b \in Blobs
        PROVE  Remembered
    BY <2>1, OneType, CountingRemembers
  <2>2. QED
    BY <2>1 DEF Remembered
<1>6. \A q \in Requests : /\ Deleting(req[q])' = Deleting(req[q])
                          /\ req'[q].step = req[q].step
                          /\ req'[q].owner = req[q].owner
                          /\ req'[q].seen \subseteq req[q].seen
  BY <1>1 DEF Deleting
<1>7. DeletionsNoted'
  <2>1. \A q \in Requests : UserNoted(req[q])'
    BY <1>5, <1>6 DEF CountInv, DeletionsNoted, UserNoted
  <2>2. OneDeletion'
    BY <1>6 DEF CountInv, DeletionsNoted, OneDeletion
  <2>3. QED
    BY <2>1, <2>2 DEF DeletionsNoted
<1>8. QED
  BY <1>4, <1>7 DEF CountInv, Books

\* A deletion begins with rows of a user nobody else is deleting; the objects
\* they name are registered.
LEMMA UserCollectedCounts ==
    ASSUME TypeOK, TypeOK', SafeInv, CountInv, NEW p \in Requests, NEW o \in Owners,
           CollectUser(p, o)
    PROVE  CountInv'
<1> DEFINE s == {<<i, rows[i].blob>> : i \in {j \in Files :
                    Present(j) /\ OwnerOf[j] = o /\ ~rows[j].purged}}
<1>1. /\ Start(p, [IdleRequest EXCEPT !.step = "user_locked", !.owner = o, !.seen = s])
      /\ o \in owners /\ UserUnlocked(o) /\ UNCHANGED <<rows, blobs, owners, short>>
  BY DEF CollectUser
<1>2. \A x \in s : /\ OwnerOf[x[1]] = o
                   /\ x[2] \in Blobs => blobs[x[2]].status # "none"
  <2> SUFFICES ASSUME NEW i \in Files, Present(i), OwnerOf[i] = o
               PROVE  rows[i].blob \in Blobs => blobs[rows[i].blob].status # "none"
    OBVIOUS
  <2>1. i \in Ids /\ NoBlob \notin Blobs
    BY CatalogAssumption DEF Ids
  <2>2. QED
    BY <2>1 DEF SafeInv, ContentAvailable, InTable
<1> HIDE DEF s
<1>3. /\ req'[p].step = "user_locked" /\ req'[p].owner = o /\ req'[p].seen = s
      /\ \A q \in Requests \ {p} : req'[q] = req[q]
      /\ req[p].step = "idle"
  <2>1. /\ req'[p] = [IdleRequest EXCEPT !.step = "user_locked", !.owner = o, !.seen = s]
        /\ \A q \in Requests \ {p} : req'[q] = req[q]
        /\ req[p].step = "idle"
    BY <1>1 DEF Start, Free, TypeOK
  <2>2. QED
    BY <2>1 DEF IdleRequest
<1>4. \A b : Owed(b)' \subseteq Owed(b)
  BY <1>3 DEF Owed
<1>5. ASSUME NEW b \in Blobs \ short'
      PROVE  Booked(b)'
  <2>1. Holders(b)' = Holders(b) /\ blobs'[b] = blobs[b]
    BY <1>1 DEF Holders, Referrers, Present
  <2>2. Cardinality(Owed(b)') <= Cardinality(Owed(b)) /\ Booked(b)
    BY <1>1, <1>4, <1>5, CountTypes, FS_Subset DEF CountInv, Books
  <2>3. QED
    BY <2>1, <2>2, CountTypesNow DEF Booked
<1>6. \A q \in Requests \ {p} : Deleting(req[q]) => req[q].owner # o
  <2> SUFFICES ASSUME NEW q \in Requests \ {p}, Deleting(req[q]), req[q].owner = o
               PROVE  FALSE
    OBVIOUS
  <2>1. req[q].step = "user_locked"
    BY <1>1 DEF CountInv, DeletionsNoted, UserNoted
  <2>2. QED
    BY <1>1, <2>1 DEF UserUnlocked
<1>7. DeletionsNoted'
  <2>1. \A q \in Requests : UserNoted(req[q])'
    BY <1>1, <1>2, <1>3 DEF CountInv, DeletionsNoted, UserNoted, Deleting
  <2>2. OneDeletion'
    BY <1>3, <1>6 DEF CountInv, DeletionsNoted, OneDeletion, Deleting
  <2>3. QED
    BY <2>1, <2>2 DEF DeletionsNoted
<1>8. QED
  BY <1>5, <1>7 DEF CountInv, Books

\* A deletion by an administrator gives back what the row it takes was counted
\* for, or says that it gave back something else.
LEMMA AdminCounts ==
    ASSUME TypeOK, TypeOK', SafeInv, CountInv, NEW p \in Requests, AdminStep(p)
    PROVE  CountInv'
<1>0. req[p] \in Request /\ \A i \in Ids : rows[i] \in Row
  BY DEF TypeOK
<1>1. ASSUME NEW i \in Files, NEW delete \in BOOLEAN, NEW block \in BOOLEAN,
             SetAdminDisposition(p, i, delete, block)
      PROVE  CountInv'
  <2>1. \A j \in Ids : /\ rows'[j].state = rows[j].state /\ rows'[j].blob = rows[j].blob
                       /\ rows'[j].purged = rows[j].purged
    BY <1>0, <1>1 DEF SetAdminDisposition, TypeOK, Row
  <2>2. UNCHANGED <<blobs, owners, short, req>> /\ req'[p].step = "idle"
    BY <1>1 DEF SetAdminDisposition, Free
  <2>3. Settled(p)
    BY <2>1, <2>2, MarkingSettled
  <2>4. QED
    BY <2>3, SettledKeeps
<1>2. ASSUME NEW i \in Files, ReadAdminTrashed(p, i)
      PROVE  CountInv'
  <2>1. /\ req'[p].step = "admin_delete" /\ UNCHANGED <<rows, blobs, owners, short>>
        /\ \A q \in Requests \ {p} : req'[q] = req[q]
    BY <1>2 DEF ReadAdminTrashed, Start, IdleRequest, TypeOK
  <2>2. Settled(p)
    BY <2>1, ReadingSettled
  <2>3. QED
    BY <2>2, SettledKeeps
<1>3. CASE DeleteAdminTrashedFile(p)
  <2>1. PICK x \in req[p].seen :
           /\ Present(x[1])
           /\ rows' = [rows EXCEPT ![x[1]] = BlankRow("deleted")]
           /\ blobs' = IF rows[x[1]].purged THEN blobs ELSE Released(blobs, One(x[2]))
           /\ short' = IF rows[x[1]].purged \/ rows[x[1]].blob = x[2] THEN short
                       ELSE short \cup {x[2]}
    BY <1>3 DEF DeleteAdminTrashedFile
  <2>2. /\ x[1] \in Ids /\ req'[p].step = "idle" /\ UNCHANGED owners
        /\ \A q \in Requests \ {p} : req'[q] = req[q]
    BY <1>0, <1>3, SlotSteps DEF DeleteAdminTrashedFile, Request
  <2>3. ASSUME NEW b \in Blobs \ short'
        PROVE  Matched(b)
    <3>1. rows[x[1]].purged \/ rows[x[1]].blob = x[2] \/ b # x[2]
      BY <2>1, <2>3
    <3>2. QED
      BY <2>1, <2>2, <3>1, DeletedMatched
  <2>4. Remembered
    <3>1. ASSUME NEW b \in Blobs
          PROVE  Remembered
      BY <2>1, <3>1, OneType, CountingRemembers
    <3>2. QED
      BY <3>1 DEF Remembered
  <2>5. Settled(p)
    BY <2>1, <2>2, <2>3, <2>4 DEF Settled
  <2>6. QED
    BY <2>5, SettledKeeps
<1>4. ASSUME NEW o \in Owners, CollectUser(p, o)
      PROVE  CountInv'
  BY <1>4, UserCollectedCounts
<1>5. CASE DeleteUser(p)
  BY <1>5, UserDeletedCounts
<1>6. CASE ReleaseDeletedUser(p)
  <2>1. CASE Finish(p) /\ UNCHANGED blobs
    <3>1. /\ req'[p].step = "idle" /\ UNCHANGED <<rows, blobs, owners, short>>
          /\ \A q \in Requests \ {p} : req'[q] = req[q]
      BY <1>6, <2>1, SlotSteps DEF ReleaseDeletedUser
    <3>2. Settled(p)
      BY <3>1, ReadingSettled
    <3>3. QED
      BY <3>2, SettledKeeps
  <2>2. ASSUME NEW x \in req[p].seen, blobs' \in {blobs, Released(blobs, One(x[2]))},
               req' = [req EXCEPT ![p].seen = @ \ {x}]
        PROVE  CountInv'
    BY <1>6, <2>2, UserReleasedCounts DEF ReleaseDeletedUser
  <2>3. QED
    BY <1>6, <2>1, <2>2 DEF ReleaseDeletedUser
<1>7. QED
  BY <1>1, <1>2, <1>3, <1>4, <1>5, <1>6 DEF AdminStep, ReviewTrashStep, UserStep

\* The executor drops what has no reference, and touches no other count.
LEMMA ExecutorCounts ==
    ASSUME TypeOK, CountInv, ExecutorStep
    PROVE  CountInv'
<1>1. /\ UNCHANGED <<rows, req, owners, short>>
      /\ \A b \in Blobs : /\ blobs'[b].ref = blobs[b].ref
                          /\ blobs[b].status # "none" => blobs'[b].status # "none"
  <2>1. CASE DropObject
    <3>1. \/ UNCHANGED blobs
          \/ /\ blobs[cleaner.blob].ref = 0
             /\ blobs' = [blobs EXCEPT ![cleaner.blob] = [status |-> "dropped", ref |-> 0]]
      BY <2>1 DEF DropObject, Droppable
    <3>2. QED
      BY <2>1, <3>1 DEF DropObject, TypeOK
  <2>2. CASE ExecutorStep /\ ~DropObject
    BY <2>2 DEF ExecutorStep, ScanOrphans, TakeOrphan, DeletePhysicalRefs, InterruptTask
  <2>3. QED
    BY <2>1, <2>2
<1>2. \A b : Holders(b)' = Holders(b) /\ Owed(b)' = Owed(b)
  BY <1>1 DEF Holders, Referrers, Present, Owed
<1>3. Books'
  BY <1>1, <1>2 DEF CountInv, Books, Booked
<1>4. DeletionsNoted'
  BY <1>1 DEF CountInv, DeletionsNoted, OneDeletion, UserNoted, Deleting
<1>5. QED
  BY <1>3, <1>4 DEF CountInv

\* Any step of any request, or of the executor, keeps the books.
LEMMA CountStep ==
    ASSUME TypeOK, TypeOK', SafeInv, CountInv, [Next]_vars
    PROVE  CountInv'
<1>1. ASSUME NEW p \in Requests, MarkTrashExpiredPurged(p)
      PROVE  CountInv'
  <2>1. PICK S \in SUBSET {i \in Ids : Purgeable(i)} : Purge(S)
    BY <1>1 DEF MarkTrashExpiredPurged
  <2>2. S \in SUBSET Ids /\ \A i \in S : Present(i) /\ ~rows[i].purged
    BY <2>1 DEF Purgeable
  <2>3. req'[p].step = "idle" /\ UNCHANGED <<req, owners, short>>
    BY <1>1 DEF MarkTrashExpiredPurged, Free
  <2>4. Settled(p)
    BY <2>1, <2>2, <2>3, PurgeSettled
  <2>5. QED
    BY <2>4, SettledKeeps
<1>2. ASSUME NEW p \in Requests, Abandon(p)
      PROVE  CountInv'
  <2>1. /\ req'[p].step = "idle" /\ UNCHANGED <<rows, blobs, owners, short>>
        /\ \A q \in Requests \ {p} : req'[q] = req[q]
    BY <1>2, SlotSteps DEF Abandon
  <2>2. Settled(p)
    BY <2>1, ReadingSettled
  <2>3. QED
    BY <2>2, SettledKeeps
<1>3. CASE UNCHANGED vars
  BY <1>3 DEF vars, CountInv, Books, Booked, DeletionsNoted, OneDeletion, UserNoted,
              Deleting, Holders, Referrers, Present, Owed
<1>4. QED
  BY <1>1, <1>2, <1>3, UploadCounts, OwnerCounts, AdminCounts, ExecutorCounts DEF Next

\* The books of an empty catalogue are right.
LEMMA CountInit == Init => CountInv
<1> SUFFICES ASSUME Init
             PROVE  CountInv
  OBVIOUS
<1>1. /\ \A i \in Ids : rows[i].state = "none"
      /\ \A q \in Requests : req[q].step = "idle"
      /\ \A b \in Blobs : blobs[b].ref = 0
  BY DEF Init, BlankRow, IdleRequest
<1>2. \A b \in Blobs : Holders(b) = {} /\ Owed(b) = {}
  BY <1>1 DEF Holders, Referrers, Present, Owed
<1>3. Books
  <2> SUFFICES ASSUME NEW b \in Blobs
               PROVE  Booked(b)
    BY DEF Books
  <2>1. Cardinality(Holders(b)) = 0 /\ Cardinality(Owed(b)) = 0
    BY <1>2, FS_EmptySet
  <2>2. QED
    BY <1>1, <2>1 DEF Booked
<1>4. DeletionsNoted
  BY <1>1 DEF DeletionsNoted, OneDeletion, UserNoted, Deleting
<1>5. QED
  BY <1>3, <1>4 DEF CountInv

\* Whatever uploads, overwrites, purges, deletions of files and users, releases
\* that are lost and orphan purges interleave, however many requests there are,
\* no object is counted lower than the rows that hold it, but for those of which
\* one of the four statements named at RefsCoverRows returned a reference it had
\* no claim to.
THEOREM CountsCover == Spec => []RefsCoverRows
<1>1. TypeOK /\ TypeOK' /\ SafeInv /\ CountInv /\ [Next]_vars => CountInv'
  BY CountStep
<1>2. TypeOK /\ CountInv => RefsCoverRows
  BY BooksCover DEF CountInv
<1>3. Init => CountInv
  BY CountInit
<1>4. QED
  BY <1>1, <1>2, <1>3, TypeCorrect, SafeInvariant, PTL DEF Spec

=============================================================================
