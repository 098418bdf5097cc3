---------------------------- MODULE UploadSession ----------------------------
(***************************************************************************)
(* Resumable uploads: the sessions of one file of one user (upload_sessions *)
(* and upload_chunks), the part files on the local disk, and the handlers   *)
(* that work on them at the same time: chunk uploads, merges, instant       *)
(* uploads, cancellations by the user and by an administrator, and the      *)
(* hourly clean-up.                                                         *)
(*                                                                         *)
(* A handler is one action per SQL statement or disk operation; what it has *)
(* read is in its request slot req[p].  A slot is abandoned when the client *)
(* goes away: every later statement uses the request's context and fails.   *)
(***************************************************************************)
EXTENDS Integers, FiniteSets

CONSTANTS
    Sessions,   \* upload_sessions.id (random, never reused)
    Requests,   \* request slots: how many handlers run at the same time
    NumChunks,  \* total_chunks
    NoSession,
    MaxSaves    \* where the history of saved resources stops counting

Chunks == 1..NumChunks

ASSUME UploadSessionAssumption ==
    /\ NoSession \notin Sessions
    /\ NumChunks \in Nat \ {0}
    /\ MaxSaves \in Nat \ {0, 1}

VARIABLES
    status,     \* upload_sessions.status; "none" before and "deleted" after the row
    recorded,   \* upload_chunks: the chunks with a row
    disk,       \* what the part file of each chunk holds
    saves,      \* history: resources saved from a session, and whether all are whole
    req,        \* the handlers in progress
    doomed,     \* expired sessions whose directory DeleteExpired has yet to remove
    overtaken,  \* history: handlers under way on a session that somebody ended,
                \* or took up again while they were clearing it
    marred      \* history: sessions an overtaken handler has written to

hist == <<overtaken, marred>>
vars == <<status, recorded, disk, saves, req, doomed, hist>>

ActiveStatus == {"queued", "uploading", "paused", "completing"}
Status == ActiveStatus \cup {"completed", "failed", "canceled"}
Part == {"missing", "right", "wrong"}

Request == [step: {"idle", "init", "write", "check", "insert", "touch", "claim",
                   "merge", "save", "fail", "forget", "clean"},
            session: Sessions \cup {NoSession}, chunk: 0..(NumChunks + 1),
            whole: BOOLEAN]

NoParts == [c \in Chunks |-> "missing"]
Idle == [step |-> "idle", session |-> NoSession, chunk |-> 0, whole |-> TRUE]

Init ==
    /\ status = [s \in Sessions |-> "none"]
    /\ recorded = [s \in Sessions |-> {}]
    /\ disk = [s \in Sessions |-> NoParts]
    /\ saves = [s \in Sessions |-> [n |-> 0, whole |-> TRUE]]
    /\ req = [p \in Requests |-> Idle]
    /\ doomed = {}
    /\ overtaken = {}
    /\ marred = {}

-----------------------------------------------------------------------------
Exists(s) == status[s] \in Status
Active(s) == status[s] \in ActiveStatus

\* upload_sessions_active_file_unique: one active session per file.
MayActivate(s) == \A t \in Sessions \ {s} : ~Active(t)

Free(p) == req[p].step = "idle"
Mine(p) == req[p].session
Begin(p, step, s, c) ==
    Free(p) /\ req' = [req EXCEPT ![p] = [Idle EXCEPT !.step = step,
                                             !.session = s, !.chunk = c]]
Goto(p, step) == req' = [req EXCEPT ![p].step = step]
Finish(p) == req' = [req EXCEPT ![p] = Idle] /\ overtaken' = overtaken \ {p}

SetStatus(s, st) == status' = [status EXCEPT ![s] = st]

\* The history: p ends session s under the handlers Q that are on it ...
On(s, Q) == {q \in Q : ~Free(q) /\ Mine(q) = s}
Overtake(p, s) ==
    /\ overtaken' = (overtaken \cup On(s, Requests)) \ {p}
    /\ UNCHANGED marred
\* ... and p writes to its session, whatever happened to it.
Mar(p) == marred' = IF p \in overtaken THEN marred \cup {Mine(p)} ELSE marred

\* The client goes away, or a step of the handler fails with nothing to undo.
Abandon(p) ==
    /\ ~Free(p) /\ Finish(p)
    /\ UNCHANGED <<status, recorded, disk, saves, doomed, marred>>

-----------------------------------------------------------------------------
(* Starting an upload, and finishing it at once if the content is known.   *)

\* CreateOrResume: the active session of the file, or a new one.
CreateOrResume(p, s) ==
    /\ \/ Active(s) /\ UNCHANGED status
       \/ status[s] = "none" /\ MayActivate(s) /\ SetStatus(s, "queued")
    /\ Begin(p, "init", s, 0)
    /\ UNCHANGED <<recorded, disk, saves, doomed, hist>>

Count(s, whole) ==
    saves' = [saves EXCEPT ![s] =
        [n |-> IF @.n < MaxSaves THEN @.n + 1 ELSE @.n, whole |-> @.whole /\ whole]]

\* Mutant of Save: the session is completed by a statement of its own.
SaveApart(p, whole) ==
    LET s == Mine(p)
    IN  /\ Active(s)
        /\ SetStatus(s, "completed") \/ UNCHANGED status
        /\ Count(s, whole)
        /\ Goto(p, "clean")
        /\ Overtake(p, s)
        /\ UNCHANGED <<recorded, disk, doomed>>

\* The last statement of SaveUploadedFile: the session is completed with its
\* resource, in one transaction, if nobody has ended it.
Save(p, whole) ==
    LET s == Mine(p)
    IN  /\ Active(s)
        /\ SetStatus(s, "completed")
        /\ Count(s, whole)
        /\ Goto(p, "clean")
        /\ Overtake(p, s)
        /\ UNCHANGED <<recorded, disk, doomed>>

\* The content is already stored: no chunk is needed.
SaveInstant(p) == req[p].step = "init" /\ Save(p, TRUE)

\* SaveUploadedFile fails, or the quota is exceeded by then.
InstantFails(p) ==
    /\ req[p].step = "init"
    /\ Goto(p, "fail")
    /\ UNCHANGED <<status, recorded, disk, saves, doomed, hist>>

\* SetStatus 'failed', from whatever status the session has by then.
FailTask(p) ==
    /\ req[p].step = "fail"
    /\ Exists(Mine(p)) /\ SetStatus(Mine(p), "failed")
    /\ Finish(p) /\ Mar(p)
    /\ UNCHANGED <<recorded, disk, saves, doomed>>

-----------------------------------------------------------------------------
(* Chunks.                                                                 *)

BeginChunk(p, s, c) ==
    /\ status[s] \in {"queued", "uploading"} /\ c \notin recorded[s]
    /\ Begin(p, "write", s, c)
    /\ UNCHANGED <<status, recorded, disk, saves, doomed, hist>>

\* The part file is in place before its checksum is compared to the client's;
\* a part that passes may still be wrong, if the file changed under the client.
WriteUploadChunk(p) ==
    /\ req[p].step = "write"
    /\ \E part \in {"right", "wrong"} :
         /\ disk' = [disk EXCEPT ![Mine(p)][req[p].chunk] = part]
         /\ \/ Goto(p, "check") /\ UNCHANGED overtaken
            \/ part = "wrong" /\ Finish(p)
    /\ UNCHANGED <<status, recorded, saves, doomed, marred>>

\* RecordChunk, first statement: it reads the session without locking it ...
CheckSession(p) ==
    /\ req[p].step = "check"
    /\ IF status[Mine(p)] \in {"queued", "uploading"}
       THEN Goto(p, "insert") /\ UNCHANGED overtaken
       ELSE Finish(p)
    /\ UNCHANGED <<status, recorded, disk, saves, doomed, marred>>

\* ... and inserts the row, which only needs the session's row to exist.
InsertChunk(p) ==
    /\ req[p].step = "insert"
    /\ Exists(Mine(p))
    /\ recorded' = [recorded EXCEPT ![Mine(p)] = @ \cup {req[p].chunk}]
    /\ Goto(p, "touch") /\ Mar(p)
    /\ UNCHANGED <<status, disk, saves, doomed, overtaken>>

\* Second statement: the session is 'uploading', whatever it was.
TouchSession(p) ==
    /\ req[p].step = "touch"
    /\ Exists(Mine(p)) /\ MayActivate(Mine(p))
    /\ SetStatus(Mine(p), "uploading")
    /\ Finish(p) /\ Mar(p)
    /\ UNCHANGED <<recorded, disk, saves, doomed>>

-----------------------------------------------------------------------------
(* Merging.                                                                *)

\* The chunks are listed before the session is claimed.
BeginComplete(p, s) ==
    /\ Exists(s) /\ status[s] # "completed" /\ recorded[s] = Chunks
    /\ Begin(p, "claim", s, 0)
    /\ UNCHANGED <<status, recorded, disk, saves, doomed, hist>>

ClaimCompleting(p) ==
    LET s == Mine(p)
    IN  /\ req[p].step = "claim"
        /\ status[s] \in {"queued", "uploading", "paused", "failed"} /\ MayActivate(s)
        /\ SetStatus(s, "completing")
        /\ req' = [req EXCEPT ![p].step = "merge", ![p].chunk = 1]
        /\ UNCHANGED <<recorded, disk, saves, doomed, hist>>

\* partSequenceReader opens one part after the other.
ReadPart(p) ==
    LET r == req[p]
        part == disk[r.session][r.chunk]
    IN  /\ r.step = "merge" /\ r.chunk <= NumChunks
        /\ IF part = "missing" THEN Goto(p, "fail")
           ELSE req' = [req EXCEPT ![p].chunk = @ + 1, ![p].whole = @ /\ part = "right"]
        /\ UNCHANGED <<status, recorded, disk, saves, doomed, hist>>

\* Mutant of CreateObject: the checksum of the whole is not compared.
CreateUnchecked(p) ==
    /\ req[p].step = "merge" /\ req[p].chunk = NumChunks + 1
    /\ Goto(p, "save")
    /\ UNCHANGED <<status, recorded, disk, saves, doomed, hist>>

\* All parts are read: Create compares the checksum.
CreateObject(p) ==
    /\ req[p].step = "merge" /\ req[p].chunk = NumChunks + 1
    /\ Goto(p, IF req[p].whole THEN "save" ELSE "fail")
    /\ UNCHANGED <<status, recorded, disk, saves, doomed, hist>>

SaveMerged(p) == req[p].step = "save" /\ Save(p, req[p].whole)

\* Quota, backend, review settings or the transaction: the merge fails.
MergeFails(p) ==
    /\ req[p].step \in {"merge", "save"}
    /\ Goto(p, "fail")
    /\ UNCHANGED <<status, recorded, disk, saves, doomed, hist>>

\* RemoveUploadSession, the last step of a completion or a cancellation.
RemoveUploadSession(p) ==
    /\ req[p].step = "clean"
    /\ disk' = [disk EXCEPT ![Mine(p)] = NoParts]
    /\ Finish(p) /\ Mar(p)
    /\ UNCHANGED <<status, recorded, saves, doomed>>

-----------------------------------------------------------------------------
(* Pausing, resuming, cancelling.                                          *)

\* Mutant of CancelOwned: the chunk rows are kept.
CancelKeepingChunks(p, s) ==
    /\ Exists(s) /\ status[s] \notin {"completing", "completed"}
    /\ SetStatus(s, "canceled")
    /\ Begin(p, "clean", s, 0) /\ Overtake(p, s)
    /\ UNCHANGED <<recorded, disk, saves, doomed>>

CancelOwned(p, s) ==
    /\ Exists(s) /\ status[s] \notin {"completing", "completed"}
    /\ SetStatus(s, "canceled")
    /\ recorded' = [recorded EXCEPT ![s] = {}]
    /\ Begin(p, "clean", s, 0) /\ Overtake(p, s)
    /\ UNCHANGED <<disk, saves, doomed>>

\* The administrator's two statements; a merge in progress is cancelled too.
AdminCancelUpload(p, s) ==
    /\ Active(s)
    /\ SetStatus(s, "canceled")
    /\ Begin(p, "forget", s, 0) /\ Overtake(p, s)
    /\ UNCHANGED <<recorded, disk, saves, doomed>>

ForgetChunks(p) ==
    /\ req[p].step = "forget"
    /\ recorded' = [recorded EXCEPT ![Mine(p)] = {}]
    /\ Goto(p, "clean")
    /\ UNCHANGED <<status, disk, saves, doomed, hist>>

\* Mutant of SetUserActionStatus: the name of the action is stored.
StoreAction(s, st) ==
    /\ Exists(s) /\ status[s] \notin {"completing", "completed"}
    /\ SetStatus(s, IF st = "paused" THEN "pause" ELSE "resume")
    /\ UNCHANGED <<recorded, disk, saves, req, doomed, hist>>

\* Mutant of SetUserActionStatus: what is merged or completed is resumed too.
SetUserActionStatusAlways(s, st) ==
    /\ Exists(s)
    /\ st \in ActiveStatus => MayActivate(s)
    /\ SetStatus(s, st)
    /\ UNCHANGED <<recorded, disk, saves, req, doomed, hist>>

\* Pause and resume, from any status that is not being merged or completed: a
\* cancelled or failed session is taken up again.
SetUserActionStatus(s, st) ==
    /\ Exists(s) /\ status[s] \notin {"completing", "completed"}
    /\ st \in ActiveStatus => MayActivate(s)
    /\ SetStatus(s, st)
    /\ overtaken' = overtaken \cup On(s, {q \in Requests : req[q].step \in {"forget", "clean"}})
    /\ UNCHANGED <<recorded, disk, saves, req, doomed, marred>>

-----------------------------------------------------------------------------
(* The hourly loop and the start of the process.                           *)

Delete(s) == SetStatus(s, "deleted") /\ recorded' = [recorded EXCEPT ![s] = {}]

DeleteExpired(s) ==
    /\ Exists(s) /\ status[s] # "completed"
    /\ Delete(s)
    /\ doomed' = doomed \cup {s}
    /\ UNCHANGED <<disk, saves, req, hist>>

RemoveExpired(s) ==
    /\ s \in doomed
    /\ disk' = [disk EXCEPT ![s] = NoParts]
    /\ doomed' = doomed \ {s}
    /\ UNCHANGED <<status, recorded, saves, req, hist>>

DeleteCompletedBefore(s) ==
    /\ status[s] = "completed"
    /\ Delete(s)
    /\ UNCHANGED <<disk, saves, req, doomed, hist>>

\* RecoverInterrupted: nobody merges any more.
Restart ==
    /\ (\E p \in Requests : ~Free(p)) \/ doomed # {} \/ \E s \in Sessions : Active(s)
    /\ req' = [p \in Requests |-> Idle]
    /\ doomed' = {}
    /\ overtaken' = {}
    /\ status' = [s \in Sessions |-> IF status[s] = "completing" THEN "failed" ELSE status[s]]
    /\ UNCHANGED <<recorded, disk, saves, marred>>

-----------------------------------------------------------------------------
\* An upload is announced: a session is made or taken up, and content that is
\* stored already is saved at once.
Announce(p) ==
    \/ \E s \in Sessions : CreateOrResume(p, s)
    \/ SaveInstant(p)
    \/ InstantFails(p)

Handle(p) ==
    \/ Announce(p)
    \/ \E s \in Sessions : \/ BeginComplete(p, s)
                           \/ CancelOwned(p, s)
                           \/ AdminCancelUpload(p, s)
    \/ \E s \in Sessions, c \in Chunks : BeginChunk(p, s, c)
    \/ FailTask(p)
    \/ WriteUploadChunk(p) \/ CheckSession(p) \/ InsertChunk(p) \/ TouchSession(p)
    \/ ClaimCompleting(p) \/ ReadPart(p) \/ CreateObject(p) \/ SaveMerged(p) \/ MergeFails(p)
    \/ ForgetChunks(p) \/ RemoveUploadSession(p)
    \/ Abandon(p)

Next ==
    \/ \E p \in Requests : Handle(p)
    \/ \E s \in Sessions : \/ SetUserActionStatus(s, "paused")
                           \/ SetUserActionStatus(s, "queued")
                           \/ DeleteExpired(s)
                           \/ RemoveExpired(s)
                           \/ DeleteCompletedBefore(s)
    \/ Restart

Spec == Init /\ [][Next]_vars

-----------------------------------------------------------------------------
(* Properties.                                                             *)

TypeOK ==
    /\ status \in [Sessions -> Status \cup {"none", "deleted"}]
    /\ recorded \in [Sessions -> SUBSET Chunks]
    /\ disk \in [Sessions -> [Chunks -> Part]]
    /\ saves \in [Sessions -> [n: 0..MaxSaves, whole: BOOLEAN]]
    /\ req \in [Requests -> Request]
    /\ doomed \subseteq Sessions
    /\ overtaken \subseteq Requests
    /\ marred \subseteq Sessions

\* Every saved file is whole: however chunks are retried, replaced by wrong
\* ones, merged by several handlers or removed under a merge, no resource is
\* made of anything but the content the client announced.
WholeContent == \A s \in Sessions : saves[s].whole

\* One upload makes one file, however often and by however many handlers its
\* completion is asked for, fails, is paused, cancelled or taken up again; only a
\* handler the completion overtook, which still writes to the session, can make
\* it come back (RecordChunk's second statement and SetStatus 'failed' look at
\* no status).
SavedOnce == \A s \in Sessions \ marred : saves[s].n <= 1

\* A completed session stays completed until its row is cleaned up: asking
\* again gives the resource back. What can reopen it is the step of a handler
\* that was under way on it when it was completed, and no other.
CompletedIsFinal ==
    [][\A s \in Sessions : status[s] = "completed" =>
          status'[s] \in {"completed", "deleted"} \/ s \in marred']_vars

\* A chunk a session that can still be continued counts as received is on the
\* disk: the client skips it, so nobody would ever send it again. The clean-up
\* of a cancellation keeps to it although it is three steps apart from the
\* row's, unless a handler works on after the session was ended or taken up
\* again behind its back.
Continued == {"queued", "uploading", "paused", "failed"}
ReceivedOnDisk ==
    \A s \in Sessions \ marred : status[s] \in Continued =>
        \A c \in recorded[s] : disk[s][c] # "missing"

\* What the comments of the repository say of the overlapping case, which the
\* code does not keep to.

\* ClaimCompleting: a task has one merger only.
Merging(p) == req[p].step \in {"merge", "save"}
OneMerger ==
    \A p, q \in Requests : Merging(p) /\ Merging(q) /\ Mine(p) = Mine(q) => p = q

\* CancelOwned: the rows of the chunks go with the parts, so that no chunk is
\* skipped that a cancellation removed from the disk.
SkippedIsThere ==
    \A s \in Sessions : saves[s].n = 0 /\ status[s] \in Continued =>
        \A c \in recorded[s] : disk[s][c] # "missing"

=============================================================================
