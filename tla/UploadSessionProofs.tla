------------------------- MODULE UploadSessionProofs -------------------------
(***************************************************************************)
(* Proofs about UploadSession, for any number of sessions, handlers and       *)
(* chunks: the tables keep their shape, and every resource saved is whole,    *)
(* whatever wrote, replaced or removed the parts while they were merged.      *)
(*                                                                         *)
(* However many handlers run at the same time (Orderly): a session to which    *)
(* no overtaken handler has written is saved once, stays completed, and has on *)
(* the disk the chunks that the client skips.                                 *)
(***************************************************************************)
EXTENDS UploadSession, TLAPS

\* The steps of a chunk upload that know which chunk it is.
ChunkSteps == {"write", "check", "insert"}

\* A handler works on a session; a merge on its way to save its resource has
\* compared the checksum, and a chunk that is on its way to be recorded is one
\* of the session.
Fits(r) == /\ r.step # "idle" => r.session \in Sessions
           /\ r.step = "save" => r.whole
           /\ r.step \in ChunkSteps => r.chunk \in Chunks

Slots == \A p \in Requests : Fits(req[p])

IInv == TypeOK /\ WholeContent /\ Slots

-----------------------------------------------------------------------------
(* What a handler becomes.                                                 *)

Steps == {"idle", "init", "write", "check", "insert", "touch", "claim",
          "merge", "save", "fail", "forget", "clean"}

LEMMA IdleTyped == Idle \in Request /\ Idle.step = "idle"
<1>1. 0 \in 0..(NumChunks + 1)
  BY UploadSessionAssumption
<1>2. QED
  BY <1>1 DEF Idle, Request

LEMMA HandlerSteps ==
    ASSUME IInv, NEW p \in Requests, NEW r \in Request, req' = [req EXCEPT ![p] = r],
           Fits(r)
    PROVE  req' \in [Requests -> Request] /\ Slots'
<1>1. req' \in [Requests -> Request]
  BY DEF IInv, TypeOK
<1>2. \A q \in Requests : req'[q] = IF q = p THEN r ELSE req[q]
  BY DEF IInv, TypeOK
<1>3. QED
  BY <1>1, <1>2 DEF IInv, Slots

LEMMA Goes ==
    ASSUME IInv, NEW p \in Requests, NEW step \in Steps, Goto(p, step), ~Free(p),
           step = "save" => req[p].whole,
           step \in ChunkSteps => req[p].step \in ChunkSteps
    PROVE  req' \in [Requests -> Request] /\ Slots'
<1> DEFINE r == [req[p] EXCEPT !.step = step]
<1>1. req[p] \in Request
  BY DEF IInv, TypeOK
<1>2. /\ r \in Request /\ r.step = step /\ r.session = req[p].session
      /\ r.whole = req[p].whole /\ r.chunk = req[p].chunk
  BY <1>1 DEF Request, Steps
<1>3. req' = [req EXCEPT ![p] = r]
  BY DEF Goto
<1> HIDE DEF r
<1>4. Fits(r)
  BY <1>2 DEF Fits, IInv, Slots, Free
<1>5. QED
  BY <1>2, <1>3, <1>4, HandlerSteps

LEMMA Finishes ==
    ASSUME IInv, NEW p \in Requests, Finish(p)
    PROVE  req' \in [Requests -> Request] /\ Slots' /\ overtaken' \subseteq Requests
<1>1. req' \in [Requests -> Request] /\ Slots'
  BY IdleTyped, HandlerSteps DEF Finish, Fits, ChunkSteps
<1>2. QED
  BY <1>1 DEF Finish, IInv, TypeOK

LEMMA Begins ==
    ASSUME IInv, NEW p \in Requests, NEW step \in Steps \ {"save"}, NEW s \in Sessions,
           NEW c \in Chunks \cup {0}, Begin(p, step, s, c), step \in ChunkSteps => c \in Chunks
    PROVE  req' \in [Requests -> Request] /\ Slots'
<1> DEFINE r == [Idle EXCEPT !.step = step, !.session = s, !.chunk = c]
<1>1. c \in 0..(NumChunks + 1)
  BY UploadSessionAssumption DEF Chunks
<1>2. r \in Request /\ r.step = step /\ r.session = s /\ r.chunk = c
  BY <1>1 DEF Idle, Request, Steps
<1>3. req' = [req EXCEPT ![p] = r]
  BY DEF Begin
<1> HIDE DEF r
<1>4. QED
  BY <1>2, <1>3, HandlerSteps DEF Fits

-----------------------------------------------------------------------------
(* What a step does to the tables, the disk and the history.               *)

LEMMA Overtakes ==
    ASSUME IInv, NEW p, NEW s, Overtake(p, s)
    PROVE  /\ overtaken' \subseteq Requests /\ marred' = marred /\ p \notin overtaken'
           /\ \A q \in Requests \ {p} : q \in overtaken => q \in overtaken'
           /\ \A q \in Requests \ {p} : ~Free(q) /\ req[q].session = s => q \in overtaken'
BY DEF Overtake, On, Mine, IInv, TypeOK

LEMMA Mars ==
    ASSUME IInv, NEW p \in Requests, ~Free(p), Mar(p)
    PROVE  /\ marred' \subseteq Sessions /\ marred \subseteq marred'
           /\ p \in overtaken => req[p].session \in marred'
BY DEF Mar, Mine, Free, IInv, TypeOK, Slots, Fits

LEMMA SameSaves == ASSUME WholeContent, UNCHANGED saves PROVE WholeContent'
  BY DEF WholeContent

LEMMA NewStatus ==
    ASSUME TypeOK, NEW s \in Sessions, NEW st \in Status \cup {"none", "deleted"},
           SetStatus(s, st)
    PROVE  status' \in [Sessions -> Status \cup {"none", "deleted"}]
  BY DEF TypeOK, SetStatus

LEMMA Counts ==
    ASSUME TypeOK, WholeContent, NEW s \in Sessions, NEW whole \in BOOLEAN, whole,
           Count(s, whole)
    PROVE  saves' \in [Sessions -> [n: 0..MaxSaves, whole: BOOLEAN]] /\ WholeContent'
<1> DEFINE n == IF saves[s].n < MaxSaves THEN saves[s].n + 1 ELSE saves[s].n
           w == saves[s].whole /\ whole
           x == [n |-> n, whole |-> w]
<1>1. saves[s].n \in 0..MaxSaves /\ saves[s].whole = TRUE
  BY DEF TypeOK, WholeContent
<1>2. n \in 0..MaxSaves
  BY <1>1, UploadSessionAssumption
<1>3. w \in BOOLEAN /\ w
  BY <1>1
<1>4. saves' = [saves EXCEPT ![s] = x]
  BY DEF Count
<1> HIDE DEF n, w
<1>5. x \in [n: 0..MaxSaves, whole: BOOLEAN] /\ x.whole
  BY <1>2, <1>3
<1> HIDE DEF x
<1>6. \A t \in Sessions : saves'[t] = IF t = s THEN x ELSE saves[t]
  BY <1>4 DEF TypeOK
<1>7. saves' \in [Sessions -> [n: 0..MaxSaves, whole: BOOLEAN]]
  BY <1>4, <1>5 DEF TypeOK
<1>8. QED
  BY <1>5, <1>6, <1>7 DEF WholeContent

LEMMA NewDisk ==
    ASSUME TypeOK, NEW s, disk' = [disk EXCEPT ![s] = NoParts]
    PROVE  disk' \in [Sessions -> [Chunks -> Part]]
  BY DEF TypeOK, NoParts, Part

LEMMA NewRecorded ==
    ASSUME TypeOK, NEW s, recorded' = [recorded EXCEPT ![s] = {}]
    PROVE  recorded' \in [Sessions -> SUBSET Chunks]
  BY DEF TypeOK

\* What is left to show of a step, given the slots.
LEMMA Tables ==
    ASSUME IInv, req' \in [Requests -> Request], Slots',
           UNCHANGED saves,
           status' = status \/ status' \in [Sessions -> Status \cup {"none", "deleted"}],
           recorded' = recorded \/ recorded' \in [Sessions -> SUBSET Chunks],
           disk' = disk \/ disk' \in [Sessions -> [Chunks -> Part]],
           doomed' \subseteq Sessions,
           overtaken' \subseteq Requests, marred' \subseteq Sessions
    PROVE  IInv'
<1>1. TypeOK'
  BY DEF IInv, TypeOK
<1>2. QED
  BY <1>1, SameSaves DEF IInv

-----------------------------------------------------------------------------
(* The steps.                                                              *)

LEMMA SaveStep ==
    ASSUME IInv, NEW p \in Requests, NEW whole \in BOOLEAN, whole, ~Free(p), Save(p, whole)
    PROVE  IInv'
<1>1. Goto(p, "clean") /\ SetStatus(Mine(p), "completed") /\ Count(Mine(p), whole)
      /\ Overtake(p, Mine(p)) /\ UNCHANGED <<recorded, disk, doomed>>
  BY DEF Save
<1>2. req' \in [Requests -> Request] /\ Slots'
  BY <1>1, Goes DEF Steps, ChunkSteps, Free
<1>3. status' \in [Sessions -> Status \cup {"none", "deleted"}]
  BY <1>1 DEF SetStatus, Status, IInv, TypeOK
<1>4. saves' \in [Sessions -> [n: 0..MaxSaves, whole: BOOLEAN]] /\ WholeContent'
  <2>1. CASE Mine(p) \in Sessions
    BY <1>1, <2>1, Counts DEF IInv
  <2>2. CASE Mine(p) \notin Sessions
    <3>1. saves' = saves
      BY <1>1, <2>2 DEF Count, IInv, TypeOK
    <3>2. QED
      BY <3>1 DEF IInv, TypeOK, WholeContent
  <2>3. QED
    BY <2>1, <2>2
<1>5. TypeOK'
  BY <1>1, <1>2, <1>3, <1>4, Overtakes DEF IInv, TypeOK
<1>6. QED
  BY <1>2, <1>4, <1>5 DEF IInv

LEMMA AnnounceStep ==
    ASSUME IInv, NEW p \in Requests, Announce(p)
    PROVE  IInv'
<1>1. ASSUME NEW s \in Sessions, CreateOrResume(p, s) PROVE IInv'
  <2>1. req' \in [Requests -> Request] /\ Slots'
    BY <1>1, Begins DEF CreateOrResume, Steps, ChunkSteps
  <2>2. status' = status \/ status' \in [Sessions -> Status \cup {"none", "deleted"}]
    BY <1>1 DEF CreateOrResume, SetStatus, Status, ActiveStatus, IInv, TypeOK
  <2>3. QED
    BY <1>1, <2>1, <2>2, Tables DEF CreateOrResume, hist, IInv, TypeOK
<1>2. CASE SaveInstant(p)
  BY <1>2, SaveStep DEF SaveInstant, Free
<1>3. CASE InstantFails(p)
  <2>1. req' \in [Requests -> Request] /\ Slots'
    BY <1>3, Goes DEF InstantFails, Steps, ChunkSteps, Free
  <2>2. QED
    BY <1>3, <2>1, Tables DEF InstantFails, hist, IInv, TypeOK
<1>4. QED
  BY <1>1, <1>2, <1>3 DEF Announce

LEMMA ChunkStep ==
    ASSUME IInv, NEW p \in Requests,
           \/ \E s \in Sessions, c \in Chunks : BeginChunk(p, s, c)
           \/ WriteUploadChunk(p) \/ CheckSession(p) \/ InsertChunk(p) \/ TouchSession(p)
    PROVE  IInv'
<1>1. ASSUME NEW s \in Sessions, NEW c \in Chunks, BeginChunk(p, s, c) PROVE IInv'
  <2>1. req' \in [Requests -> Request] /\ Slots'
    BY <1>1, Begins DEF BeginChunk, Steps
  <2>2. QED
    BY <1>1, <2>1, Tables DEF BeginChunk, hist, IInv, TypeOK
<1>2. CASE WriteUploadChunk(p)
  <2>1. PICK part \in {"right", "wrong"} :
            /\ disk' = [disk EXCEPT ![Mine(p)][req[p].chunk] = part]
            /\ (Goto(p, "check") /\ overtaken' = overtaken) \/ Finish(p)
    BY <1>2 DEF WriteUploadChunk
  <2>2. req' \in [Requests -> Request] /\ Slots' /\ overtaken' \subseteq Requests
    BY <1>2, <2>1, Goes, Finishes DEF WriteUploadChunk, Steps, ChunkSteps, Free, IInv, TypeOK
  <2>3. disk' \in [Sessions -> [Chunks -> Part]]
    BY <2>1 DEF IInv, TypeOK, Part
  <2>4. QED
    BY <1>2, <2>2, <2>3, Tables DEF WriteUploadChunk, hist, IInv, TypeOK
<1>3. CASE CheckSession(p)
  <2>1. /\ req[p].step = "check"
        /\ (Goto(p, "insert") /\ overtaken' = overtaken) \/ Finish(p)
    BY <1>3 DEF CheckSession
  <2>2. req' \in [Requests -> Request] /\ Slots' /\ overtaken' \subseteq Requests
    BY <2>1, Goes, Finishes DEF Steps, ChunkSteps, Free, IInv, TypeOK
  <2>3. QED
    BY <1>3, <2>2, Tables DEF CheckSession, hist, IInv, TypeOK
<1>4. CASE InsertChunk(p)
  <2>1. req' \in [Requests -> Request] /\ Slots'
    BY <1>4, Goes DEF InsertChunk, Steps, ChunkSteps, Free
  <2>2. req[p].chunk \in Chunks
    BY <1>4 DEF InsertChunk, IInv, Slots, Fits, ChunkSteps
  <2>3. recorded' \in [Sessions -> SUBSET Chunks]
    BY <1>4, <2>2 DEF InsertChunk, IInv, TypeOK
  <2>4. QED
    BY <1>4, <2>1, <2>3, Tables, Mars DEF InsertChunk, Free, IInv, TypeOK
<1>5. CASE TouchSession(p)
  <2>1. req' \in [Requests -> Request] /\ Slots' /\ overtaken' \subseteq Requests
    BY <1>5, Finishes DEF TouchSession
  <2>2. status' \in [Sessions -> Status \cup {"none", "deleted"}]
    BY <1>5 DEF TouchSession, SetStatus, Status, ActiveStatus, IInv, TypeOK
  <2>3. QED
    BY <1>5, <2>1, <2>2, Tables, Mars DEF TouchSession, Free, IInv, TypeOK
<1>6. QED
  BY <1>1, <1>2, <1>3, <1>4, <1>5

LEMMA MergeStep ==
    ASSUME IInv, NEW p \in Requests,
           \/ \E s \in Sessions : BeginComplete(p, s)
           \/ ClaimCompleting(p) \/ ReadPart(p) \/ CreateObject(p) \/ SaveMerged(p)
           \/ MergeFails(p) \/ FailTask(p)
    PROVE  IInv'
<1>1. ASSUME NEW s \in Sessions, BeginComplete(p, s) PROVE IInv'
  <2>1. req' \in [Requests -> Request] /\ Slots'
    BY <1>1, Begins DEF BeginComplete, Steps, ChunkSteps
  <2>2. QED
    BY <1>1, <2>1, Tables DEF BeginComplete, hist, IInv, TypeOK
<1>2. CASE ClaimCompleting(p)
  <2> DEFINE r == [req[p] EXCEPT !.step = "merge", !.chunk = 1]
  <2>1. req[p] \in Request /\ 1 \in 0..(NumChunks + 1) /\ req[p].session \in Sessions
    BY <1>2, UploadSessionAssumption DEF ClaimCompleting, IInv, TypeOK, Slots, Fits
  <2>2. r \in Request /\ r.step = "merge" /\ r.session \in Sessions
    BY <2>1 DEF Request
  <2>3. req' = [req EXCEPT ![p] = r]
    BY <1>2 DEF ClaimCompleting
  <2> HIDE DEF r
  <2>4. req' \in [Requests -> Request] /\ Slots'
    BY <2>2, <2>3, HandlerSteps DEF Fits, ChunkSteps
  <2>5. status' \in [Sessions -> Status \cup {"none", "deleted"}]
    BY <1>2 DEF ClaimCompleting, SetStatus, Status, ActiveStatus, IInv, TypeOK
  <2>6. QED
    BY <1>2, <2>4, <2>5, Tables DEF ClaimCompleting, hist, IInv, TypeOK
<1>3. CASE ReadPart(p)
  <2> DEFINE b == disk[req[p].session][req[p].chunk] = "right"
             w == req[p].whole /\ b
             n == req[p].chunk + 1
             r == [req[p] EXCEPT !.chunk = n, !.whole = w]
  <2>1. /\ req[p] \in Request /\ req[p].session \in Sessions
        /\ req[p].step = "merge" /\ req[p].chunk <= NumChunks
    BY <1>3 DEF ReadPart, IInv, TypeOK, Slots, Fits
  <2>2. n \in 0..(NumChunks + 1)
    <3>1. req[p].chunk \in 0..(NumChunks + 1)
      BY <2>1 DEF Request
    <3>2. QED
      BY <2>1, <3>1, UploadSessionAssumption
  <2>3. w \in BOOLEAN
    BY <2>1 DEF Request
  <2>4. Goto(p, "fail") \/ req' = [req EXCEPT ![p] = r]
    BY <1>3 DEF ReadPart
  <2> HIDE DEF b, w, n
  <2>5. r \in Request /\ r.step = "merge" /\ r.session \in Sessions
    BY <2>1, <2>2, <2>3 DEF Request
  <2> HIDE DEF r
  <2>6. req' \in [Requests -> Request] /\ Slots'
    BY <2>1, <2>4, <2>5, HandlerSteps, Goes DEF Fits, Steps, ChunkSteps, Free
  <2>7. QED
    BY <1>3, <2>6, Tables DEF ReadPart, hist, IInv, TypeOK
<1>4. CASE CreateObject(p)
  <2>1. ~Free(p) /\ (Goto(p, "fail") \/ (req[p].whole /\ Goto(p, "save")))
    BY <1>4 DEF CreateObject, Free
  <2>2. req' \in [Requests -> Request] /\ Slots'
    BY <2>1, Goes DEF Steps, ChunkSteps, Free
  <2>3. QED
    BY <1>4, <2>2, Tables DEF CreateObject, hist, IInv, TypeOK
<1>5. CASE SaveMerged(p)
  <2>1. req[p].whole \in BOOLEAN /\ req[p].whole
    BY <1>5 DEF SaveMerged, IInv, TypeOK, Request, Slots, Fits
  <2>2. QED
    BY <1>5, <2>1, SaveStep DEF SaveMerged, Free
<1>6. CASE MergeFails(p)
  <2>1. req' \in [Requests -> Request] /\ Slots'
    BY <1>6, Goes DEF MergeFails, Steps, ChunkSteps, Free
  <2>2. QED
    BY <1>6, <2>1, Tables DEF MergeFails, hist, IInv, TypeOK
<1>7. CASE FailTask(p)
  <2>1. req' \in [Requests -> Request] /\ Slots' /\ overtaken' \subseteq Requests
    BY <1>7, Finishes DEF FailTask
  <2>2. status' \in [Sessions -> Status \cup {"none", "deleted"}]
    BY <1>7 DEF FailTask, SetStatus, Status, IInv, TypeOK
  <2>3. QED
    BY <1>7, <2>1, <2>2, Tables, Mars DEF FailTask, Free, IInv, TypeOK
<1>8. QED
  BY <1>1, <1>2, <1>3, <1>4, <1>5, <1>6, <1>7

LEMMA EndStep ==
    ASSUME IInv, NEW p \in Requests,
           \/ \E s \in Sessions : CancelOwned(p, s) \/ AdminCancelUpload(p, s)
           \/ ForgetChunks(p) \/ RemoveUploadSession(p) \/ Abandon(p)
    PROVE  IInv'
<1>1. ASSUME NEW s \in Sessions, CancelOwned(p, s) PROVE IInv'
  <2>1. req' \in [Requests -> Request] /\ Slots'
    BY <1>1, Begins DEF CancelOwned, Steps, ChunkSteps
  <2>2. status' \in [Sessions -> Status \cup {"none", "deleted"}]
    BY <1>1 DEF CancelOwned, SetStatus, Status, IInv, TypeOK
  <2>3. recorded' \in [Sessions -> SUBSET Chunks]
    BY <1>1, NewRecorded DEF CancelOwned, IInv
  <2>4. QED
    BY <1>1, <2>1, <2>2, <2>3, Tables, Overtakes DEF CancelOwned, IInv, TypeOK
<1>2. ASSUME NEW s \in Sessions, AdminCancelUpload(p, s) PROVE IInv'
  <2>1. req' \in [Requests -> Request] /\ Slots'
    BY <1>2, Begins DEF AdminCancelUpload, Steps, ChunkSteps
  <2>2. status' \in [Sessions -> Status \cup {"none", "deleted"}]
    BY <1>2 DEF AdminCancelUpload, SetStatus, Status, IInv, TypeOK
  <2>3. QED
    BY <1>2, <2>1, <2>2, Tables, Overtakes DEF AdminCancelUpload, IInv, TypeOK
<1>3. CASE ForgetChunks(p)
  <2>1. req' \in [Requests -> Request] /\ Slots'
    BY <1>3, Goes DEF ForgetChunks, Steps, ChunkSteps, Free
  <2>2. recorded' \in [Sessions -> SUBSET Chunks]
    BY <1>3, NewRecorded DEF ForgetChunks, IInv
  <2>3. QED
    BY <1>3, <2>1, <2>2, Tables DEF ForgetChunks, hist, IInv, TypeOK
<1>4. CASE RemoveUploadSession(p)
  <2>1. req' \in [Requests -> Request] /\ Slots' /\ overtaken' \subseteq Requests
    BY <1>4, Finishes DEF RemoveUploadSession
  <2>2. disk' \in [Sessions -> [Chunks -> Part]]
    BY <1>4, NewDisk DEF RemoveUploadSession, IInv
  <2>3. QED
    BY <1>4, <2>1, <2>2, Tables, Mars DEF RemoveUploadSession, Free, IInv, TypeOK
<1>5. CASE Abandon(p)
  <2>1. req' \in [Requests -> Request] /\ Slots' /\ overtaken' \subseteq Requests
    BY <1>5, Finishes DEF Abandon
  <2>2. QED
    BY <1>5, <2>1, Tables DEF Abandon, hist, IInv, TypeOK
<1>6. QED
  BY <1>1, <1>2, <1>3, <1>4, <1>5

\* The steps of nobody's handler.
LEMMA LoopStep ==
    ASSUME IInv,
           \/ \E s \in Sessions : \/ SetUserActionStatus(s, "paused")
                                  \/ SetUserActionStatus(s, "queued")
                                  \/ DeleteExpired(s) \/ RemoveExpired(s)
                                  \/ DeleteCompletedBefore(s)
           \/ Restart
    PROVE  IInv'
<1>1. ASSUME req' = req PROVE req' \in [Requests -> Request] /\ Slots'
  BY <1>1 DEF IInv, TypeOK, Slots
<1>2. ASSUME NEW s \in Sessions, NEW st \in {"paused", "queued"}, SetUserActionStatus(s, st)
      PROVE  IInv'
  <2>1. status' \in [Sessions -> Status \cup {"none", "deleted"}]
    BY <1>2 DEF SetUserActionStatus, SetStatus, Status, ActiveStatus, IInv, TypeOK
  <2>2. QED
    BY <1>1, <1>2, <2>1, Tables DEF SetUserActionStatus, On, IInv, TypeOK
<1>3. ASSUME NEW s \in Sessions, Delete(s)
      PROVE  /\ status' \in [Sessions -> Status \cup {"none", "deleted"}]
             /\ recorded' \in [Sessions -> SUBSET Chunks]
  BY <1>3, NewRecorded DEF Delete, SetStatus, IInv, TypeOK
<1>4. ASSUME NEW s \in Sessions, DeleteExpired(s) PROVE IInv'
  BY <1>1, <1>3, <1>4, Tables DEF DeleteExpired, hist, IInv, TypeOK
<1>5. ASSUME NEW s \in Sessions, RemoveExpired(s) PROVE IInv'
  BY <1>1, <1>5, NewDisk, Tables DEF RemoveExpired, hist, IInv, TypeOK
<1>6. ASSUME NEW s \in Sessions, DeleteCompletedBefore(s) PROVE IInv'
  BY <1>1, <1>3, <1>6, Tables DEF DeleteCompletedBefore, hist, IInv, TypeOK
<1>7. CASE Restart
  <2>1. req' \in [Requests -> Request] /\ Slots'
    BY <1>7, IdleTyped DEF Restart, Slots, Fits, ChunkSteps
  <2>2. status' \in [Sessions -> Status \cup {"none", "deleted"}]
    BY <1>7 DEF Restart, Status, IInv, TypeOK
  <2>3. QED
    BY <1>7, <2>1, <2>2, Tables DEF Restart, hist, IInv, TypeOK
<1>8. QED
  BY <1>2, <1>4, <1>5, <1>6, <1>7

-----------------------------------------------------------------------------
(* The theorems.                                                           *)

LEMMA Initially == Init => IInv
<1> SUFFICES ASSUME Init PROVE IInv
  OBVIOUS
<1>1. [n |-> 0, whole |-> TRUE] \in [n: 0..MaxSaves, whole: BOOLEAN]
  BY UploadSessionAssumption
<1>2. TypeOK
  BY <1>1, IdleTyped DEF Init, TypeOK, NoParts, Part
<1>3. WholeContent
  BY DEF Init, WholeContent
<1>4. Slots
  BY IdleTyped DEF Init, Slots, Fits, ChunkSteps
<1>5. QED
  BY <1>2, <1>3, <1>4 DEF IInv

LEMMA Inductive == IInv /\ [Next]_vars => IInv'
<1> SUFFICES ASSUME IInv, [Next]_vars PROVE IInv'
  OBVIOUS
<1>1. ASSUME NEW p \in Requests, Handle(p) PROVE IInv'
  BY <1>1, AnnounceStep, ChunkStep, MergeStep, EndStep DEF Handle
<1>2. CASE UNCHANGED vars
  BY <1>2 DEF vars, hist, IInv, TypeOK, WholeContent, Slots
<1>3. QED
  BY <1>1, <1>2, LoopStep DEF Next

LEMMA InvariantHolds == Spec => []IInv
<1>1. QED
  BY Initially, Inductive, PTL DEF Spec

\* The tables, the part files and the handlers keep their shape.
THEOREM TypeCorrect == Spec => []TypeOK
<1>1. IInv => TypeOK
  BY DEF IInv
<1>2. QED
  BY <1>1, InvariantHolds, PTL

\* Create compares the checksum of what was read, and nothing that happens to
\* the parts afterwards changes what is saved.
THEOREM SavedWhole == Spec => []WholeContent
<1>1. IInv => WholeContent
  BY DEF IInv
<1>2. QED
  BY <1>1, InvariantHolds, PTL

-----------------------------------------------------------------------------
(* Any number of handlers at a time.                                       *)

\* The statuses in which no chunk is asked for any more.
Ended == {"completed", "deleted"}

\* What a handler that was not overtaken found of its session still holds: until
\* it saves, the session is neither completed nor cancelled; what it cleans up is
\* not needed; a part that it wrote is there when its row is inserted.
Following(r) ==
    LET st == status[r.session]
    IN  /\ r.step \in (Steps \ {"idle", "claim", "forget", "clean"}) =>
              st \notin {"completed", "canceled"}
        /\ r.step = "claim" => st # "completed"
        /\ r.step = "forget" => st \in Ended \cup {"canceled"}
        /\ r.step = "clean" => st \in Ended \/ (st = "canceled" /\ recorded[r.session] = {})
        /\ r.step \in {"check", "insert"} /\ st # "deleted" =>
              disk[r.session][r.chunk] # "missing"

Follows(p) == p \in overtaken \/ req[p].session \in marred \/ Following(req[p])

\* A session that was saved has ended, once; one that has not ended has the
\* parts of the chunks that are recorded.
Sound(s) ==
    \/ s \in marred
    \/ /\ saves[s].n # 0 => saves[s].n = 1 /\ status[s] \in Ended
       /\ status[s] \notin Ended => \A c \in recorded[s] : disk[s][c] # "missing"

Orderly == /\ \A p \in Requests : Follows(p)
           /\ \A s \in Sessions : Sound(s)
           /\ \A s \in doomed : status[s] = "deleted"

Final == \A s \in Sessions : status[s] = "completed" => status'[s] \in Ended \/ s \in marred'

\* What a step of p, or of nobody's handler, may do: to one session, and to no
\* other handler.
Alike(t) == /\ status'[t] = status[t] /\ recorded'[t] = recorded[t]
            /\ disk'[t] = disk[t] /\ saves'[t] = saves[t]

Undisturbed(q) == req'[q] = req[q] /\ (q \in overtaken => q \in overtaken')

LEMMA StepOn ==
    ASSUME IInv, Orderly, NEW P \in SUBSET Requests, NEW s \in Sessions,
           \A q \in P : Undisturbed(q), \A q \in Requests \ P : Follows(q)',
           marred \subseteq marred', doomed' \subseteq doomed \cup {s},
           \A t \in Sessions \ {s} : Alike(t),
           s \in doomed' => status'[s] = "deleted",
           \/ s \in marred'
           \/ /\ Sound(s)' /\ (status[s] = "completed" => status'[s] \in Ended)
              /\ \A q \in P : req[q].session = s => q \in overtaken' \/ Following(req[q])'
    PROVE  Orderly' /\ Final
<1>1. \A q \in P : Follows(q)'
  <2> SUFFICES ASSUME NEW q \in P PROVE Follows(q)'
    OBVIOUS
  <2>1. req'[q] = req[q] /\ Follows(q) /\ (q \in overtaken => q \in overtaken')
    BY DEF Undisturbed, Orderly
  <2>2. CASE req[q].session = s
    BY <2>1, <2>2 DEF Follows
  <2>3. CASE req[q].session \in Sessions \ {s}
    <3>1. Alike(req[q].session)
      BY <2>3
    <3>2. Following(req[q]) => Following(req[q])'
      BY <2>1, <3>1 DEF Following, Alike
    <3>3. QED
      BY <2>1, <3>2 DEF Follows
  <2>4. CASE req[q].session \notin Sessions
    <3>1. req[q].step = "idle"
      BY <2>4 DEF IInv, Slots, Fits
    <3>2. QED
      BY <2>1, <3>1 DEF Follows, Following
  <2>5. QED
    BY <2>2, <2>3, <2>4
<1>2. \A t \in Sessions : Sound(t)'
  BY DEF Orderly, Sound, Alike
<1>3. \A t \in doomed' : status'[t] = "deleted"
  BY DEF Orderly, Alike, IInv, TypeOK
<1>4. Final
  BY DEF Final, Alike, Ended
<1>5. QED
  BY <1>1, <1>2, <1>3, <1>4 DEF Orderly

LEMMA HandlerOn ==
    ASSUME IInv, Orderly, NEW p \in Requests, NEW s \in Sessions,
           \A q \in Requests \ {p} : Undisturbed(q), Follows(p)',
           marred \subseteq marred', doomed' = doomed,
           \A t \in Sessions \ {s} : Alike(t),
           s \in doomed => status'[s] = "deleted",
           \/ s \in marred'
           \/ /\ Sound(s)' /\ (status[s] = "completed" => status'[s] \in Ended)
              /\ \A q \in Requests \ {p} : req[q].session = s =>
                    q \in overtaken' \/ Following(req[q])'
    PROVE  Orderly' /\ Final
<1> DEFINE P == Requests \ {p}
<1>1. P \in SUBSET Requests /\ \A q \in Requests \ P : q = p
  OBVIOUS
<1>2. (\A q \in P : Undisturbed(q)) /\ (\A q \in Requests \ P : Follows(q)')
  BY <1>1
<1>3. s \in marred' \/ \A q \in P : req[q].session = s => q \in overtaken' \/ Following(req[q])'
  OBVIOUS
<1> HIDE DEF P
<1>4. QED
  BY <1>1, <1>2, <1>3, StepOn

-----------------------------------------------------------------------------
(* What the operators of a step give.                                      *)

LEMMA Going ==
    ASSUME IInv, NEW p \in Requests, NEW step \in Steps, Goto(p, step)
    PROVE  /\ req'[p].step = step /\ req'[p].session = req[p].session
           /\ req'[p].chunk = req[p].chunk
           /\ \A q \in Requests \ {p} : req'[q] = req[q]
BY DEF Goto, IInv, TypeOK, Request

LEMMA Beginning ==
    ASSUME IInv, NEW p \in Requests, NEW step \in Steps, NEW s \in Sessions, NEW c,
           Begin(p, step, s, c)
    PROVE  /\ req'[p].step = step /\ req'[p].session = s /\ req'[p].chunk = c
           /\ \A q \in Requests \ {p} : req'[q] = req[q]
           /\ req[p].step = "idle"
BY DEF Begin, Idle, Free, IInv, TypeOK

LEMMA Finishing ==
    ASSUME IInv, NEW p \in Requests, Finish(p)
    PROVE  /\ req'[p].step = "idle" /\ Follows(p)'
           /\ \A q \in Requests \ {p} : Undisturbed(q)
<1>1. req'[p].step = "idle" /\ \A q \in Requests \ {p} : Undisturbed(q)
  BY IdleTyped DEF Finish, Undisturbed, IInv, TypeOK
<1>2. QED
  BY <1>1 DEF Follows, Following

LEMMA Setting ==
    ASSUME IInv, NEW s \in Sessions, NEW st, SetStatus(s, st)
    PROVE  status'[s] = st /\ \A t \in Sessions \ {s} : status'[t] = status[t]
BY DEF SetStatus, IInv, TypeOK

\* A step of a handler that changes nothing but its slot.
LEMMA SlotMoves ==
    ASSUME IInv, Orderly, NEW p \in Requests, Follows(p)',
           \A q \in Requests \ {p} : Undisturbed(q),
           UNCHANGED <<status, recorded, disk, saves, doomed, marred>>
    PROVE  Orderly' /\ Final
<1>1. \A q \in Requests \ {p} : Follows(q)'
  BY DEF Orderly, Undisturbed, Follows, Following
<1>2. QED
  BY <1>1 DEF Orderly, Sound, Final, Ended

\* A step that opens a session, which was neither completed nor cancelled: no
\* handler is clearing it.
Open == {"queued", "uploading", "paused", "completing", "failed"}
LEMMA Opens ==
    ASSUME IInv, Orderly, NEW p \in Requests, NEW s \in Sessions, NEW st \in Open,
           SetStatus(s, st), status[s] # "deleted",
           s \in marred' \/ status[s] \notin {"completed", "canceled"},
           Follows(p)', \A q \in Requests \ {p} : Undisturbed(q),
           UNCHANGED <<recorded, disk, saves, doomed>>, marred \subseteq marred'
    PROVE  Orderly' /\ Final
<1>1. status'[s] = st /\ \A t \in Sessions \ {s} : Alike(t)
  BY Setting DEF Alike
<1>2. s \notin doomed
  BY DEF Orderly
<1>3. CASE s \in marred'
  BY <1>1, <1>2, <1>3, HandlerOn
<1>4. CASE s \notin marred'
  <2>1. s \notin marred /\ status[s] \notin Ended \cup {"canceled"}
    BY <1>4 DEF Ended
  <2>2. Sound(s)'
    BY <1>1, <1>4, <2>1 DEF Orderly, Sound
  <2>3. ASSUME NEW q \in Requests \ {p}, req[q].session = s PROVE q \in overtaken' \/ Following(req[q])'
    <3>1. q \in overtaken \/ Following(req[q])
      BY <2>1, <2>3 DEF Orderly, Follows
    <3>2. Following(req[q]) => Following(req[q])'
      <4>1. req'[q] = req[q]
        BY DEF Undisturbed
      <4>2. QED
        BY <1>1, <2>1, <2>3, <4>1 DEF Following, Open, Ended
    <3>3. QED
      BY <3>1, <3>2 DEF Undisturbed
  <2>4. QED
    BY <1>1, <1>2, <2>1, <2>2, <2>3, HandlerOn DEF Ended
<1>5. QED
  BY <1>3, <1>4

\* A step that ends a session overtakes every other handler on it.
LEMMA Ends ==
    ASSUME IInv, Orderly, NEW p \in Requests, NEW s \in Sessions,
           Overtake(p, s), Sound(s)', Follows(p)',
           status[s] = "completed" => status'[s] \in Ended,
           status[s] # "deleted", doomed' = doomed,
           \A q \in Requests \ {p} : req'[q] = req[q],
           \A t \in Sessions \ {s} : Alike(t)
    PROVE  Orderly' /\ Final
<1>1. \A q \in Requests \ {p} : Undisturbed(q)
  BY Overtakes DEF Undisturbed
<1>2. \A q \in Requests \ {p} : req[q].session = s => q \in overtaken' \/ Following(req[q])'
  BY <1>1, Overtakes DEF Undisturbed, Following, Free
<1>3. s \notin doomed /\ marred' = marred
  BY Overtakes DEF Orderly
<1>4. QED
  BY <1>1, <1>2, <1>3, HandlerOn

-----------------------------------------------------------------------------
(* The steps.                                                              *)

LEMMA OrderlySave ==
    ASSUME IInv, Orderly, NEW p \in Requests, ~Free(p), NEW whole \in BOOLEAN, Save(p, whole)
    PROVE  Orderly' /\ Final
<1>1. PICK s \in Sessions : s = req[p].session
  BY DEF IInv, Slots, Fits, Free
<1>2. /\ Active(s) /\ SetStatus(s, "completed") /\ Count(s, whole) /\ Goto(p, "clean")
      /\ Overtake(p, s) /\ UNCHANGED <<recorded, disk, doomed>>
  BY <1>1 DEF Save, Mine
<1>3. status'[s] = "completed" /\ \A t \in Sessions \ {s} : status'[t] = status[t]
  BY <1>2, Setting
<1>4. status[s] \notin Ended
  BY <1>2 DEF Active, ActiveStatus, Ended
<1>5. \A t \in Sessions \ {s} : saves'[t] = saves[t]
  BY <1>2 DEF Count, IInv, TypeOK
<1>6. Sound(s)'
  <2>1. CASE s \in marred
    BY <1>2, <2>1, Overtakes DEF Sound
  <2>2. CASE s \notin marred
    <3>1. saves[s].n = 0
      BY <1>4, <2>2 DEF Orderly, Sound
    <3>2. saves'[s].n = 1
      BY <1>2, <3>1, UploadSessionAssumption DEF Count, IInv, TypeOK
    <3>3. QED
      BY <1>3, <3>2 DEF Sound, Ended
  <2>3. QED
    BY <2>1, <2>2
<1>7. req'[p].step = "clean" /\ req'[p].session = s /\ \A q \in Requests \ {p} : req'[q] = req[q]
  BY <1>1, <1>2, Going DEF Steps
<1>8. Follows(p)'
  BY <1>3, <1>7 DEF Follows, Following, Steps, Ended
<1>9. QED
  BY <1>2, <1>3, <1>4, <1>5, <1>6, <1>7, <1>8, Ends DEF Alike, Ended

LEMMA OrderlyAnnounce ==
    ASSUME IInv, Orderly, NEW p \in Requests, Announce(p)
    PROVE  Orderly' /\ Final
<1>1. ASSUME NEW s \in Sessions, CreateOrResume(p, s) PROVE Orderly' /\ Final
  <2>1. /\ req'[p].step = "init" /\ req'[p].session = s
        /\ \A q \in Requests \ {p} : Undisturbed(q)
        /\ UNCHANGED <<recorded, disk, saves, doomed, marred>>
    BY <1>1, Beginning DEF CreateOrResume, Steps, Undisturbed, hist
  <2>2. CASE Active(s) /\ UNCHANGED status
    <3>1. Follows(p)'
      BY <2>1, <2>2 DEF Follows, Following, Active, ActiveStatus
    <3>2. QED
      BY <2>1, <2>2, <3>1, SlotMoves
  <2>3. CASE status[s] = "none" /\ SetStatus(s, "queued")
    <3>1. Follows(p)'
      BY <2>1, <2>3, Setting DEF Follows, Following
    <3>2. QED
      BY <2>1, <2>3, <3>1, Opens DEF Open
  <2>4. QED
    BY <1>1, <2>2, <2>3 DEF CreateOrResume
<1>2. CASE SaveInstant(p)
  BY <1>2, OrderlySave DEF SaveInstant, Free
<1>3. CASE InstantFails(p)
  <2>1. /\ req[p].step = "init" /\ Goto(p, "fail")
        /\ UNCHANGED <<status, recorded, disk, saves, doomed, hist>>
    BY <1>3 DEF InstantFails
  <2>2. Follows(p)'
    BY <2>1, Going DEF Steps, Orderly, Follows, Following, hist
  <2>3. QED
    BY <2>1, <2>2, Going, SlotMoves DEF Steps, Undisturbed, hist
<1>4. QED
  BY <1>1, <1>2, <1>3 DEF Announce

\* What a handler that was not overtaken relies on.
LEMMA Relies ==
    ASSUME Orderly, NEW p \in Requests
    PROVE  p \in overtaken \/ req[p].session \in marred \/ Following(req[p])
BY DEF Orderly, Follows

LEMMA OrderlyChunk ==
    ASSUME IInv, Orderly, NEW p \in Requests,
           \/ \E s \in Sessions, c \in Chunks : BeginChunk(p, s, c)
           \/ WriteUploadChunk(p) \/ CheckSession(p) \/ InsertChunk(p) \/ TouchSession(p)
    PROVE  Orderly' /\ Final
<1>1. ASSUME NEW s \in Sessions, NEW c \in Chunks, BeginChunk(p, s, c)
      PROVE  Orderly' /\ Final
  <2>1. /\ req'[p].step = "write" /\ req'[p].session = s
        /\ \A q \in Requests \ {p} : Undisturbed(q)
        /\ UNCHANGED <<status, recorded, disk, saves, doomed, marred>>
        /\ status[s] \in {"queued", "uploading"}
    BY <1>1, Beginning DEF BeginChunk, Steps, Undisturbed, hist
  <2>2. Follows(p)'
    BY <2>1 DEF Follows, Following
  <2>3. QED
    BY <2>1, <2>2, SlotMoves
<1>2. CASE WriteUploadChunk(p)
  <2>1. PICK s \in Sessions, c \in Chunks : s = req[p].session /\ c = req[p].chunk
    BY <1>2 DEF WriteUploadChunk, IInv, Slots, Fits, ChunkSteps
  <2>2. PICK part \in {"right", "wrong"} :
            /\ disk' = [disk EXCEPT ![s][c] = part]
            /\ (Goto(p, "check") /\ overtaken' = overtaken) \/ Finish(p)
    BY <1>2, <2>1 DEF WriteUploadChunk, Mine
  <2>3. /\ disk'[s][c] # "missing"
        /\ \A d \in Chunks : disk[s][d] # "missing" => disk'[s][d] # "missing"
        /\ \A t \in Sessions \ {s} : disk'[t] = disk[t]
    BY <2>2 DEF IInv, TypeOK
  <2>4. UNCHANGED <<status, recorded, saves, doomed, marred>> /\ req[p].step = "write"
    BY <1>2 DEF WriteUploadChunk
  <2>5. Follows(p)' /\ \A q \in Requests \ {p} : Undisturbed(q)
    <3>1. CASE Goto(p, "check") /\ overtaken' = overtaken
      <4>1. /\ req'[p].step = "check" /\ req'[p].session = s /\ req'[p].chunk = c
            /\ \A q \in Requests \ {p} : req'[q] = req[q]
        BY <2>1, <3>1, Going DEF Steps
      <4>2. p \in overtaken \/ s \in marred \/ status[s] \notin {"completed", "canceled"}
        BY <2>1, <2>4, Relies DEF Following, Steps
      <4>3. Follows(p)'
        BY <2>1, <2>3, <2>4, <3>1, <4>1, <4>2 DEF Follows, Following
      <4>4. QED
        BY <3>1, <4>1, <4>3 DEF Undisturbed
    <3>2. CASE Finish(p)
      BY <3>2, Finishing
    <3>3. QED
      BY <2>2, <3>1, <3>2
  <2>6. Sound(s)' \/ s \in marred'
    BY <2>3, <2>4 DEF Orderly, Sound, IInv, TypeOK
  <2>7. \A q \in Requests \ {p} : req[q].session = s => q \in overtaken' \/ s \in marred'
                                                          \/ Following(req[q])'
    <3> SUFFICES ASSUME NEW q \in Requests \ {p}, req[q].session = s, Following(req[q])
                 PROVE  Following(req[q])'
      BY <2>4, <2>5, Relies DEF Undisturbed
    <3>1. req'[q] = req[q] /\ (req[q].step \in {"check", "insert"} => req[q].chunk \in Chunks)
      BY <2>5 DEF Undisturbed, IInv, Slots, Fits, ChunkSteps
    <3>2. QED
      BY <2>3, <2>4, <3>1 DEF Following
  <2>8. QED
    BY <2>3, <2>4, <2>5, <2>6, <2>7, HandlerOn DEF Alike, Orderly, Ended
<1>3. CASE CheckSession(p)
  <2>1. UNCHANGED <<status, recorded, disk, saves, doomed, marred>> /\ req[p].step = "check"
    BY <1>3 DEF CheckSession
  <2>2. Follows(p)' /\ \A q \in Requests \ {p} : Undisturbed(q)
    <3>1. CASE Goto(p, "insert") /\ overtaken' = overtaken
      BY <2>1, <3>1, Going, Relies DEF Steps, Follows, Following, Undisturbed
    <3>2. CASE Finish(p)
      BY <3>2, Finishing
    <3>3. QED
      BY <1>3, <3>1, <3>2 DEF CheckSession
  <2>3. QED
    BY <2>1, <2>2, SlotMoves
<1>4. CASE InsertChunk(p)
  <2>1. PICK s \in Sessions, c \in Chunks : s = req[p].session /\ c = req[p].chunk
    BY <1>4 DEF InsertChunk, IInv, Slots, Fits, ChunkSteps
  <2>2. /\ recorded' = [recorded EXCEPT ![s] = @ \cup {c}]
        /\ Exists(s) /\ req[p].step = "insert" /\ Goto(p, "touch")
        /\ UNCHANGED <<status, disk, saves, doomed, overtaken>>
    BY <1>4, <2>1 DEF InsertChunk, Mine
  <2>3. marred \subseteq marred' /\ (p \in overtaken => s \in marred')
    BY <1>4, <2>1, Mars DEF InsertChunk, Free
  <2>4. \A t \in Sessions : recorded'[t] = IF t = s THEN recorded[s] \cup {c} ELSE recorded[t]
    BY <2>2 DEF IInv, TypeOK
  <2>5. /\ req'[p].step = "touch" /\ req'[p].session = s
        /\ \A q \in Requests \ {p} : Undisturbed(q)
    BY <2>1, <2>2, Going DEF Steps, Undisturbed
  <2>6. s \in marred' \/ (/\ disk[s][c] # "missing" /\ p \notin overtaken /\ s \notin marred
                         /\ status[s] \notin {"completed", "canceled", "deleted"})
    BY <2>1, <2>2, <2>3, Relies DEF Following, Steps, Exists, Status, ActiveStatus
  <2>7. Follows(p)'
    BY <2>2, <2>5, <2>6 DEF Follows, Following
  <2>8. s \in doomed => status'[s] = "deleted"
    BY <2>2 DEF Orderly
  <2>9. CASE s \in marred'
    BY <2>2, <2>3, <2>4, <2>5, <2>7, <2>8, <2>9, HandlerOn DEF Alike
  <2>10. CASE s \notin marred'
    <3>1. Sound(s)'
      BY <2>2, <2>4, <2>6, <2>10 DEF Orderly, Sound
    <3>2. ASSUME NEW q \in Requests \ {p}, req[q].session = s
          PROVE  q \in overtaken' \/ Following(req[q])'
      BY <2>2, <2>5, <2>6, <2>10, <3>2, Relies DEF Following, Undisturbed, Ended
    <3>3. QED
      BY <2>2, <2>3, <2>4, <2>5, <2>6, <2>7, <2>8, <2>10, <3>1, <3>2, HandlerOn DEF Alike
  <2>11. QED
    BY <2>9, <2>10
<1>5. CASE TouchSession(p)
  <2>1. PICK s \in Sessions : s = req[p].session
    BY <1>5 DEF TouchSession, IInv, Slots, Fits
  <2>2. /\ Exists(s) /\ SetStatus(s, "uploading") /\ Finish(p) /\ req[p].step = "touch"
        /\ UNCHANGED <<recorded, disk, saves, doomed>>
    BY <1>5, <2>1 DEF TouchSession, Mine
  <2>3. marred \subseteq marred' /\ (p \in overtaken => s \in marred')
    BY <1>5, <2>1, Mars DEF TouchSession, Free
  <2>4. s \in marred' \/ status[s] \notin {"completed", "canceled"}
    BY <2>1, <2>2, <2>3, Relies DEF Following, Steps
  <2>5. status[s] # "deleted"
    BY <2>2 DEF Exists, Status, ActiveStatus
  <2>6. QED
    BY <2>2, <2>3, <2>4, <2>5, Finishing, Opens DEF Open
<1>6. QED
  BY <1>1, <1>2, <1>3, <1>4, <1>5

LEMMA OrderlyMerge ==
    ASSUME IInv, Orderly, NEW p \in Requests,
           \/ \E s \in Sessions : BeginComplete(p, s)
           \/ ClaimCompleting(p) \/ ReadPart(p) \/ CreateObject(p) \/ SaveMerged(p)
           \/ MergeFails(p) \/ FailTask(p)
    PROVE  Orderly' /\ Final
<1>1. ASSUME NEW s \in Sessions, BeginComplete(p, s) PROVE Orderly' /\ Final
  <2>1. /\ req'[p].step = "claim" /\ req'[p].session = s
        /\ \A q \in Requests \ {p} : Undisturbed(q)
        /\ UNCHANGED <<status, recorded, disk, saves, doomed, marred>>
        /\ status[s] # "completed"
    BY <1>1, Beginning DEF BeginComplete, Steps, Undisturbed, hist
  <2>2. Follows(p)'
    BY <2>1 DEF Follows, Following
  <2>3. QED
    BY <2>1, <2>2, SlotMoves
<1>2. CASE ClaimCompleting(p)
  <2>1. PICK s \in Sessions : s = req[p].session
    BY <1>2 DEF ClaimCompleting, IInv, Slots, Fits
  <2>2. /\ status[s] \in {"queued", "uploading", "paused", "failed"}
        /\ SetStatus(s, "completing") /\ UNCHANGED <<recorded, disk, saves, doomed, hist>>
    BY <1>2, <2>1 DEF ClaimCompleting, Mine
  <2>3. /\ req'[p].step = "merge" /\ req'[p].session = s
        /\ \A q \in Requests \ {p} : Undisturbed(q)
    BY <1>2, <2>1, <2>2 DEF ClaimCompleting, Undisturbed, hist, IInv, TypeOK, Request
  <2>4. Follows(p)'
    BY <2>2, <2>3, Setting DEF Follows, Following
  <2>5. QED
    BY <2>2, <2>3, <2>4, Opens DEF Open, hist
<1>3. CASE ReadPart(p) \/ CreateObject(p) \/ MergeFails(p)
  <2>1. /\ req[p].step \in {"merge", "save"}
        /\ UNCHANGED <<status, recorded, disk, saves, doomed, hist>>
    BY <1>3 DEF ReadPart, CreateObject, MergeFails
  <2>2. /\ req'[p].step \in {"merge", "save", "fail"} /\ req'[p].session = req[p].session
        /\ \A q \in Requests \ {p} : req'[q] = req[q]
    BY <1>3 DEF ReadPart, CreateObject, MergeFails, Goto, IInv, TypeOK, Request
  <2>3. Follows(p)' /\ \A q \in Requests \ {p} : Undisturbed(q)
    BY <2>1, <2>2, Relies DEF Follows, Following, Steps, Undisturbed, hist
  <2>4. QED
    BY <2>1, <2>3, SlotMoves DEF hist
<1>4. CASE SaveMerged(p)
  <2>1. ~Free(p) /\ req[p].whole \in BOOLEAN
    BY <1>4 DEF SaveMerged, Free, IInv, TypeOK, Request
  <2>2. QED
    BY <1>4, <2>1, OrderlySave DEF SaveMerged
<1>5. CASE FailTask(p)
  <2>1. PICK s \in Sessions : s = req[p].session
    BY <1>5 DEF FailTask, IInv, Slots, Fits
  <2>2. /\ Exists(s) /\ SetStatus(s, "failed") /\ Finish(p) /\ req[p].step = "fail"
        /\ UNCHANGED <<recorded, disk, saves, doomed>>
    BY <1>5, <2>1 DEF FailTask, Mine
  <2>3. marred \subseteq marred' /\ (p \in overtaken => s \in marred')
    BY <1>5, <2>1, Mars DEF FailTask, Free
  <2>4. s \in marred' \/ status[s] \notin {"completed", "canceled"}
    BY <2>1, <2>2, <2>3, Relies DEF Following, Steps
  <2>5. status[s] # "deleted"
    BY <2>2 DEF Exists, Status, ActiveStatus
  <2>6. QED
    BY <2>2, <2>3, <2>4, <2>5, Finishing, Opens DEF Open
<1>6. QED
  BY <1>1, <1>2, <1>3, <1>4, <1>5

LEMMA OrderlyEnd ==
    ASSUME IInv, Orderly, NEW p \in Requests,
           \/ \E s \in Sessions : CancelOwned(p, s) \/ AdminCancelUpload(p, s)
           \/ ForgetChunks(p) \/ RemoveUploadSession(p) \/ Abandon(p)
    PROVE  Orderly' /\ Final
<1>1. ASSUME NEW s \in Sessions, CancelOwned(p, s) PROVE Orderly' /\ Final
  <2>1. /\ Exists(s) /\ status[s] # "completed" /\ SetStatus(s, "canceled")
        /\ recorded' = [recorded EXCEPT ![s] = {}] /\ Overtake(p, s)
        /\ UNCHANGED <<disk, saves, doomed>>
    BY <1>1 DEF CancelOwned
  <2>2. /\ status'[s] = "canceled" /\ recorded'[s] = {} /\ status[s] \notin Ended
        /\ \A t \in Sessions \ {s} : Alike(t)
    BY <2>1, Setting DEF Exists, Status, ActiveStatus, Ended, Alike, IInv, TypeOK
  <2>3. /\ req'[p].step = "clean" /\ req'[p].session = s
        /\ \A q \in Requests \ {p} : req'[q] = req[q]
    BY <1>1, Beginning DEF CancelOwned, Steps
  <2>4. Sound(s)' /\ Follows(p)'
    BY <2>1, <2>2, <2>3, Overtakes DEF Orderly, Sound, Follows, Following, Steps
  <2>5. QED
    BY <2>1, <2>2, <2>3, <2>4, Ends DEF Ended
<1>2. ASSUME NEW s \in Sessions, AdminCancelUpload(p, s) PROVE Orderly' /\ Final
  <2>1. /\ SetStatus(s, "canceled") /\ Overtake(p, s)
        /\ UNCHANGED <<recorded, disk, saves, doomed>> /\ status[s] \notin Ended
    BY <1>2 DEF AdminCancelUpload, Active, ActiveStatus, Ended
  <2>2. status'[s] = "canceled" /\ \A t \in Sessions \ {s} : Alike(t)
    BY <2>1, Setting DEF Alike
  <2>3. /\ req'[p].step = "forget" /\ req'[p].session = s
        /\ \A q \in Requests \ {p} : req'[q] = req[q]
    BY <1>2, Beginning DEF AdminCancelUpload, Steps
  <2>4. Sound(s)' /\ Follows(p)'
    BY <2>1, <2>2, <2>3, Overtakes DEF Orderly, Sound, Follows, Following, Steps, Ended
  <2>5. QED
    BY <2>1, <2>2, <2>3, <2>4, Ends DEF Ended
<1>3. CASE ForgetChunks(p)
  <2>1. PICK s \in Sessions : s = req[p].session
    BY <1>3 DEF ForgetChunks, IInv, Slots, Fits
  <2>2. /\ recorded' = [recorded EXCEPT ![s] = {}] /\ Goto(p, "clean")
        /\ UNCHANGED <<status, disk, saves, doomed, hist>> /\ req[p].step = "forget"
    BY <1>3, <2>1 DEF ForgetChunks, Mine
  <2>3. \A t \in Sessions : recorded'[t] = IF t = s THEN {} ELSE recorded[t]
    BY <2>2 DEF IInv, TypeOK
  <2>4. /\ req'[p].step = "clean" /\ req'[p].session = s
        /\ \A q \in Requests \ {p} : Undisturbed(q)
    BY <2>1, <2>2, Going DEF Steps, Undisturbed, hist
  <2>5. Follows(p)'
    BY <2>1, <2>2, <2>3, <2>4, Relies DEF Follows, Following, Steps, Ended, hist
  <2>6. Sound(s)'
    BY <2>2, <2>3 DEF Orderly, Sound, hist
  <2>7. ASSUME NEW q \in Requests \ {p}, req[q].session = s
        PROVE  q \in overtaken' \/ s \in marred' \/ Following(req[q])'
    BY <2>2, <2>3, <2>4, <2>7, Relies DEF Following, Undisturbed, hist
  <2>8. QED
    BY <2>2, <2>3, <2>4, <2>5, <2>6, <2>7, HandlerOn DEF Orderly, Alike, Ended, hist
<1>4. CASE RemoveUploadSession(p)
  <2>1. PICK s \in Sessions : s = req[p].session
    BY <1>4 DEF RemoveUploadSession, IInv, Slots, Fits
  <2>2. /\ disk' = [disk EXCEPT ![s] = NoParts] /\ Finish(p) /\ req[p].step = "clean"
        /\ UNCHANGED <<status, recorded, saves, doomed>>
    BY <1>4, <2>1 DEF RemoveUploadSession, Mine
  <2>3. marred \subseteq marred' /\ (p \in overtaken => s \in marred')
    BY <1>4, <2>1, Mars DEF RemoveUploadSession, Free
  <2>4. \A t \in Sessions \ {s} : Alike(t)
    BY <2>2 DEF Alike, IInv, TypeOK
  <2>5. \/ s \in marred'
        \/ /\ s \notin marred
           /\ status[s] \in Ended \/ (status[s] = "canceled" /\ recorded[s] = {})
    BY <2>1, <2>2, <2>3, Relies DEF Following, Steps
  <2>6. CASE s \in marred'
    BY <2>2, <2>3, <2>4, <2>6, Finishing, HandlerOn DEF Orderly
  <2>7. CASE s \notin marred'
    <3>1. Sound(s)'
      BY <2>2, <2>5, <2>7 DEF Orderly, Sound
    <3>2. ASSUME NEW q \in Requests \ {p}, req[q].session = s
          PROVE  q \in overtaken' \/ Following(req[q])'
      <4>1. Undisturbed(q) /\ (q \in overtaken \/ Following(req[q]))
        BY <2>2, <2>5, <2>7, <3>2, Finishing, Relies
      <4>2. QED
        BY <2>2, <2>5, <2>7, <3>2, <4>1 DEF Following, Undisturbed, Ended, Steps
    <3>3. QED
      BY <2>2, <2>3, <2>4, <2>7, <3>1, <3>2, Finishing, HandlerOn DEF Orderly, Ended
  <2>8. QED
    BY <2>6, <2>7
<1>5. CASE Abandon(p)
  BY <1>5, Finishing, SlotMoves DEF Abandon
<1>6. QED
  BY <1>1, <1>2, <1>3, <1>4, <1>5

\* A step of nobody's handler that works on one session.
LEMMA LoopOn ==
    ASSUME IInv, Orderly, NEW s \in Sessions,
           req' = req, marred' = marred, \A q \in Requests : q \in overtaken => q \in overtaken',
           doomed' \subseteq doomed \cup {s}, \A t \in Sessions \ {s} : Alike(t),
           s \in doomed' => status'[s] = "deleted",
           s \in marred \/ Sound(s)', status[s] = "completed" => status'[s] \in Ended,
           \A q \in Requests : req[q].session = s /\ Following(req[q]) =>
                q \in overtaken' \/ Following(req[q])'
    PROVE  Orderly' /\ Final
<1> DEFINE P == Requests
<1>1. P \in SUBSET Requests /\ \A q \in P : Undisturbed(q)
  BY DEF Undisturbed
<1>2. s \in marred' \/ \A q \in P : req[q].session = s => q \in overtaken' \/ Following(req[q])'
  BY Relies
<1>3. \A q \in Requests \ P : Follows(q)'
  OBVIOUS
<1>4. marred \subseteq marred' /\ (s \in marred' \/ Sound(s)')
  OBVIOUS
<1> HIDE DEF P
<1>5. QED
  BY <1>1, <1>2, <1>3, <1>4, StepOn

LEMMA OrderlyLoop ==
    ASSUME IInv, Orderly,
           \/ \E s \in Sessions : \/ SetUserActionStatus(s, "paused")
                                  \/ SetUserActionStatus(s, "queued")
                                  \/ DeleteExpired(s) \/ RemoveExpired(s)
                                  \/ DeleteCompletedBefore(s)
           \/ Restart
    PROVE  Orderly' /\ Final
<1>1. ASSUME NEW s \in Sessions, NEW st \in {"paused", "queued"}, SetUserActionStatus(s, st)
      PROVE  Orderly' /\ Final
  <2>1. /\ Exists(s) /\ status[s] # "completed" /\ SetStatus(s, st)
        /\ UNCHANGED <<recorded, disk, saves, req, doomed, marred>>
        /\ \A q \in Requests : q \in overtaken => q \in overtaken'
        /\ \A q \in Requests : req[q].step \in {"forget", "clean"} /\ req[q].session = s =>
               q \in overtaken'
    BY <1>1 DEF SetUserActionStatus, On, Free, Mine
  <2>2. status[s] \notin Ended /\ s \notin doomed
    BY <2>1 DEF Exists, Status, ActiveStatus, Ended, Orderly
  <2>3. status'[s] = st /\ \A t \in Sessions \ {s} : Alike(t)
    BY <2>1, Setting DEF Alike
  <2>4. s \in marred \/ Sound(s)'
    BY <2>1, <2>2, <2>3 DEF Orderly, Sound, Ended
  <2>5. ASSUME NEW q \in Requests, req[q].session = s, Following(req[q])
        PROVE  q \in overtaken' \/ Following(req[q])'
    BY <2>1, <2>2, <2>3, <2>5 DEF Following, Ended
  <2>6. QED
    BY <2>1, <2>2, <2>3, <2>4, <2>5, LoopOn DEF Ended
<1>2. ASSUME NEW s \in Sessions, DeleteExpired(s) \/ DeleteCompletedBefore(s)
      PROVE  Orderly' /\ Final
  <2>1. /\ SetStatus(s, "deleted") /\ recorded' = [recorded EXCEPT ![s] = {}]
        /\ doomed' \subseteq doomed \cup {s} /\ UNCHANGED <<disk, saves, req, hist>>
    BY <1>2 DEF DeleteExpired, DeleteCompletedBefore, Delete
  <2>2. /\ status'[s] = "deleted" /\ recorded'[s] = {}
        /\ \A t \in Sessions \ {s} : Alike(t)
    BY <2>1, Setting DEF Alike, IInv, TypeOK
  <2>3. s \in marred \/ Sound(s)'
    BY <2>1, <2>2 DEF Orderly, Sound, Ended
  <2>4. ASSUME NEW q \in Requests, req[q].session = s, Following(req[q])
        PROVE  q \in overtaken' \/ Following(req[q])'
    BY <2>1, <2>2, <2>4 DEF Following, Ended
  <2>5. QED
    BY <2>1, <2>2, <2>3, <2>4, LoopOn DEF Ended, hist
<1>3. ASSUME NEW s \in Sessions, RemoveExpired(s) PROVE Orderly' /\ Final
  <2>1. /\ disk' = [disk EXCEPT ![s] = NoParts] /\ doomed' \subseteq doomed
        /\ UNCHANGED <<status, recorded, saves, req, hist>> /\ status[s] = "deleted"
    BY <1>3 DEF RemoveExpired, Orderly
  <2>2. \A t \in Sessions \ {s} : Alike(t)
    BY <2>1 DEF Alike, IInv, TypeOK
  <2>3. s \in marred \/ Sound(s)'
    BY <2>1 DEF Orderly, Sound, Ended
  <2>4. ASSUME NEW q \in Requests, req[q].session = s, Following(req[q])
        PROVE  Following(req[q])'
    BY <2>1, <2>4 DEF Following
  <2>5. QED
    BY <2>1, <2>2, <2>3, <2>4, LoopOn DEF Ended, hist
<1>4. CASE Restart
  <2>1. /\ \A p \in Requests : req'[p].step = "idle"
        /\ doomed' = {} /\ UNCHANGED <<recorded, disk, saves, marred>>
        /\ \A s \in Sessions :
              status'[s] = IF status[s] = "completing" THEN "failed" ELSE status[s]
    BY <1>4, IdleTyped DEF Restart
  <2>2. \A p \in Requests : Follows(p)'
    BY <2>1 DEF Follows, Following
  <2>3. \A s \in Sessions : Sound(s)'
    BY <2>1 DEF Orderly, Sound, Ended
  <2>4. QED
    BY <2>1, <2>2, <2>3 DEF Orderly, Final, Ended
<1>5. QED
  BY <1>1, <1>2, <1>3, <1>4

LEMMA OrderlyInductive ==
    IInv /\ Orderly /\ [Next]_vars => Orderly' /\ (Final \/ UNCHANGED vars)
<1> SUFFICES ASSUME IInv, Orderly, [Next]_vars
             PROVE  Orderly' /\ (Final \/ UNCHANGED vars)
  OBVIOUS
<1>1. ASSUME NEW p \in Requests, Handle(p) PROVE Orderly' /\ Final
  BY <1>1, OrderlyAnnounce, OrderlyChunk, OrderlyMerge, OrderlyEnd DEF Handle
<1>2. CASE UNCHANGED vars
  BY <1>2 DEF vars, hist, Orderly, Follows, Following, Sound
<1>3. QED
  BY <1>1, <1>2, OrderlyLoop DEF Next

LEMMA OrderlyInitially == Init => Orderly
BY IdleTyped DEF Init, Orderly, Follows, Following, Sound

-----------------------------------------------------------------------------
\* However many handlers ask for its completion, fail, pause, cancel and resume
\* it at the same time, an upload makes one file, unless a handler that was under
\* way when it was completed or cancelled writes to the session afterwards.
THEOREM SavesOnce == Spec => []SavedOnce
<1>1. IInv /\ Orderly /\ [Next]_vars => Orderly'
  BY OrderlyInductive
<1>2. IInv /\ Orderly => SavedOnce
  BY DEF Orderly, Sound, SavedOnce, IInv, TypeOK
<1>3. QED
  BY <1>1, <1>2, OrderlyInitially, InvariantHolds, PTL DEF Spec

\* Nothing but such a handler leads out of "completed" (save to "deleted").
THEOREM CompletedStays == Spec => CompletedIsFinal
<1>1. IInv /\ Orderly /\ [Next]_vars =>
         Orderly' /\ [\A s \in Sessions : status[s] = "completed" =>
                          status'[s] \in {"completed", "deleted"} \/ s \in marred']_vars
  BY OrderlyInductive DEF Final, Ended
<1>2. QED
  BY <1>1, OrderlyInitially, InvariantHolds, PTL DEF Spec, CompletedIsFinal

\* A chunk that the client is told to skip is on the disk, through every
\* interleaving of uploads, cancellations, clean-ups and restarts in which no
\* overtaken handler writes to the session.
THEOREM ReceivedStays == Spec => []ReceivedOnDisk
<1>1. IInv /\ Orderly /\ [Next]_vars => Orderly'
  BY OrderlyInductive
<1>2. IInv /\ Orderly => ReceivedOnDisk
  BY DEF Orderly, Sound, Ended, ReceivedOnDisk, Continued
<1>3. QED
  BY <1>1, <1>2, OrderlyInitially, InvariantHolds, PTL DEF Spec
=============================================================================
