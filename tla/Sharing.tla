------------------------------ MODULE Sharing ------------------------------
(***************************************************************************)
(* The pickup shares of one owner: created, edited, enabled, disabled and    *)
(* deleted by the owner, changed and reviewed by administrators, while time  *)
(* passes.  A share is found by a short code that it occupies while it is    *)
(* usable; codes of dead shares return to the pool.                          *)
(*                                                                         *)
(* Every statement of a handler is a step: the count against the quota, the  *)
(* update, the review mark, and SyncPickupCodeLive, which reads the state of *)
(* the share and then writes by what it read.  A request may end after any   *)
(* of them.                                                                  *)
(***************************************************************************)
EXTENDS Integers, FiniteSets

CONSTANTS
    Shares,      \* shares.id
    NoOne,       \* no share
    Codes,       \* pickup codes that can be drawn
    NoCode,
    Requests,    \* request slots
    ShareLimit,  \* active_share_count_limit of the owner
    MaxBatch,    \* shares of one batch (500 in the code)
    MaxRequests  \* bound: requests made

ASSUME SharingAssumption ==
    /\ IsFiniteSet(Shares) /\ IsFiniteSet(Requests)
    /\ NoOne \notin Shares /\ NoCode \notin Codes
    /\ ShareLimit \in Nat /\ MaxBatch \in Nat \ {0} /\ MaxRequests \in Nat

VARIABLES
    share,     \* the rows of shares and share_moderations
    trashed,   \* shares whose first resource is in the trash or purged
    req,       \* the requests in progress
    made,      \* requests made so far (bounded by MaxRequests)
    lost,      \* history: shares whose codes a request failed to put right,
    unchecked, \* shares that became active without a count against the quota,
    alone      \* and whether no two requests with steps were ever in progress at once

vars == <<share, trashed, req, made, lost, unchecked, alone>>

Share == [row: BOOLEAN, active: BOOLEAN, expired: BOOLEAN, deleted: BOOLEAN,
          blocked: BOOLEAN, code: Codes \cup {NoCode}, live: BOOLEAN,
          review: {"none", "pending", "approved", "rejected"}, drop: BOOLEAN]

\* What a request does next, for which shares.  "insert" a share; "mark" it for
\* review; "count" and "write" a batch; "sync", "release", "occupy" or "rotate"
\* a code; "decide" a review.
Request == [step: {"idle", "insert", "mark", "count", "write",
                   "sync", "release", "occupy", "rotate", "decide"},
            arg: {"", "new", "plain", "review", "enable", "disable", "delete",
                  "approved", "rejected", "dropped"},
            todo: SUBSET Shares, on: Shares \cup {NoOne}, code: Codes \cup {NoCode}]

Slot(step, arg, ss) ==
    [step |-> step, arg |-> arg, todo |-> ss, on |-> NoOne, code |-> NoCode]
Idle == Slot("idle", "", {})

NoShare == [row |-> FALSE, active |-> FALSE, expired |-> FALSE, deleted |-> FALSE,
            blocked |-> FALSE, code |-> NoCode, live |-> FALSE,
            review |-> "none", drop |-> FALSE]
NewShare(c) == [NoShare EXCEPT !.row = TRUE, !.active = TRUE, !.code = c, !.live = TRUE]

-----------------------------------------------------------------------------
\* shareUsablePredicate: the share is worth a code.
Usable(s) ==
    /\ share[s].row /\ ~share[s].deleted /\ share[s].active /\ ~share[s].expired
    /\ ~(share[s].review = "rejected" /\ share[s].drop)

\* loadUsableShare: a visitor who knows the share is shown it.
Served(s) ==
    /\ share[s].row /\ ~share[s].deleted /\ ~share[s].blocked
    /\ share[s].active /\ ~share[s].expired
    /\ share[s].review \in {"none", "approved"}

\* The shares that count against the quota.
Active == {s \in Shares : /\ share[s].row /\ share[s].active /\ ~share[s].blocked
                          /\ ~share[s].deleted /\ ~share[s].expired /\ s \notin trashed}

\* Codes that no row occupies (the partial unique index of pickup_code_live).
FreeCodes == Codes \ {share[s].code : s \in {t \in Shares : share[t].live}}

\* The owner may change it.
Own(s) == share[s].row /\ ~share[s].blocked /\ ~share[s].deleted

\* Shares exist from the start that were created within the quota.
Init ==
    /\ share \in [Shares -> {NoShare} \cup {NewShare(c) : c \in Codes}]
    /\ \A s, t \in Shares : s # t /\ share[s].row => share[s].code # share[t].code
    /\ trashed = {} /\ Cardinality(Active) <= ShareLimit
    /\ req = [p \in Requests |-> Idle] /\ made = 0
    /\ lost = {} /\ unchecked = {} /\ alone = TRUE

Free(p) == req[p].step = "idle"
At(p, step) == req[p].step = step
Become(p, r) == req' = [req EXCEPT ![p] = r] /\ UNCHANGED <<made, alone>>
Start(p, r) ==
    /\ Free(p) /\ made < MaxRequests /\ made' = made + 1
    /\ req' = [req EXCEPT ![p] = r]
    /\ alone' = (alone /\ \A q \in Requests : Free(q))

\* Shares that are active after the step, and were neither before nor counted.
Tally(counted) ==
    unchecked' = (unchecked \cup (Active' \ (Active \cup counted))) \cap Active'

\* The client goes away, a statement fails, or the process is killed.
Abandon(p) ==
    /\ ~Free(p) /\ Become(p, Idle) /\ lost' = lost \cup req[p].todo
    /\ UNCHANGED <<share, trashed, unchecked>>

-----------------------------------------------------------------------------
(* Creating.                                                               *)

\* Mutant of WithinActiveShareQuota: one too many.
WithinQuotaInclusive == Cardinality(Active) <= ShareLimit

WithinActiveShareQuota == Cardinality(Active) < ShareLimit

CheckCreate(p) ==
    /\ WithinActiveShareQuota /\ Start(p, Slot("insert", "", {}))
    /\ UNCHANGED <<share, trashed, lost, unchecked>>

\* One transaction; a code that is live elsewhere is drawn again.
CreateShare(p, s, c, review) ==
    /\ At(p, "insert") /\ share[s] = NoShare /\ c \in FreeCodes
    /\ share' = [share EXCEPT ![s] = NewShare(c)]
    /\ Become(p, IF review THEN Slot("mark", "new", {s}) ELSE Idle)
    /\ UNCHANGED <<trashed, lost>> /\ Tally({s})

-----------------------------------------------------------------------------
(* Editing.                                                                *)

\* UpdateShareByOwner: a new expiry is in the future, whatever the old one was.
EditShare(p, s, review, extend) ==
    /\ Own(s) /\ Start(p, Slot("mark", IF review THEN "review" ELSE "plain", {s}))
    /\ share' = [share EXCEPT ![s].expired = @ /\ ~extend]
    /\ UNCHANGED <<trashed, lost>> /\ Tally({})

Pending(s) == [share EXCEPT ![s].review = "pending"]

\* Only a mark that is pending is removed.
Cleared(s) ==
    IF share[s].review = "pending"
    THEN [share EXCEPT ![s].review = "none", ![s].drop = FALSE] ELSE share

\* Mutant of AfterMark: the code is not put right after an edit.
AfterMarkNothing(p) == Become(p, Idle)

\* An edit goes on to put the code right; a new share has one.
AfterMark(p) == Become(p, IF req[p].arg = "new" THEN Idle ELSE Slot("sync", "", req[p].todo))

\* A description of the owner's waits for review, any other needs none.
MarkShare(p) ==
    \E s \in req[p].todo :
        /\ At(p, "mark") /\ AfterMark(p)
        /\ share' = IF req[p].arg = "plain" THEN Cleared(s)
                    ELSE IF share[s].row THEN Pending(s) ELSE share
        /\ UNCHANGED <<trashed, lost>> /\ Tally({})

\* The mark cannot be written: the share is disabled instead, if it can be, and
\* its code is not put right.
MarkFails(p) ==
    \E s \in req[p].todo :
        /\ At(p, "mark") /\ req[p].arg # "plain" /\ Become(p, Idle)
        /\ share' = IF Own(s) THEN [share EXCEPT ![s].active = FALSE] ELSE share
        /\ lost' = lost \cup {s}
        /\ UNCHANGED trashed /\ Tally({})

-----------------------------------------------------------------------------
(* Batches.                                                                *)

\* The shares of a batch that enabling it would make active.
ToEnable(ss) == {s \in ss : Own(s) /\ ~share[s].active /\ ~share[s].expired}

StartBatch(p, ss, action) ==
    /\ action = "enable" =>
          Cardinality(Active) + Cardinality(ToEnable(ss)) <= ShareLimit
    /\ Start(p, Slot("count", action, ss))
    /\ UNCHANGED <<share, trashed, lost, unchecked>>

\* batchLinksByOwner first counts the rows that the owner may change ...
CountBatch(p) ==
    /\ At(p, "count")
    /\ Become(p, IF \A s \in req[p].todo : Own(s) THEN [req[p] EXCEPT !.step = "write"]
                 ELSE Idle)
    /\ UNCHANGED <<share, trashed, lost, unchecked>>

\* ... and then updates or deletes by id, what was blocked meanwhile too.
WriteBatch(p) ==
    LET ss == {s \in req[p].todo : share[s].row}
        After(s) == IF req[p].arg = "delete" THEN NoShare
                    ELSE [share[s] EXCEPT !.active = req[p].arg = "enable"]
    IN  /\ At(p, "write")
        /\ share' = [s \in Shares |-> IF s \in ss THEN After(s) ELSE share[s]]
        /\ Become(p, IF req[p].arg = "delete" THEN Idle ELSE Slot("sync", "", req[p].todo))
        /\ UNCHANGED <<trashed, lost>> /\ Tally(ss)

-----------------------------------------------------------------------------
(* SyncPickupCodeLive, for one share of the request after the other.       *)

Sync(ss) == IF ss = {} THEN Idle ELSE Slot("sync", "", ss)

\* The code of s is as it should be.
Synced(p, s) == Become(p, Sync(req[p].todo \ {s})) /\ lost' = lost \ {s}

\* The state of the share is read, and its code with it ...
ReadState(p, s) ==
    /\ At(p, "sync") /\ s \in req[p].todo
    /\ IF share[s].row /\ Usable(s) # share[s].live
       THEN /\ Become(p, [req[p] EXCEPT !.step = IF Usable(s) THEN "occupy" ELSE "release",
                                        !.on = s, !.code = share[s].code])
            /\ UNCHANGED lost
       ELSE Synced(p, s)
    /\ UNCHANGED <<share, trashed, unchecked>>

\* ... and a share that was not usable then gives its code up,
ReleaseCode(p) ==
    LET s == req[p].on
    IN  /\ At(p, "release") /\ Synced(p, s)
        /\ share' = [share EXCEPT ![s].live = FALSE]
        /\ UNCHANGED <<trashed, unchecked>>

\* Mutant of Occupies: a share that was deleted meanwhile takes the code.
OccupiesDeleted(s, c) == share[s].row /\ c \in FreeCodes \cup {share[s].code}

\* Mutant of Occupies: the index and the NOT EXISTS are missing.
OccupiesTaken(s, c) == share[s].row /\ ~share[s].deleted

\* The UPDATE ... WHERE deleted_at IS NULL AND NOT EXISTS(...) finds its row.
Occupies(s, c) ==
    /\ share[s].row /\ ~share[s].deleted
    /\ c \in FreeCodes \/ (share[s].live /\ c = share[s].code)

\* while one that was usable takes the code it had then, or else a new one.
OccupyCode(p) ==
    LET s == req[p].on
        c == req[p].code
    IN  /\ At(p, "occupy")
        /\ IF Occupies(s, c)
           THEN share' = [share EXCEPT ![s].code = c, ![s].live = TRUE] /\ Synced(p, s)
           ELSE Become(p, [req[p] EXCEPT !.step = "rotate"]) /\ UNCHANGED <<share, lost>>
        /\ UNCHANGED <<trashed, unchecked>>

RotateCode(p, c) ==
    LET s == req[p].on
    IN  /\ At(p, "rotate") /\ Occupies(s, c) /\ Synced(p, s)
        /\ share' = [share EXCEPT ![s].code = c, ![s].live = TRUE]
        /\ UNCHANGED <<trashed, unchecked>>

\* 256 draws hit codes that are taken, or the share is gone.
CodesExhausted(p) ==
    /\ \/ At(p, "rotate") /\ Become(p, Sync(req[p].todo \ {req[p].on}))
       \/ At(p, "insert") /\ Become(p, Idle)
    /\ FreeCodes # Codes \/ At(p, "rotate")
    /\ lost' = lost \cup ({req[p].on} \ {NoOne})
    /\ UNCHANGED <<share, trashed, unchecked>>

-----------------------------------------------------------------------------
(* Administrators.                                                         *)

Changes == {"extend", "enable", "disable", "unblock"}

\* The WHERE clause of AdminUpdateShare and AdminDeleteShare.
Deletable(s) == share[s].row /\ ~share[s].deleted

\* A new expiry, enabled or disabled, unblocked.
AdminUpdateShare(p, s, change) ==
    /\ Deletable(s) /\ Start(p, Slot("sync", "", {s}))
    /\ share' = [share EXCEPT ![s] =
           CASE change = "extend"  -> [@ EXCEPT !.expired = FALSE]
             [] change = "enable"  -> [@ EXCEPT !.active = TRUE]
             [] change = "disable" -> [@ EXCEPT !.active = FALSE]
             [] change = "unblock" -> [@ EXCEPT !.blocked = FALSE, !.deleted = FALSE]]
    /\ UNCHANGED <<trashed, lost>> /\ Tally({})

\* Of a share that is deleted the UPDATE finds no row, whatever was to change.
AdminUpdateRefused(s, change) ==
    /\ share[s].row /\ ~Deletable(s) /\ made < MaxRequests /\ made' = made + 1
    /\ UNCHANGED <<share, trashed, req, lost, unchecked, alone>>

AdminDeleteShare(s) ==
    /\ Deletable(s) /\ made < MaxRequests /\ made' = made + 1
    /\ share' = [share EXCEPT ![s].deleted = TRUE, ![s].live = FALSE]
    /\ UNCHANGED <<trashed, req, lost, alone>> /\ Tally({})

\* handleShareModeration first disposes of the share, whatever it is ...
SetShareDisposition(p, s, verdict, blocked) ==
    /\ share[s].row /\ (verdict = "approved" => ~blocked)
    /\ Start(p, Slot("decide", verdict, {s}))
    /\ share' = [share EXCEPT ![s].deleted = @ \/ verdict = "dropped",
                              ![s].blocked = blocked]
    /\ UNCHANGED <<trashed, lost>> /\ Tally({})

\* ... and then writes the verdict; codes are not touched.
ReviewShare(p) ==
    \E s \in req[p].todo :
        /\ At(p, "decide") /\ Become(p, Idle)
        /\ share' = IF ~share[s].row THEN share
                    ELSE [share EXCEPT
                            ![s].review = IF req[p].arg = "approved" THEN "approved"
                                          ELSE "rejected",
                            ![s].drop = req[p].arg = "dropped"]
        /\ UNCHANGED <<trashed, lost>> /\ Tally({})

-----------------------------------------------------------------------------
(* Time, the trash, and the hourly release.                                *)

Expire(s) ==
    /\ share[s].row /\ ~share[s].expired
    /\ share' = [share EXCEPT ![s].expired = TRUE]
    /\ UNCHANGED <<trashed, req, made, lost, alone>> /\ Tally({})

\* The owner moves the first resource to the trash, or restores it.
TrashRoot(s) ==
    /\ share[s].row /\ made < MaxRequests /\ made' = made + 1
    /\ trashed' = (trashed \ {s}) \cup ({s} \ trashed)
    /\ UNCHANGED <<share, req, lost, alone>> /\ Tally({})

Dead == {s \in Shares : share[s].live /\ ~Usable(s)}

\* Mutant of ReleaseDeadPickupCodes: shares that were deleted by a review, and
\* are active, are missed.
ReleaseInactive ==
    LET dead == {s \in Dead : ~share[s].active \/ share[s].expired}
    IN  /\ dead # {}
        /\ share' = [s \in Shares |-> [share[s] EXCEPT !.live = @ /\ s \notin dead]]
        /\ UNCHANGED <<trashed, req, made, lost, unchecked, alone>>

\* Mutant of ReleaseDeadPickupCodes: whatever is not shown to visitors is dead,
\* a share under review too.
ReleaseHidden ==
    /\ \E s \in Shares : share[s].live /\ ~Served(s)
    /\ share' = [s \in Shares |-> [share[s] EXCEPT !.live = @ /\ Served(s)]]
    /\ UNCHANGED <<trashed, req, made, lost, unchecked, alone>>

ReleaseDeadPickupCodes ==
    /\ Dead # {}
    /\ share' = [s \in Shares |-> [share[s] EXCEPT !.live = @ /\ s \notin Dead]]
    /\ UNCHANGED <<trashed, req, made, lost, unchecked, alone>>

OwnerRequest(p) ==
    \/ CheckCreate(p)
    \/ \E s \in Shares, review, extend \in BOOLEAN : EditShare(p, s, review, extend)
    \/ \E ss \in SUBSET Shares, action \in {"enable", "disable", "delete"} :
          ss # {} /\ Cardinality(ss) <= MaxBatch /\ StartBatch(p, ss, action)

AdminRequest(p) ==
    \E s \in Shares :
        \/ \E change \in Changes : AdminUpdateShare(p, s, change)
        \/ \E verdict \in {"approved", "rejected", "dropped"}, blocked \in BOOLEAN :
              SetShareDisposition(p, s, verdict, blocked)

RequestStep(p) ==
    \/ \E s \in Shares, c \in Codes, review \in BOOLEAN : CreateShare(p, s, c, review)
    \/ MarkShare(p) \/ MarkFails(p) \/ CountBatch(p) \/ WriteBatch(p)
    \/ \E s \in Shares : ReadState(p, s)
    \/ ReleaseCode(p) \/ OccupyCode(p) \/ CodesExhausted(p)
    \/ \E c \in Codes : RotateCode(p, c)
    \/ ReviewShare(p) \/ Abandon(p)

Next ==
    \/ \E p \in Requests : OwnerRequest(p) \/ AdminRequest(p) \/ RequestStep(p)
    \/ \E s \in Shares : AdminDeleteShare(s) \/ Expire(s) \/ TrashRoot(s)
    \/ \E s \in Shares, change \in Changes : AdminUpdateRefused(s, change)
    \/ ReleaseDeadPickupCodes

\* main.go releases dead codes every hour, whoever else does.
Spec == Init /\ [][Next]_vars /\ WF_vars(ReleaseDeadPickupCodes)

-----------------------------------------------------------------------------
\* A code that is live leads to one share.
LiveCodesUnique ==
    \A s, t \in Shares : s # t /\ share[s].live /\ share[t].live => share[s].code # share[t].code

TypeOK ==
    /\ share \in [Shares -> Share]
    /\ trashed \subseteq Shares
    /\ req \in [Requests -> Request]
    /\ made \in 0..MaxRequests
    /\ lost \subseteq Shares /\ unchecked \subseteq Active /\ alone \in BOOLEAN
    /\ LiveCodesUnique

\* The quota is counted in one statement and used in another: of the shares that
\* came by way of a count, there are more than the limit only if requests ran
\* side by side, and then by no more than a batch for every request: two that run
\* on beside a third can take its slot once more before it writes.
QuotaHeld ==
    Cardinality(Active \ unchecked)
        <= ShareLimit + IF alone THEN 0 ELSE Cardinality(Requests) * MaxBatch

CodeOwed(s) ==
    \/ s \in lost
    \/ \E p \in Requests : s \in req[p].todo /\ req[p].step \notin {"count", "decide"}

\* What the comment at SyncPickupCodeLive says: a share that is worth a code has
\* one, unless a request that changes it is still to put it right, or failed to.
UsableIsLive == \A s \in Shares : Usable(s) /\ ~share[s].live => CodeOwed(s)

\* It has, as long as no two requests ran side by side.
UsableIsLiveAlone == alone => UsableIsLive

\* A code that opens a share opens it for as long as the share is not closed:
\* nothing takes it away or replaces it meanwhile.
CodeKept ==
    [][alone' => \A s \in Shares :
          Usable(s) /\ share[s].live /\ Usable(s)' =>
              share[s].live' /\ share'[s].code = share[s].code]_vars

\* While a share is deleted it takes no code, whatever SyncPickupCodeLive read of
\* it before: the code it gave up is another's.
DeletedTakesNoCode ==
    [][\A s \in Shares : share[s].deleted /\ share'[s].deleted /\ share'[s].live =>
          share[s].live /\ share'[s].code = share[s].code]_vars

\* The code of a dead share returns to the pool.
DeadCodesReleased == \A s \in Shares : s \in Dead ~> s \notin Dead

\* What admin/repo.go and the request of the handler say of an unblock: it undoes
\* the deletion of a share.
UnblockUndoesDeletion ==
    [][\A s \in Shares, p \in Requests :
          AdminUpdateShare(p, s, "unblock") \/ AdminUpdateRefused(s, "unblock")
              => ~share'[s].deleted]_vars
=============================================================================
