----------------------------- MODULE DirectLink -----------------------------
(***************************************************************************)
(* The direct links of one owner, one for each of some files, and the daily  *)
(* download quota of one downloader (a user or an address).  A download      *)
(* checks the limit of the link and the quota in statements of their own,    *)
(* sends the file, and then records both; a planned download records when it *)
(* is planned.  The owner creates, edits and switches links, an              *)
(* administrator disposes of files, files go to the trash and come back.     *)
(*                                                                         *)
(* Every statement of a handler is a step.  All files have one size: the     *)
(* traffic limits are the limits on the number, in another unit.             *)
(***************************************************************************)
EXTENDS Integers, FiniteSets

CONSTANTS
    Links,       \* direct_links.id, each with a file of its own
    NoLink,      \* no link: a planned download
    Requests,    \* request slots
    Limits,      \* the download_limit values that owners choose
    DayLimit,    \* daily_download_count_limit of the downloader
    ActiveLimit, \* active_direct_link_limit of the owner
    MaxBatch,    \* links of one batch (500 in the code)
    MaxRequests  \* bound: requests made

ASSUME DirectLinkAssumption ==
    /\ IsFiniteSet(Links) /\ NoLink \notin Links
    /\ IsFiniteSet(Requests) /\ Requests # {}
    /\ Limits \subseteq Nat /\ Limits # {}
    /\ DayLimit \in Nat \ {0} /\ ActiveLimit \in Nat
    /\ MaxBatch \in Nat \ {0} /\ MaxRequests \in Nat

VARIABLES
    link,      \* the rows of direct_links
    file,      \* their files: in the trash, blocked, approved
    usage,     \* download_usage_events of the downloader since midnight
    req,       \* the requests in progress
    made,      \* requests made so far (bounded by MaxRequests)
    top,       \* history: the highest limit that each link has had,
    served,    \* the complete downloads of each link, and of those
    missed,    \* the ones that its count does not show;
    taken,     \* the downloads handed out since midnight, and of those
    unpaid,    \* the ones that were not recorded;
    unchecked, \* links that became active without a count against the quota;
    undone,    \* links whose file an administrator failed to dispose of;
    alone      \* and whether a request ever began while another was in progress

data == <<link, file, usage>>
history == <<top, served, missed, taken, unpaid, unchecked, undone>>
vars == <<data, req, made, history, alone>>

Link == [born: BOOLEAN, row: BOOLEAN, active: BOOLEAN, expired: BOOLEAN, blocked: BOOLEAN,
         limit: Limits, count: Nat]
File == [trashed: BOOLEAN, blocked: BOOLEAN, approved: BOOLEAN]

\* What a request does next: "insert" a link or "write" a batch; "row", "quota",
\* "send", "record" and "complete" a download; "flag" and "review" a disposition.
Request == [step: {"idle", "insert", "write", "row", "quota", "send", "record",
                   "complete", "flag", "review"},
            arg: {"", "exempt", "enable", "disable", "delete", "approved", "rejected", "blocked"},
            on: SUBSET (Links \cup {NoLink})]

Slot(step, arg, ls) == [step |-> step, arg |-> arg, on |-> ls]
Idle == Slot("idle", "", {})

NoRow(n) == [born |-> FALSE, row |-> FALSE, active |-> FALSE, expired |-> FALSE, blocked |-> FALSE,
             limit |-> n, count |-> 0]
NewLink(n) == [NoRow(n) EXCEPT !.born = TRUE, !.row = TRUE, !.active = TRUE]
GoodFile == [trashed |-> FALSE, blocked |-> FALSE, approved |-> TRUE]

\* The links that count against the owner's quota.
Active == {l \in Links : /\ link[l].row /\ link[l].active /\ ~link[l].expired
                         /\ ~file[l].trashed}

Init ==
    /\ link \in [Links -> {NoRow(n) : n \in Limits} \cup {NewLink(n) : n \in Limits}]
    /\ file = [l \in Links |-> GoodFile] /\ usage = 0
    /\ Cardinality(Active) <= ActiveLimit
    /\ req = [p \in Requests |-> Idle] /\ made = 0
    /\ top = [l \in Links |-> link[l].limit]
    /\ served = [l \in Links |-> 0] /\ missed = [l \in Links |-> 0]
    /\ taken = 0 /\ unpaid = 0
    /\ unchecked = {} /\ undone = {} /\ alone = TRUE

Free(p) == req[p].step = "idle"
At(p, step) == req[p].step = step
Become(p, r) == req' = [req EXCEPT ![p] = r] /\ UNCHANGED <<made, alone>>

\* A request arrives: one more that is made, and alone or not.
Arrive ==
    /\ made < MaxRequests /\ made' = made + 1
    /\ alone' = (alone /\ \A q \in Requests : Free(q))
Start(p, r) == Free(p) /\ Arrive /\ req' = [req EXCEPT ![p] = r]
AtOnce == Arrive /\ UNCHANGED req

\* Links that are active after the step, and were neither before nor counted.
Tally(counted) ==
    /\ unchecked' = (unchecked \cup (Active' \ (Active \cup counted))) \cap Active'
    /\ UNCHANGED <<served, missed, taken, unpaid>>

-----------------------------------------------------------------------------
(* A direct download.                                                      *)

\* GetDirectLinkByToken first asks whether the link is blocked ...
OpenLink(p, l) ==
    /\ link[l].row /\ ~link[l].blocked
    /\ Start(p, Slot("row", "", {l}))
    /\ UNCHANGED <<data, history>>

\* The row that was read allows one more download.
WithinLinkLimit(l) == link[l].count < link[l].limit

\* ... and then reads the row, from which the handler decides.
ReadLink(p) ==
    \E l \in req[p].on :
        /\ At(p, "row")
        /\ Become(p, IF l \in Active /\ WithinLinkLimit(l)
                     THEN [req[p] EXCEPT !.step = "quota"] ELSE Idle)
        /\ UNCHANGED <<data, history>>

\* Mutant of CheckDownloadQuota: one too many.
CheckDownloadQuotaInclusive == usage <= DayLimit

CheckDownloadQuota == usage < DayLimit

\* The file may go out and the downloader has quota left.
Deliverable(l) == ~file[l].trashed /\ ~file[l].blocked /\ file[l].approved

\* resolveDownloadSubject: a user whose quota cannot be read is exempt, for this
\* download, from the check and from the record.
CheckDirect(p, exempt) ==
    \E l \in req[p].on :
        /\ At(p, "quota")
        /\ Become(p, IF Deliverable(l) /\ (exempt \/ CheckDownloadQuota)
                     THEN Slot("send", IF exempt THEN "exempt" ELSE "", req[p].on) ELSE Idle)
        /\ UNCHANGED <<data, history>>

Exempt(p) == req[p].arg = "exempt"

\* The whole file has been sent; a part of it ends in Abandon.
SendWhole(p) ==
    \E l \in req[p].on :
        /\ At(p, "send") /\ l # NoLink
        /\ Become(p, [req[p] EXCEPT !.step = IF Exempt(p) THEN "complete" ELSE "record"])
        /\ served' = [served EXCEPT ![l] = @ + 1] /\ taken' = taken + 1
        /\ unpaid' = IF Exempt(p) THEN unpaid + 1 ELSE unpaid
        /\ UNCHANGED <<data, top, missed, unchecked, undone>>

\* guardPlannedDownload: the check; what it allows is handed out when recorded.
GuardPlannedDownload(p) ==
    CheckDownloadQuota /\ Start(p, Slot("record", "", {NoLink}))

\* A user asks for a plan of files of his own; reading them changes nothing, and
\* the quota comes last.
PlanDownload(p) == GuardPlannedDownload(p) /\ UNCHANGED <<data, history>>

\* ... of which he is exempt.
PlanExempt ==
    /\ AtOnce /\ taken' = taken + 1 /\ unpaid' = unpaid + 1
    /\ UNCHANGED <<data, top, served, missed, unchecked, undone>>

\* The event is written, or the failure is logged; the download goes on.
RecordDownloadUsage(p, ok) ==
    /\ At(p, "record")
    /\ usage' = IF ok THEN usage + 1 ELSE usage
    /\ unpaid' = IF ok THEN unpaid ELSE unpaid + 1
    /\ IF NoLink \in req[p].on
       THEN Become(p, Idle) /\ taken' = taken + 1
       ELSE Become(p, [req[p] EXCEPT !.step = "complete"]) /\ UNCHANGED taken
    /\ UNCHANGED <<link, file, top, served, missed, unchecked, undone>>

\* Mutant of Completes: the limit was checked when the download began.
CompletesUnchecked(l) == link[l].row /\ link[l].active /\ ~link[l].expired

\* The WHERE clause of CompleteDirectDownload; a block does not matter here.
Completes(l) ==
    /\ link[l].row /\ link[l].active /\ ~link[l].expired
    /\ link[l].count + 1 <= link[l].limit

CompleteDirectDownload(p) ==
    \E l \in req[p].on :
        /\ At(p, "complete") /\ Become(p, Idle)
        /\ link' = IF Completes(l) THEN [link EXCEPT ![l].count = @ + 1] ELSE link
        /\ missed' = IF Completes(l) THEN missed ELSE [missed EXCEPT ![l] = @ + 1]
        /\ UNCHANGED <<file, usage, top, served, taken, unpaid, unchecked, undone>>

\* At midnight the quota begins again.
NewDay ==
    /\ usage + taken > 0 /\ usage' = 0 /\ taken' = 0 /\ unpaid' = 0
    /\ UNCHANGED <<link, file, req, made, top, served, missed, unchecked, undone, alone>>

-----------------------------------------------------------------------------
(* The owner.                                                              *)

\* Mutant of WithinActiveDirectQuota: one too many.
WithinActiveDirectQuotaInclusive(n) == Cardinality(Active) + n <= ActiveLimit + 1

\* There is room for n more active links.
WithinActiveDirectQuota(n) == Cardinality(Active) + n <= ActiveLimit

CheckCreate(p, l) ==
    /\ ~link[l].born /\ ~file[l].trashed /\ file[l].approved
    /\ WithinActiveDirectQuota(1) /\ Start(p, Slot("insert", "", {l}))
    /\ UNCHANGED <<data, history>>

CreateDirectLink(p, n) ==
    \E l \in req[p].on :
        /\ At(p, "insert") /\ ~link[l].born /\ Become(p, Idle)
        /\ link' = [link EXCEPT ![l] = NewLink(n)]
        /\ top' = [top EXCEPT ![l] = n]
        /\ served' = [served EXCEPT ![l] = 0] /\ missed' = [missed EXCEPT ![l] = 0]
        /\ UNCHANGED <<file, usage, taken, unpaid, undone>>
        /\ unchecked' = (unchecked \cup (Active' \ (Active \cup {l}))) \cap Active'

\* A new limit, higher or lower, and a new expiry; neither is counted.
UpdateDirectLink(l, n, extend) ==
    /\ link[l].row /\ AtOnce
    /\ link' = [link EXCEPT ![l].limit = n, ![l].expired = @ /\ ~extend]
    /\ top' = [top EXCEPT ![l] = IF n > @ THEN n ELSE @]
    /\ UNCHANGED <<file, usage, undone>> /\ Tally({})

\* Links that enabling the batch would make active.
ToEnable(ls) == {l \in ls : ~link[l].active /\ ~link[l].expired}

StartBatch(p, ls, action) ==
    /\ ls # {} /\ Cardinality(ls) <= MaxBatch
    /\ \A l \in ls : link[l].row
    /\ action = "enable" => WithinActiveDirectQuota(Cardinality(ToEnable(ls)))
    /\ Start(p, Slot("write", action, ls))
    /\ UNCHANGED <<data, history>>

\* batchLinksByOwner: nothing happens unless all of them are still there.
BatchDirectLinks(p) ==
    LET ls == req[p].on
        After(l) == IF req[p].arg = "delete" THEN [NoRow(link[l].limit) EXCEPT !.born = TRUE]
                    ELSE [link[l] EXCEPT !.active = req[p].arg = "enable"]
    IN  /\ At(p, "write") /\ Become(p, Idle)
        /\ link' = IF \A l \in ls : link[l].row
                   THEN [l \in Links |-> IF l \in ls THEN After(l) ELSE link[l]] ELSE link
        /\ UNCHANGED <<file, usage, top, undone>> /\ Tally(ls)

\* The file goes to the trash, or comes back.
TrashFile(l) ==
    /\ AtOnce /\ file' = [file EXCEPT ![l].trashed = ~@]
    /\ UNCHANGED <<link, usage, top, undone>> /\ Tally({})

Expire(l) ==
    /\ link[l].row /\ ~link[l].expired
    /\ link' = [link EXCEPT ![l].expired = TRUE]
    /\ UNCHANGED <<file, usage, req, made, top, undone, alone>> /\ Tally({})

-----------------------------------------------------------------------------
(* An administrator disposes of a file.                                    *)

\* SetAdminDisposition writes the file: it is blocked, or it is not, be it
\* approved or rejected ...
DisposeFile(p, l, verdict) ==
    /\ Start(p, Slot("flag", verdict, {l}))
    /\ file' = [file EXCEPT ![l].blocked = verdict = "blocked"]
    /\ UNCHANGED <<link, usage, history>>

\* Mutant of Flagged: a file that is allowed again leaves its link blocked.
FlaggedOnly(l, verdict) ==
    [link EXCEPT ![l].blocked = @ \/ (link[l].row /\ verdict = "blocked")]

\* The links of the file are as blocked as the file was made.
Flagged(l, verdict) == [link EXCEPT ![l].blocked = link[l].row /\ verdict = "blocked"]

\* ... then its links, in a statement of its own ...
FlagLinks(p) ==
    \E l \in req[p].on :
        /\ At(p, "flag") /\ Become(p, [req[p] EXCEPT !.step = "review"])
        /\ link' = Flagged(l, req[p].arg)
        /\ UNCHANGED <<file, usage, top, undone>> /\ Tally({})

\* ... and the verdict comes last.
ReviewFile(p) ==
    \E l \in req[p].on :
        /\ At(p, "review") /\ Become(p, Idle)
        /\ file' = [file EXCEPT ![l].approved = req[p].arg = "approved"]
        /\ undone' = undone \ {l}
        /\ UNCHANGED <<link, usage, top>> /\ Tally({})

-----------------------------------------------------------------------------
\* The client goes away, a statement fails, or the process is killed.
Abandon(p) ==
    LET sent == At(p, "record") \/ At(p, "complete")
        gone(l) == sent /\ l \in req[p].on
    IN  /\ ~Free(p) /\ Become(p, Idle)
        /\ missed' = [l \in Links |-> IF gone(l) THEN missed[l] + 1 ELSE missed[l]]
        /\ unpaid' = IF At(p, "record") THEN unpaid + 1 ELSE unpaid
        /\ undone' = IF At(p, "flag") \/ At(p, "review") THEN undone \cup req[p].on ELSE undone
        /\ UNCHANGED <<data, top, served, taken, unchecked>>

NewRequest(p) ==
    \/ PlanDownload(p)
    \/ \E l \in Links : OpenLink(p, l) \/ CheckCreate(p, l)
    \/ \E ls \in SUBSET Links, action \in {"enable", "disable", "delete"} :
          StartBatch(p, ls, action)
    \/ \E l \in Links, verdict \in {"approved", "rejected", "blocked"} :
          DisposeFile(p, l, verdict)

RequestStep(p) ==
    \/ ReadLink(p) \/ SendWhole(p)
    \/ \E exempt \in BOOLEAN : CheckDirect(p, exempt)
    \/ \E ok \in BOOLEAN : RecordDownloadUsage(p, ok)
    \/ CompleteDirectDownload(p)
    \/ \E n \in Limits : CreateDirectLink(p, n)
    \/ BatchDirectLinks(p) \/ FlagLinks(p) \/ ReviewFile(p) \/ Abandon(p)

Next ==
    \/ \E p \in Requests : NewRequest(p) \/ RequestStep(p)
    \/ \E l \in Links : \/ \E n \in Limits, extend \in BOOLEAN : UpdateDirectLink(l, n, extend)
                        \/ TrashFile(l) \/ Expire(l)
    \/ PlanExempt \/ NewDay

Spec == Init /\ [][Next]_vars

-----------------------------------------------------------------------------
TypeOK ==
    /\ link \in [Links -> Link] /\ file \in [Links -> File] /\ usage \in Nat
    /\ req \in [Requests -> Request] /\ made \in 0..MaxRequests
    /\ top \in [Links -> Limits]
    /\ served \in [Links -> Nat] /\ missed \in [Links -> Nat]
    /\ taken \in Nat /\ unpaid \in Nat
    /\ unchecked \subseteq Active /\ undone \subseteq Links /\ alone \in BOOLEAN

\* Every check is made before what it allows is recorded: requests side by side
\* may all pass it, but no others.
Overshoot == IF alone THEN 0 ELSE Cardinality(Requests) - 1

\* A link counts no more downloads than it has ever been allowed, and no more
\* than that are served, but for those it could not count and those that were
\* side by side.
CountWithinLimit == \A l \in Links : link[l].count <= top[l]
ServedWithinLimit == \A l \in Links : served[l] <= top[l] + missed[l] + Overshoot
LinkWithinLimit == CountWithinLimit /\ ServedWithinLimit

\* No more is handed out in a day than the quota, but for what was not recorded,
\* because the record failed or the quota could not be read, and what was side by
\* side.
DayWithinQuota == taken <= DayLimit + unpaid + Overshoot

\* Of the links that became active by way of a count there are no more than the
\* quota, and if requests ran side by side, no more than a batch for each.
ActiveWithinQuota ==
    Cardinality(Active \ unchecked)
        <= ActiveLimit + IF alone THEN 0 ELSE Cardinality(Requests) * MaxBatch

\* A link is as blocked as its file, unless the disposition is not finished, or
\* failed half-way, or met another request.
BlockFollowsFile ==
    alone => \A l \in Links :
        \/ link[l].blocked = (link[l].row /\ file[l].blocked)
        \/ l \in undone
        \/ \E p \in Requests : l \in req[p].on /\ req[p].step \in {"flag", "review"}

\* What the comment in SetAdminDisposition says: when a file is blocked or freed
\* its links are with it; no disposition ends with one done and not the other.
BlockedTogether ==
    \A l \in Links :
        \/ link[l].blocked = (link[l].row /\ file[l].blocked)
        \/ \E p \in Requests : l \in req[p].on /\ req[p].step \in {"flag", "review"}
=============================================================================
