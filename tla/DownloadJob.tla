---------------------------- MODULE DownloadJob ----------------------------
(***************************************************************************)
(* Download jobs of one share: a job is created for the files a visitor      *)
(* sees, takes a place within the share's limits when its first file is      *)
(* asked for, records the ranges that were sent, and is counted when every   *)
(* file is covered.  The owner and administrators edit the share meanwhile,  *)
(* files are replaced and restricted, jobs expire and are cleaned up.        *)
(*                                                                         *)
(* A request is one action per transaction.  RecordDownloadRange is two,     *)
(* since NOW() is the time its transaction began: the job may expire, and    *)
(* its place be given away, before the transaction ends.                     *)
(***************************************************************************)
EXTENDS Integers, FiniteSets, FiniteSetsExt

CONSTANTS
    Jobs,        \* share_download_jobs.id (never reused)
    Files,       \* the files below the share
    Requests,    \* request slots
    NoJob, NoFile,
    Sizes,       \* contents a file may have, by size
    Limits,      \* download_limit; NULL is any limit above the number of jobs
    ByteLimits,  \* traffic_limit_bytes
    MaxEdits     \* bound: how often share and files are edited

MaxSize == CHOOSE n \in Sizes : \A m \in Sizes : m <= n
Bytes == 0..(MaxSize - 1)

ASSUME DownloadJobAssumption ==
    /\ IsFiniteSet(Jobs) /\ NoJob \notin Jobs
    /\ IsFiniteSet(Files) /\ NoFile \notin Files
    /\ Sizes \subseteq Nat /\ \E n \in Sizes : \A m \in Sizes : m <= n
    /\ Limits \subseteq Nat /\ Limits # {}
    /\ ByteLimits \subseteq Nat /\ ByteLimits # {}
    /\ MaxEdits \in Nat

VARIABLES
    share,       \* "open", "stopped" (disabled or expired), "banned" (blocked or
                 \* deleted) or "removed" (the row is gone)
    limit,       \* download_limit and traffic_limit_bytes
    most,        \* history: the highest limits there have been
    count,       \* download_count
    traffic,     \* traffic_used_bytes
    job,         \* the rows of share_download_jobs with their files,
    total,       \* total_bytes,
    ranges,      \* and share_download_job_ranges, by job and file
    told,        \* history: the bytes recorded as sent, by job and file
    counted,     \* history: the jobs that were counted,
    late,        \* and those of them that had expired by then
    size,        \* resources.size_bytes
    shown,       \* the files that may be delivered
    req,         \* the requests in progress
    edits        \* edits made so far (bounded by MaxEdits)

shareVars == <<share, limit, most>>
usage == <<count, traffic, counted, late>>
progress == <<total, ranges, told>>
content == <<size, shown, edits>>
vars == <<shareVars, usage, job, progress, content, req>>

Job == [state: {"none", "created", "reserved", "completed", "deleted"},
        expired: BOOLEAN, files: SUBSET Files]

Request == [step: {"idle", "claimed", "serving", "sent", "recording"},
            job: Jobs \cup {NoJob}, file: Files \cup {NoFile},
            size: Nat, from: Nat, to: Int]

Nothing == [f \in Files |-> {}]
Row(st, fs) == [state |-> st, expired |-> FALSE, files |-> fs]
Slot(step, j, f, n, a, b) ==
    [step |-> step, job |-> j, file |-> f, size |-> n, from |-> a, to |-> b]
Idle == Slot("idle", NoJob, NoFile, 0, 0, 0)

Init ==
    /\ share = "open"
    /\ limit \in [n: Limits, bytes: ByteLimits] /\ most = limit
    /\ count = 0 /\ traffic = 0 /\ counted = {} /\ late = {}
    /\ job = [j \in Jobs |-> Row("none", {})]
    /\ total = [j \in Jobs |-> 0]
    /\ ranges = [j \in Jobs |-> Nothing] /\ told = [j \in Jobs |-> Nothing]
    /\ size \in [Files -> Sizes] /\ shown \in SUBSET Files
    /\ req = [p \in Requests |-> Idle]
    /\ edits \in 0..MaxEdits

-----------------------------------------------------------------------------
InTable(j) == job[j].state \in {"created", "reserved", "completed"}
Live(j) == InTable(j) /\ ~job[j].expired

\* A job whose row a RecordDownloadRange holds FOR UPDATE.
Locked(j) == \E p \in Requests : req[p].step = "recording" /\ req[p].job = j

\* Jobs that hold a place: reserved, not completed, not expired.
Pending == {j \in Jobs : job[j].state = "reserved" /\ ~job[j].expired}

\* The sum of n over S, as the number of units there are.
Weight(S, n) == Cardinality(UNION {{x} \X (1..n[x]) : x \in S})

Total(js) == Weight(js, total)

Free(p) == req[p].step = "idle"
Goto(p, step) == req' = [req EXCEPT ![p].step = step]
Finish(p) == req' = [req EXCEPT ![p] = Idle]
My(p) == req[p].job

\* The visitor goes away, or a statement of the handler fails.
Abandon(p) ==
    /\ ~Free(p) /\ Finish(p)
    /\ UNCHANGED <<shareVars, usage, job, progress, content>>

-----------------------------------------------------------------------------
(* The life of a job.                                                      *)

\* The job is for the files that may be delivered now; its total is fixed.
CreateDownloadJob(j) ==
    /\ share = "open" /\ job[j].state = "none" /\ shown # {}
    /\ job' = [job EXCEPT ![j] = Row("created", shown)]
    /\ total' = [total EXCEPT ![j] = Weight(shown, size)]
    /\ UNCHANGED <<shareVars, usage, ranges, told, content, req>>

\* A file is asked for.  Disabling the share does not stop jobs that exist.
ClaimDownloadJobFile(p, j, f) ==
    /\ Free(p) /\ Live(j) /\ f \in job[j].files /\ f \in shown
    /\ share \in {"open", "stopped"}
    /\ req' = [req EXCEPT ![p] = Slot("claimed", j, f, size[f], 0, 0)]
    /\ UNCHANGED <<shareVars, usage, job, progress, content>>

\* Mutant of HasPlace: places taken by other jobs in progress are not counted.
HasPlaceUncounted(j) ==
    /\ share = "open"
    /\ count + 1 <= limit.n
    /\ traffic + Total(Pending) + total[j] <= limit.bytes

\* Mutant of HasPlace: nor are the bytes they will send.
HasPlaceBytes(j) ==
    /\ share = "open"
    /\ count + Cardinality(Pending) + 1 <= limit.n
    /\ traffic + total[j] <= limit.bytes

HasPlace(j) ==
    /\ share = "open"
    /\ count + Cardinality(Pending) + 1 <= limit.n
    /\ traffic + Total(Pending) + total[j] <= limit.bytes

\* Mutant of ReserveDownloadJob: reserved_at is not looked at first.
ReserveAgain(p) ==
    /\ req[p].step = "claimed" /\ ~Locked(My(p))
    /\ IF Live(My(p)) /\ HasPlace(My(p))
       THEN /\ job' = [job EXCEPT ![My(p)].state = "reserved"]
            /\ Goto(p, "serving")
       ELSE Finish(p) /\ UNCHANGED job
    /\ UNCHANGED <<shareVars, usage, progress, content>>

\* The share row is locked before the places are counted, so that reservations
\* of one share follow one another.
ReserveDownloadJob(p) ==
    /\ req[p].step = "claimed" /\ ~Locked(My(p))
    /\ IF Live(My(p)) /\ (job[My(p)].state # "created" \/ HasPlace(My(p)))
       THEN /\ job' = [job EXCEPT ![My(p)].state =
                          IF @ = "created" THEN "reserved" ELSE @]
            /\ Goto(p, "serving")
       ELSE Finish(p) /\ UNCHANGED job
    /\ UNCHANGED <<shareVars, usage, progress, content>>

\* Mutant of Send: the end of the range is taken to be exclusive.
SendExclusive(p, a, b) ==
    req' = [req EXCEPT ![p] = Slot("sent", @.job, @.file, @.size, a, b + 1)]

Send(p, a, b) ==
    req' = [req EXCEPT ![p] = Slot("sent", @.job, @.file, @.size, a, b)]

\* The range asked for was written to the visitor in full.
ServeStream(p) ==
    /\ req[p].step = "serving"
    /\ \/ req[p].size = 0 /\ Send(p, 0, -1)
       \/ \E a, b \in 0..(req[p].size - 1) : a <= b /\ Send(p, a, b)
    /\ UNCHANGED <<shareVars, usage, job, progress, content>>

\* A redirect: the address of a part is handed out.  It should settle the file,
\* but the UPDATE names used_at, which 019.sql dropped from the table: it fails,
\* the failure is logged, and no range is recorded.
ConsumeJobFileOnce(p) ==
    /\ req[p].step = "serving" /\ Finish(p)
    /\ UNCHANGED <<shareVars, usage, job, progress, content>>

-----------------------------------------------------------------------------
(* Recording what was sent.                                                *)

\* Ranges of R that overlap a..b or lie next to it.
Touching(R, a, b) == {r \in R : r[1] <= b + 1 /\ r[2] + 1 >= a}

\* Mutant of Merged: the rows are deleted by the bounds of the new range alone,
\* one that only touches it stays.
MergedOverlap(R, a, b) ==
    LET T == Touching(R, a, b)
    IN  (R \ {r \in T : r[1] <= b /\ r[2] >= a})
            \cup {<<Min({a} \cup {r[1] : r \in T}), Max({b} \cup {r[2] : r \in T})>>}

Merged(R, a, b) ==
    LET T == Touching(R, a, b)
    IN  (R \ T) \cup {<<Min({a} \cup {r[1] : r \in T}), Max({b} \cup {r[2] : r \in T})>>}

\* Mutant of Covered: the bytes are added up, gaps or not.
CoveredSum(R) == MapThenSumSet(LAMBDA r : r[2] - r[1] + 1, R)

\* The scan of the ranges by where they begin: how many bytes from 0 on have no
\* gap, after one range more.
LastRange(R) == CHOOSE r \in R : \A s \in R : s[1] <= r[1]
Extended(r, c) == IF r[1] <= c /\ r[2] + 1 > c THEN r[2] + 1 ELSE c
Covered(R) == MapThenFoldSet(Extended, 0, LAMBDA r : r, LastRange, R)

\* Mutant of BeginRecord: a job that is completed is recorded again.
BeginRecordAgain(p) ==
    /\ req[p].step = "sent" /\ ~Locked(My(p))
    /\ IF Live(My(p)) /\ job[My(p)].state \in {"reserved", "completed"}
       THEN Goto(p, "recording")
       ELSE Finish(p)
    /\ UNCHANGED <<shareVars, usage, job, progress, content>>

\* NOW() is fixed here; the row of the job is locked until the end.
BeginRecord(p) ==
    /\ req[p].step = "sent" /\ ~Locked(My(p))
    /\ IF Live(My(p)) /\ job[My(p)].state = "reserved"
       THEN Goto(p, "recording")
       ELSE Finish(p)
    /\ UNCHANGED <<shareVars, usage, job, progress, content>>

NewRanges(p) ==
    LET f == req[p].file
    IN  IF req[p].to < req[p].from THEN ranges[My(p)]
        ELSE [ranges[My(p)] EXCEPT ![f] = Merged(@, req[p].from, req[p].to)]

\* Every file of the job, by the size it has now, has no gap from 0 on.
Whole(j, R) == \A f \in job[j].files : Covered(R[f]) >= size[f]

Tell(p) == told' = [told EXCEPT ![My(p)][req[p].file] =
                       @ \cup (req[p].from..req[p].to)]

\* Not everything has been sent: the range is kept.
KeepRange(p) ==
    LET j == My(p)
    IN  /\ req[p].step = "recording" /\ ~Whole(j, NewRanges(p))
        /\ ranges' = [ranges EXCEPT ![j] = NewRanges(p)]
        /\ Tell(p) /\ Finish(p)
        /\ UNCHANGED <<shareVars, usage, job, total, content>>

\* Everything has been sent: the job is counted, in the same transaction.
CompleteJob(p) ==
    LET j == My(p)
    IN  /\ req[p].step = "recording" /\ Whole(j, NewRanges(p)) /\ share = "open"
        /\ ranges' = [ranges EXCEPT ![j] = NewRanges(p)]
        /\ job' = [job EXCEPT ![j].state = "completed"]
        /\ count' = count + 1 /\ traffic' = traffic + total[j]
        /\ counted' = counted \cup {j}
        /\ late' = IF job[j].expired THEN late \cup {j} ELSE late
        /\ Tell(p) /\ Finish(p)
        /\ UNCHANGED <<shareVars, total, content>>

\* ... unless the share was closed: the last range is rolled back with it.
RefuseCount(p) ==
    /\ req[p].step = "recording" /\ Whole(My(p), NewRanges(p)) /\ share # "open"
    /\ Finish(p)
    /\ UNCHANGED <<shareVars, usage, job, progress, content>>

-----------------------------------------------------------------------------
(* Time, the clean-up, and the edits of owners and administrators.         *)

Expire(j) ==
    /\ Live(j) /\ job' = [job EXCEPT ![j].expired = TRUE]
    /\ UNCHANGED <<shareVars, usage, progress, content, req>>

\* Rows are deleted, with their files and ranges.
Delete(js) ==
    /\ job' = [j \in Jobs |-> IF j \in js THEN Row("deleted", {})
                               ELSE job[j]]
    /\ total' = [j \in Jobs |-> IF j \in js THEN 0 ELSE total[j]]
    /\ ranges' = [j \in Jobs |-> IF j \in js THEN Nothing ELSE ranges[j]]
    /\ told' = [j \in Jobs |-> IF j \in js THEN Nothing ELSE told[j]]

\* Every minute; the DELETE waits for a row that is locked.
CleanUp ==
    LET old == {j \in Jobs : InTable(j) /\ job[j].expired}
    IN  /\ old # {} /\ \A j \in old : ~Locked(j)
        /\ Delete(old)
        /\ UNCHANGED <<shareVars, usage, content, req>>

Edit == edits < MaxEdits /\ edits' = edits + 1

\* Disabled, expired or extended, blocked, softly deleted, reviewed.
SetShare(st) ==
    /\ Edit /\ share \notin {st, "removed"} /\ share' = st
    /\ UNCHANGED <<limit, most, usage, job, progress, size, shown, req>>

\* The owner deletes the row: jobs go with it.
RemoveShare ==
    /\ Edit /\ share \notin {"banned", "removed"} /\ share' = "removed"
    /\ \A j \in Jobs : ~Locked(j)
    /\ Delete({j \in Jobs : InTable(j)})
    /\ UNCHANGED <<limit, most, usage, size, shown, req>>

UpdateShareByOwner(n, b) ==
    /\ Edit /\ share \in {"open", "stopped"} /\ limit # [n |-> n, bytes |-> b]
    /\ limit' = [n |-> n, bytes |-> b]
    /\ most' = [n |-> Max({most.n, n}), bytes |-> Max({most.bytes, b})]
    /\ UNCHANGED <<share, usage, job, progress, size, shown, req>>

\* An upload replaces the content of a file.
ReplaceFile(f, s) ==
    /\ Edit /\ size[f] # s /\ size' = [size EXCEPT ![f] = s]
    /\ UNCHANGED <<shareVars, usage, job, progress, shown, req>>

\* A file goes to the trash, is blocked or sent to review, or comes back.
ShowFile(f) ==
    /\ Edit /\ shown' = (shown \ {f}) \cup ({f} \ shown)
    /\ UNCHANGED <<shareVars, usage, job, progress, size, req>>

RequestStep(p) ==
    \/ \E j \in Jobs, f \in Files : ClaimDownloadJobFile(p, j, f)
    \/ ReserveDownloadJob(p) \/ ServeStream(p) \/ ConsumeJobFileOnce(p)
    \/ BeginRecord(p) \/ KeepRange(p) \/ CompleteJob(p) \/ RefuseCount(p)
    \/ Abandon(p)

OwnerStep ==
    \/ \E st \in {"open", "stopped", "banned"} : SetShare(st)
    \/ RemoveShare
    \/ \E n \in Limits, b \in ByteLimits : UpdateShareByOwner(n, b)
    \/ \E f \in Files : ShowFile(f) \/ \E s \in Sizes : ReplaceFile(f, s)

Next ==
    \/ \E p \in Requests : RequestStep(p)
    \/ \E j \in Jobs : CreateDownloadJob(j) \/ Expire(j)
    \/ CleanUp \/ OwnerStep

Spec == Init /\ [][Next]_vars

-----------------------------------------------------------------------------
TypeOK ==
    /\ share \in {"open", "stopped", "banned", "removed"}
    /\ limit \in [n: Limits, bytes: ByteLimits] /\ most \in [n: Limits, bytes: ByteLimits]
    /\ count \in Nat /\ traffic \in Nat
    /\ counted \subseteq Jobs /\ late \subseteq counted
    /\ job \in [Jobs -> Job]
    /\ total \in [Jobs -> Nat]
    /\ ranges \in [Jobs -> [Files -> SUBSET (Bytes \X Bytes)]]
    /\ told \in [Jobs -> [Files -> SUBSET Bytes]]
    /\ size \in [Files -> Sizes] /\ shown \subseteq Files
    /\ req \in [Requests -> Request]
    /\ edits \in 0..MaxEdits

\* The downloads counted and those under way never need more places than the
\* owner ever allowed, but for jobs that ran out of time inside the transaction
\* that counted them.
WithinLimit == count + Cardinality(Pending) <= most.n + Cardinality(late)

\* The same for the bytes the share may send.  A total is fixed when its job is
\* created, so that replaced files cannot change what was reserved.
WithinTraffic == late = {} => traffic + Total(Pending) <= most.bytes

\* download_count is the number of jobs that were completed: however often a
\* range is sent again or a request repeated, a job is counted once, and a job
\* that still holds its place has not been counted.
CountedOnce ==
    /\ count = Cardinality(counted)
    /\ \A j \in Jobs : /\ job[j].state = "completed" => j \in counted
                       /\ j \in counted => job[j].state \in {"completed", "deleted"}

\* The rows of share_download_job_ranges are exactly the bytes recorded so far,
\* and there is one row for each run of them: no two overlap or are adjacent.
RangesExact ==
    \A j \in Jobs, f \in Files :
        LET R == ranges[j][f]
        IN  /\ told[j][f] = UNION {r[1]..r[2] : r \in R}
            /\ \A r, s \in R : r # s => r[2] + 1 < s[1] \/ s[2] + 1 < r[1]

\* A job is counted only in a step after which every byte of every file of it,
\* at the size the files have then, has been recorded as sent.
CountedWhole ==
    [][\A j \in counted' \ counted, f \in Files :
           f \in job[j].files => 0..(size[f] - 1) \subseteq told'[j][f]]_vars

\* What the comment at serveShareJobFilePart says: a redirect settles the file it
\* was asked for as delivered whole, as long as its job may still be recorded.
RedirectSettles ==
    [][\A p \in Requests : ConsumeJobFileOnce(p) /\ Live(My(p)) =>
          0..(req[p].size - 1) \subseteq told'[My(p)][req[p].file]]_vars

\* The limit as a visitor may rely on it: each job takes a place while there is
\* one, and leaves it once, counted or lapsed.
T == INSTANCE Tickets WITH limit <- limit.n, held <- Pending, used <- counted
ImplementsTickets == T!Spec
=============================================================================
