------------------------- MODULE DownloadJobProofs -------------------------
(***************************************************************************)
(* The limits of a share hold for any number of jobs, files, requests and   *)
(* edits: no more downloads are counted and under way than the owner ever   *)
(* allowed, and no more bytes; none is counted twice, the ranges that are   *)
(* kept are the bytes recorded, and the jobs implement Tickets.             *)
(*                                                                         *)
(* IInv is about places.  JInv, on top of it, is about bytes: sums of       *)
(* totals, and ranges that are merged.                                      *)
(***************************************************************************)
EXTENDS DownloadJob, FiniteSetTheorems, WellFoundedInduction, TLAPS

\* What the argument needs of the types; totals and ranges play no part in it.
Typing ==
    /\ job \in [Jobs -> Job] /\ req \in [Requests -> Request]
    /\ size \in [Files -> Sizes] /\ shown \subseteq Files
    /\ counted \subseteq Jobs /\ late \subseteq counted
    /\ \A p \in Requests : req[p].step # "idle" => req[p].job \in Jobs /\ req[p].file \in Files

LimitShape ==
    /\ limit \in [n: Limits, bytes: ByteLimits] /\ most \in [n: Limits, bytes: ByteLimits]
    /\ limit.n <= most.n

\* Whoever records a range holds the row of a reserved job, and holds it alone.
RowLocks ==
    \A p \in Requests : req[p].step = "recording" =>
        /\ job[req[p].job].state = "reserved"
        /\ \A q \in Requests : req[q].step = "recording" /\ req[q].job = req[p].job => q = p

IInv == Typing /\ LimitShape /\ RowLocks /\ CountedOnce /\ WithinLimit

-----------------------------------------------------------------------------
LEMMA MaxOfTwo ==
    ASSUME NEW S \in SUBSET Nat, NEW a \in S, NEW b \in S
    PROVE  Max({a, b}) \in S /\ Max({a, b}) >= a /\ Max({a, b}) >= b
<1>1. \E x \in {a, b} : \A y \in {a, b} : x >= y
  BY SMT
<1>2. Max({a, b}) \in {a, b} /\ \A y \in {a, b} : Max({a, b}) >= y
  BY <1>1 DEF Max
<1>3. QED
  BY <1>2

LEMMA PendingFinite ==
    IsFiniteSet(Pending) /\ Pending \subseteq Jobs /\ Cardinality(Pending) \in Nat
<1>1. Pending \subseteq Jobs
  BY DEF Pending
<1>2. QED
  BY <1>1, FS_Subset, FS_CardinalityType, DownloadJobAssumption

\* The numbers of an inductive state.
LEMMA Numbers ==
    ASSUME IInv
    PROVE  /\ IsFiniteSet(counted) /\ Cardinality(counted) \in Nat /\ count \in Nat
           /\ IsFiniteSet(late) /\ Cardinality(late) \in Nat
           /\ limit.n \in Nat /\ most.n \in Nat
<1>1. IsFiniteSet(counted) /\ IsFiniteSet(late)
  BY FS_Subset, DownloadJobAssumption DEF IInv, Typing
<1>2. Cardinality(counted) \in Nat /\ Cardinality(late) \in Nat
  BY <1>1, FS_CardinalityType
<1>3. limit.n \in Nat /\ most.n \in Nat
  BY DownloadJobAssumption DEF IInv, LimitShape
<1>4. QED
  BY <1>1, <1>2, <1>3 DEF IInv, CountedOnce

\* A step that counts nothing, takes no place, starts no recording and leaves
\* the rows that are locked alone keeps the invariant; places may lapse.
LEMMA QuietStep ==
    ASSUME IInv, Typing', UNCHANGED <<limit, most, usage>>,
           \A p \in Requests : req'[p].step = "recording" => req'[p] = req[p],
           \A j \in Jobs : Locked(j) => job'[j].state = job[j].state,
           \A j \in Jobs : job'[j].state # job[j].state =>
               /\ job[j].state # "deleted" /\ job'[j].state # "completed"
               /\ job[j].state = "completed" => job'[j].state = "deleted",
           Pending' \subseteq Pending
    PROVE  IInv' /\ [T!Next]_(T!vars)
<1>1. Cardinality(Pending') <= Cardinality(Pending) /\ Cardinality(Pending') \in Nat
  BY FS_Subset, FS_CardinalityType, PendingFinite
<1>2. WithinLimit'
  BY <1>1, Numbers, PendingFinite DEF IInv, WithinLimit, usage
<1>3. CountedOnce'
  BY Zenon DEF IInv, CountedOnce, usage
<1>4. RowLocks'
  BY DEF IInv, Typing, RowLocks, Locked
<1>5. T!Lapse
  BY DEF T!Lapse, usage
<1>6. QED
  BY <1>2, <1>3, <1>4, <1>5 DEF IInv, LimitShape, T!Next

\* ... and so does one that leaves the rows of the jobs alone.
LEMMA SlotStep ==
    ASSUME IInv, Typing', UNCHANGED <<limit, most, usage>>,
           \A p \in Requests : req'[p].step = "recording" => req'[p] = req[p],
           \A j \in Jobs : job'[j].state = job[j].state /\ job'[j].expired = job[j].expired
    PROVE  IInv' /\ [T!Next]_(T!vars)
<1>1. Pending' = Pending
  BY DEF Pending
<1>2. QED
  BY <1>1, QuietStep

-----------------------------------------------------------------------------
(* The steps of a request.                                                 *)

LEMMA Released ==
    ASSUME IInv, NEW p \in Requests, Finish(p)
    PROVE  /\ req' \in [Requests -> Request]
           /\ \A q \in Requests : req'[q] = IF q = p THEN Idle ELSE req[q]
           /\ Idle.step = "idle"
BY DEF IInv, Typing, Finish, Idle, Slot, Request

LEMMA ReleaseStep ==
    ASSUME IInv, NEW p \in Requests, Finish(p), UNCHANGED <<shareVars, usage, job, size, shown>>
    PROVE  IInv' /\ [T!Next]_(T!vars)
<1>1. Typing'
  BY Released DEF IInv, Typing, usage
<1>2. QED
  BY <1>1, Released, SlotStep DEF shareVars

LEMMA ClaimStep ==
    ASSUME IInv, NEW p \in Requests, NEW j \in Jobs, NEW f \in Files,
           ClaimDownloadJobFile(p, j, f)
    PROVE  IInv' /\ [T!Next]_(T!vars)
<1> DEFINE x == Slot("claimed", j, f, size[f], 0, 0)
<1>1. x \in Request /\ x.step = "claimed" /\ x.job = j /\ x.file = f
  <2>1. size[f] \in Nat
    BY DownloadJobAssumption DEF IInv, Typing
  <2>2. QED
    BY <2>1 DEF Slot, Request
<1>2. \A q \in Requests : req'[q] = IF q = p THEN x ELSE req[q]
  BY DEF ClaimDownloadJobFile, IInv, Typing
<1>3. req' \in [Requests -> Request]
  BY <1>1 DEF ClaimDownloadJobFile, IInv, Typing
<1> HIDE DEF x
<1>4. Typing'
  BY <1>1, <1>2, <1>3 DEF IInv, Typing, ClaimDownloadJobFile, usage, content
<1>5. QED
  BY <1>1, <1>2, <1>4, SlotStep DEF ClaimDownloadJobFile, shareVars

\* A slot that goes on with its job and file.
LEMMA Moved ==
    ASSUME IInv, NEW p \in Requests, ~Free(p),
           NEW s \in {"serving", "recording"}, Goto(p, s)
    PROVE  /\ req' \in [Requests -> Request]
           /\ req'[p].step = s /\ req'[p].job = req[p].job /\ req'[p].file = req[p].file
           /\ \A q \in Requests \ {p} : req'[q] = req[q]
           /\ req[p].job \in Jobs /\ req[p].file \in Files
BY DEF IInv, Typing, Goto, Free, Request

LEMMA Sent ==
    ASSUME IInv, NEW p \in Requests, ~Free(p), NEW a \in Nat, NEW b \in Int, Send(p, a, b)
    PROVE  /\ req' \in [Requests -> Request]
           /\ req'[p].step = "sent" /\ req'[p].job = req[p].job /\ req'[p].file = req[p].file
           /\ \A q \in Requests \ {p} : req'[q] = req[q]
           /\ req[p].job \in Jobs /\ req[p].file \in Files
BY DEF IInv, Typing, Send, Slot, Free, Request

LEMMA ServeStep ==
    ASSUME IInv, NEW p \in Requests, ServeStream(p)
    PROVE  IInv' /\ [T!Next]_(T!vars)
<1>1. ~Free(p) /\ \E a \in Nat, b \in Int : Send(p, a, b)
  BY DEF ServeStream, Free, IInv, Typing, Request
<1>2. PICK a \in Nat, b \in Int : Send(p, a, b)
  BY <1>1
<1>3. Typing'
  BY <1>1, <1>2, Sent DEF IInv, Typing, ServeStream, usage, content
<1>4. QED
  BY <1>1, <1>2, <1>3, Sent, SlotStep DEF ServeStream, shareVars

-----------------------------------------------------------------------------
(* Taking a place, and counting.                                           *)

\* A job of "created" takes a place if there is one.
LEMMA ReserveStep ==
    ASSUME IInv, NEW p \in Requests, ReserveDownloadJob(p)
    PROVE  IInv' /\ [T!Next]_(T!vars)
<1> DEFINE j == My(p)
<1>0. ~Free(p) /\ j \in Jobs
  BY DEF ReserveDownloadJob, Free, IInv, Typing, My
<1>1. CASE Finish(p) /\ UNCHANGED job
  BY <1>1, ReleaseStep DEF ReserveDownloadJob, content
<1>2. CASE /\ Live(j) /\ (job[j].state # "created" \/ HasPlace(j))
           /\ job' = [job EXCEPT ![j].state = IF @ = "created" THEN "reserved" ELSE @]
           /\ Goto(p, "serving")
  <2>1. /\ job' \in [Jobs -> Job]
        /\ \A k \in Jobs \ {j} : job'[k] = job[k]
        /\ job'[j].expired = job[j].expired
        /\ job'[j].state = IF job[j].state = "created" THEN "reserved" ELSE job[j].state
    BY <1>0, <1>2 DEF IInv, Typing, Job
  <2>2. Typing'
    BY <1>0, <1>2, <2>1, Moved DEF IInv, Typing, ReserveDownloadJob, usage, content
  <2>3. \A q \in Requests : req'[q].step = "recording" => req'[q] = req[q]
    BY <1>0, <1>2, Moved
  <2>4. CASE job[j].state # "created"
    <3>1. \A k \in Jobs : job'[k].state = job[k].state /\ job'[k].expired = job[k].expired
      BY <2>1, <2>4
    <3>2. QED
      BY <2>2, <2>3, <3>1, SlotStep DEF ReserveDownloadJob, shareVars
  <2>5. CASE job[j].state = "created"
    <3>1. HasPlace(j) /\ ~job[j].expired /\ j \notin Pending /\ j \notin counted
      BY <1>0, <1>2, <2>5 DEF Live, Pending, IInv, CountedOnce
    <3>2. Pending' = Pending \cup {j}
      BY <1>0, <2>1, <2>5, <3>1 DEF Pending
    <3>3. Cardinality(Pending') = Cardinality(Pending) + 1
      BY <3>1, <3>2, FS_AddElement, PendingFinite
    <3>4. count + Cardinality(Pending) + 1 <= limit.n
      BY <3>1 DEF HasPlace
    <3>5. WithinLimit'
      BY <3>3, <3>4, Numbers, PendingFinite DEF IInv, LimitShape, WithinLimit,
         ReserveDownloadJob, shareVars, usage
    <3>6. CountedOnce'
      BY <1>0, <2>1, <2>5 DEF IInv, CountedOnce, ReserveDownloadJob, usage
    <3>7. RowLocks'
      BY <1>0, <2>1, <2>3, <2>5 DEF IInv, Typing, RowLocks
    <3>8. T!Take(j)
      <4>1. Cardinality(counted) + Cardinality(Pending) + 1 <= limit.n
        BY <3>4 DEF IInv, CountedOnce
      <4>2. UNCHANGED <<limit, counted>>
        BY DEF ReserveDownloadJob, shareVars, usage
      <4>3. QED
        BY <3>1, <3>2, <4>1, <4>2 DEF T!Take, T!Cardinality, Cardinality
    <3>9. QED
      BY <1>0, <2>2, <3>5, <3>6, <3>7, <3>8 DEF T!Next, IInv, LimitShape,
         ReserveDownloadJob, shareVars
  <2>6. QED
    BY <2>4, <2>5
<1>3. QED
  BY <1>1, <1>2, Zenon DEF ReserveDownloadJob

\* The row is locked: it is reserved, and nobody else records for the job.
LEMMA BeginStep ==
    ASSUME IInv, NEW p \in Requests, BeginRecord(p)
    PROVE  IInv' /\ [T!Next]_(T!vars)
<1>1. CASE Finish(p)
  BY <1>1, ReleaseStep DEF BeginRecord, content
<1>2. CASE Live(My(p)) /\ job[My(p)].state = "reserved" /\ Goto(p, "recording")
  <2>1. ~Free(p)
    BY DEF BeginRecord, Free
  <2>2. Typing'
    BY <1>2, <2>1, Moved DEF IInv, Typing, BeginRecord, usage, content
  <2>3. RowLocks'
    BY <1>2, <2>1, Moved DEF IInv, RowLocks, BeginRecord, Locked, My
  <2>4. Pending' = Pending
    BY DEF BeginRecord, Pending
  <2>5. CountedOnce' /\ WithinLimit' /\ LimitShape'
    BY <2>4 DEF IInv, CountedOnce, WithinLimit, LimitShape, BeginRecord, shareVars, usage
  <2>6. T!Lapse
    BY <2>4 DEF T!Lapse, BeginRecord, shareVars, usage
  <2>7. QED
    BY <2>2, <2>3, <2>5, <2>6 DEF IInv, T!Next
<1>3. QED
  BY <1>1, <1>2, Zenon DEF BeginRecord

\* A job is counted: it leaves its place, or it had lost it and is late.
LEMMA CompleteStep ==
    ASSUME IInv, NEW p \in Requests, CompleteJob(p)
    PROVE  IInv' /\ [T!Next]_(T!vars)
<1> DEFINE j == My(p)
<1>1. ~Free(p) /\ j \in Jobs /\ job[j].state = "reserved" /\ j \notin counted
  BY DEF CompleteJob, Free, IInv, Typing, My, RowLocks, CountedOnce
<1>2. /\ job' \in [Jobs -> Job]
      /\ \A k \in Jobs \ {j} : job'[k] = job[k]
      /\ job'[j].expired = job[j].expired /\ job'[j].state = "completed"
  BY <1>1 DEF CompleteJob, IInv, Typing, Job
<1>3. counted' = counted \cup {j} /\ late' = IF job[j].expired THEN late \cup {j} ELSE late
  BY DEF CompleteJob
<1>4. Finish(p) /\ UNCHANGED <<share, limit, most, size, shown>> /\ count' = count + 1
  BY DEF CompleteJob, shareVars, content
<1>5. Typing'
  BY <1>1, <1>2, <1>3, <1>4, Released DEF IInv, Typing
<1>6. RowLocks'
  BY <1>1, <1>2, <1>4, Released DEF CompleteJob, IInv, Typing, RowLocks, My
<1>7. Cardinality(counted') = Cardinality(counted) + 1
  BY <1>1, <1>3, FS_AddElement, Numbers
<1>8. CountedOnce'
  BY <1>1, <1>2, <1>3, <1>4, <1>7 DEF IInv, CountedOnce
<1>9. Pending' = Pending \ {j} /\ (j \in Pending <=> ~job[j].expired)
  BY <1>1, <1>2 DEF Pending
<1>10. WithinLimit'
  <2>1. CASE job[j].expired
    <3>1. Pending' = Pending
      BY <1>9, <2>1
    <3>2. Cardinality(late') = Cardinality(late) + 1
      <4>1. j \notin late
        BY <1>1 DEF IInv, Typing
      <4>2. late' = late \cup {j}
        BY <1>3, <2>1
      <4>3. QED
        BY <4>1, <4>2, FS_AddElement, Numbers
    <3>3. QED
      BY <1>4, <3>1, <3>2, Numbers, PendingFinite DEF IInv, WithinLimit
  <2>2. CASE ~job[j].expired
    <3>1. Cardinality(Pending') = Cardinality(Pending) - 1
      BY <1>9, <2>2, FS_RemoveElement, PendingFinite
    <3>2. QED
      BY <1>3, <1>4, <2>2, <3>1, Numbers, PendingFinite DEF IInv, WithinLimit
  <2>3. QED
    BY <2>1, <2>2
<1>11. T!Use(j)
  BY <1>1, <1>3, <1>4, <1>9 DEF T!Use
<1>12. QED
  BY <1>1, <1>4, <1>5, <1>6, <1>8, <1>10, <1>11 DEF T!Next, IInv, LimitShape

LEMMA RequestKeeps ==
    ASSUME IInv, NEW p \in Requests, RequestStep(p)
    PROVE  IInv' /\ [T!Next]_(T!vars)
<1>1. CASE \E j \in Jobs, f \in Files : ClaimDownloadJobFile(p, j, f)
  BY <1>1, ClaimStep
<1>2. CASE ReserveDownloadJob(p)
  BY <1>2, ReserveStep
<1>3. CASE ServeStream(p)
  BY <1>3, ServeStep
<1>4. CASE ConsumeJobFileOnce(p)
  BY <1>4, ReleaseStep DEF ConsumeJobFileOnce, content
<1>5. CASE BeginRecord(p)
  BY <1>5, BeginStep
<1>6. CASE KeepRange(p)
  BY <1>6, ReleaseStep DEF KeepRange, content
<1>7. CASE CompleteJob(p)
  BY <1>7, CompleteStep
<1>8. CASE RefuseCount(p)
  BY <1>8, ReleaseStep DEF RefuseCount, content
<1>9. CASE Abandon(p)
  BY <1>9, ReleaseStep DEF Abandon, content
<1>10. QED
  BY <1>1, <1>2, <1>3, <1>4, <1>5, <1>6, <1>7, <1>8, <1>9 DEF RequestStep

-----------------------------------------------------------------------------
(* The clock, the clean-up, and the edits of the owner.                    *)

\* Rows are deleted: their places lapse, and no locked row is among them.
LEMMA DeleteStep ==
    ASSUME IInv, NEW js \in SUBSET Jobs, Delete(js),
           \A j \in js : InTable(j) /\ ~Locked(j),
           UNCHANGED <<limit, most, usage, size, shown, req>>
    PROVE  IInv' /\ [T!Next]_(T!vars)
<1>1. /\ job' \in [Jobs -> Job]
      /\ \A j \in js : job'[j].state = "deleted"
      /\ \A j \in Jobs \ js : job'[j] = job[j]
  BY DEF Delete, Row, IInv, Typing, Job
<1>2. Typing'
  BY <1>1 DEF IInv, Typing, usage
<1>3. Pending' \subseteq Pending
  BY <1>1 DEF Pending
<1>4. QED
  BY <1>1, <1>2, <1>3, QuietStep DEF InTable

LEMMA ClockStep ==
    ASSUME IInv, NEW j \in Jobs, CreateDownloadJob(j) \/ Expire(j)
    PROVE  IInv' /\ [T!Next]_(T!vars)
<1>1. CASE CreateDownloadJob(j)
  <2>1. /\ job' = [job EXCEPT ![j] = Row("created", shown)]
        /\ UNCHANGED <<limit, most, usage, size, shown, req>> /\ job[j].state = "none"
    BY <1>1 DEF CreateDownloadJob, shareVars, content
  <2>2. job'[j].state = "created" /\ \A k \in Jobs \ {j} : job'[k] = job[k]
    BY <2>1 DEF Row, IInv, Typing
  <2>3. Pending' = Pending /\ ~Locked(j)
    BY <2>1, <2>2 DEF Pending, Locked, IInv, RowLocks
  <2>4. Row("created", shown) \in Job
    BY DEF Row, Job, IInv, Typing
  <2>5. Typing'
    BY <2>1, <2>4 DEF IInv, Typing, usage
  <2>6. QED
    BY <2>1, <2>2, <2>3, <2>5, QuietStep
<1>2. CASE Expire(j)
  <2>1. /\ job' \in [Jobs -> Job]
        /\ \A k \in Jobs : job'[k].state = job[k].state
        /\ \A k \in Jobs : job[k].expired => job'[k].expired
        /\ UNCHANGED <<limit, most, usage, size, shown, req>>
    BY <1>2 DEF Expire, IInv, Typing, Job, shareVars, content
  <2>2. Typing' /\ Pending' \subseteq Pending
    BY <2>1 DEF IInv, Typing, Pending, usage
  <2>3. QED
    BY <2>1, <2>2, QuietStep
<1>3. QED
  BY <1>1, <1>2

LEMMA LimitStep ==
    ASSUME IInv, NEW n \in Limits, NEW b \in ByteLimits, UpdateShareByOwner(n, b)
    PROVE  IInv' /\ [T!Next]_(T!vars)
<1>1. /\ limit' = [n |-> n, bytes |-> b] /\ most'.n = Max({most.n, n})
      /\ most' = [n |-> Max({most.n, n}), bytes |-> Max({most.bytes, b})]
      /\ UNCHANGED <<usage, job, size, shown, req>>
  BY DEF UpdateShareByOwner
<1>2. most.n \in Limits /\ most.bytes \in ByteLimits
  BY DEF IInv, LimitShape
<1>3. Max({most.n, n}) \in Limits /\ Max({most.n, n}) >= n /\ Max({most.n, n}) >= most.n
  BY <1>2, MaxOfTwo, DownloadJobAssumption
<1>4. Max({most.bytes, b}) \in ByteLimits
  BY <1>2, MaxOfTwo, DownloadJobAssumption
<1>5. LimitShape'
  BY <1>1, <1>3, <1>4 DEF LimitShape
<1>6. Pending' = Pending
  BY <1>1 DEF Pending
<1>7. WithinLimit'
  <2>1. most'.n \in Nat /\ most'.n >= most.n
    BY <1>1, <1>3, DownloadJobAssumption
  <2>2. QED
    BY <1>1, <1>6, <2>1, Numbers, PendingFinite DEF IInv, WithinLimit, usage
<1>8. Typing' /\ RowLocks' /\ CountedOnce'
  BY <1>1 DEF IInv, Typing, RowLocks, CountedOnce, usage
<1>9. T!SetLimit
  BY <1>1, <1>6 DEF T!SetLimit, usage
<1>10. QED
  BY <1>5, <1>7, <1>8, <1>9 DEF IInv, T!Next

\* Steps that change neither the limits nor anything about the jobs.
LEMMA ShareStep ==
    ASSUME IInv, UNCHANGED <<limit, most, usage, job, req>>,
           size' \in [Files -> Sizes], shown' \subseteq Files
    PROVE  IInv' /\ [T!Next]_(T!vars)
<1>1. Typing'
  BY DEF IInv, Typing, usage
<1>2. QED
  BY <1>1, SlotStep

LEMMA OwnerKeeps ==
    ASSUME IInv, OwnerStep
    PROVE  IInv' /\ [T!Next]_(T!vars)
<1>1. CASE \E st \in {"open", "stopped", "banned"} : SetShare(st)
  BY <1>1, ShareStep DEF SetShare, IInv, Typing
<1>2. CASE RemoveShare
  <2>1. {j \in Jobs : InTable(j)} \in SUBSET Jobs
    OBVIOUS
  <2>2. QED
    BY <1>2, <2>1, DeleteStep DEF RemoveShare
<1>3. CASE \E n \in Limits, b \in ByteLimits : UpdateShareByOwner(n, b)
  BY <1>3, LimitStep
<1>4. CASE \E f \in Files : ShowFile(f)
  BY <1>4, ShareStep DEF ShowFile, shareVars, IInv, Typing
<1>5. CASE \E f \in Files, s \in Sizes : ReplaceFile(f, s)
  BY <1>5, ShareStep DEF ReplaceFile, shareVars, IInv, Typing
<1>6. QED
  BY <1>1, <1>2, <1>3, <1>4, <1>5 DEF OwnerStep

LEMMA StepKeeps == IInv /\ [Next]_vars => IInv' /\ [T!Next]_(T!vars)
<1> SUFFICES ASSUME IInv, [Next]_vars PROVE IInv' /\ [T!Next]_(T!vars)
  OBVIOUS
<1>1. CASE \E p \in Requests : RequestStep(p)
  BY <1>1, RequestKeeps
<1>2. CASE \E j \in Jobs : CreateDownloadJob(j) \/ Expire(j)
  BY <1>2, ClockStep
<1>3. CASE CleanUp
  <2> DEFINE old == {j \in Jobs : InTable(j) /\ job[j].expired}
  <2>1. Delete(old) /\ UNCHANGED <<limit, most, usage, size, shown, req>>
        /\ \A j \in old : InTable(j) /\ ~Locked(j)
    BY <1>3 DEF CleanUp, shareVars, content
  <2>2. old \in SUBSET Jobs
    OBVIOUS
  <2> HIDE DEF old
  <2>3. QED
    BY <2>1, <2>2, DeleteStep
<1>4. CASE OwnerStep
  BY <1>4, OwnerKeeps
<1>5. CASE UNCHANGED vars
  BY <1>5, ShareStep DEF vars, shareVars, usage, content, IInv, Typing
<1>6. QED
  BY <1>1, <1>2, <1>3, <1>4, <1>5 DEF Next

LEMMA InitInv == Init => IInv /\ T!Init
<1> SUFFICES ASSUME Init PROVE IInv /\ T!Init
  OBVIOUS
<1>1. Typing
  BY DEF Init, Typing, Row, Idle, Slot, Job, Request
<1>2. Pending = {} /\ counted = {} /\ late = {} /\ count = 0
  BY DEF Init, Pending, Row
<1>3. LimitShape /\ limit.n \in Limits /\ limit.n \in Nat /\ most.n = limit.n
  <2>1. limit \in [n: Limits, bytes: ByteLimits] /\ most = limit
    BY DEF Init
  <2>2. limit.n \in Limits /\ limit.n \in Nat
    BY <2>1, DownloadJobAssumption
  <2>3. QED
    BY <2>1, <2>2 DEF LimitShape
<1>4. Cardinality({}) = 0
  BY FS_EmptySet
<1>5. WithinLimit /\ CountedOnce
  BY <1>2, <1>3, <1>4 DEF WithinLimit, CountedOnce, Init, Row
<1>6. RowLocks
  BY DEF Init, RowLocks, Idle, Slot
<1>7. QED
  BY <1>1, <1>2, <1>3, <1>5, <1>6 DEF IInv, T!Init

-----------------------------------------------------------------------------
(* Sums, and the least and the greatest of a set of numbers.                *)

\* A sum over finitely many is a number, and so are the units it counts.
LEMMA WeightIsNat ==
    ASSUME NEW S, IsFiniteSet(S), NEW n, \A x \in S : n[x] \in Nat
    PROVE  /\ IsFiniteSet(UNION {{x} \X (1..n[x]) : x \in S})
           /\ Weight(S, n) \in Nat
<1> DEFINE column == [x \in S |-> {x} \X (1..n[x])]
<1> DEFINE C == {{x} \X (1..n[x]) : x \in S}
<1>1. column \in Surjection(S, C)
  BY DEF Surjection
<1>2. IsFiniteSet(C)
  BY <1>1, FS_Surjection
<1>3. ASSUME NEW x \in S
      PROVE  IsFiniteSet({x} \X (1..n[x]))
  <2>1. IsFiniteSet({x})
    BY FS_Singleton
  <2>2. IsFiniteSet(1..n[x])
    BY FS_Interval
  <2>3. QED
    BY <2>1, <2>2, FS_Product
<1>4. \A c \in C : IsFiniteSet(c)
  BY <1>3
<1>5. IsFiniteSet(UNION C)
  BY <1>2, <1>4, FS_UNION
<1>6. QED
  BY <1>5, FS_CardinalityType DEF Weight

\* One more adds what it weighs.
LEMMA WeightOfMore ==
    ASSUME NEW S, IsFiniteSet(S), NEW n, \A x \in S : n[x] \in Nat,
           NEW y, y \notin S, n[y] \in Nat
    PROVE  Weight(S \cup {y}, n) = Weight(S, n) + n[y]
<1> DEFINE U == UNION {{x} \X (1..n[x]) : x \in S}
<1> DEFINE V == {y} \X (1..n[y])
<1>1. IsFiniteSet(U) /\ Cardinality(U) \in Nat
  BY WeightIsNat, FS_CardinalityType
<1>2. IsFiniteSet(V) /\ Cardinality(V) = n[y]
  <2>1. IsFiniteSet({y}) /\ Cardinality({y}) = 1
    BY FS_Singleton
  <2>2. IsFiniteSet(1..n[y]) /\ Cardinality(1..n[y]) = n[y]
    BY FS_Interval
  <2>3. IsFiniteSet(V) /\ Cardinality(V) = 1 * n[y]
    BY <2>1, <2>2, FS_Product
  <2>4. QED
    BY <2>3
<1>3. U \cap V = {}
  OBVIOUS
<1>4. UNION {{x} \X (1..n[x]) : x \in S \cup {y}} = U \cup V
  OBVIOUS
<1>5. Weight(S, n) = Cardinality(U) /\ Weight(S \cup {y}, n) = Cardinality(U \cup V)
  BY <1>4 DEF Weight
<1> HIDE DEF U, V
<1>6. Cardinality(U \cup V) = Cardinality(U) + Cardinality(V) - Cardinality(U \cap V)
  BY <1>1, <1>2, FS_Union
<1>7. Cardinality(U \cap V) = 0
  BY <1>3, FS_EmptySet
<1>8. QED
  BY <1>1, <1>2, <1>5, <1>6, <1>7

\* Fewer things weigh no more.
LEMMA WeightOfFewer ==
    ASSUME NEW S, IsFiniteSet(S), NEW n, \A x \in S : n[x] \in Nat,
           NEW R \in SUBSET S, NEW m, \A x \in R : m[x] = n[x]
    PROVE  Weight(R, m) \in Nat /\ Weight(R, m) <= Weight(S, n)
<1> DEFINE U == UNION {{x} \X (1..n[x]) : x \in S}
<1> DEFINE V == UNION {{x} \X (1..m[x]) : x \in R}
<1>1. IsFiniteSet(U)
  BY WeightIsNat
<1>2. V \in SUBSET U
  OBVIOUS
<1>3. Weight(S, n) = Cardinality(U) /\ Weight(R, m) = Cardinality(V)
  BY DEF Weight
<1> HIDE DEF U, V
<1>4. QED
  BY <1>1, <1>2, <1>3, FS_Subset, FS_CardinalityType

LEMMA LeastOf ==
    ASSUME NEW S \in SUBSET Nat, S # {}
    PROVE  Min(S) \in S /\ \A x \in S : Min(S) <= x
<1>1. \E x \in S : \A y \in S : ~ (<<y, x>> \in OpToRel(<, Nat))
  BY NatLessThanWellFounded, WFMin
<1>2. ASSUME NEW x \in Nat, NEW y \in Nat, y < x
      PROVE  <<y, x>> \in OpToRel(<, Nat)
  BY <1>2, Zenon DEF OpToRel
<1>3. PICK x \in S : \A y \in S : ~ (<<y, x>> \in OpToRel(<, Nat))
  BY <1>1
<1>4. \A y \in S : ~ (y < x)
  BY <1>2, <1>3, Zenon
<1>5. \A y \in S : x <= y
  BY <1>4
<1>6. QED
  BY <1>5 DEF Min

LEMMA GreatestOf ==
    ASSUME NEW S \in SUBSET Nat, S # {}, NEW n \in Nat, \A x \in S : x <= n
    PROVE  Max(S) \in S /\ \A x \in S : x <= Max(S)
<1> DEFINE D == {n - x : x \in S}
<1>1. D \in SUBSET Nat /\ D # {}
  <2>1. ASSUME NEW x \in S
        PROVE  n - x \in Nat
    OBVIOUS
  <2>2. QED
    BY <2>1
<1>2. PICK x \in S : n - x = Min(D)
  BY <1>1, LeastOf
<1>3. \A y \in S : n - x <= n - y
  BY <1>1, <1>2, LeastOf
<1>4. \A y \in S : x >= y
  BY <1>3
<1>5. QED
  BY <1>4 DEF Max

-----------------------------------------------------------------------------
(* Merging a range into those that are kept.                                *)

\* Ranges run forward.
Forward(R) == \A r \in R : r[1] <= r[2]

\* Two ranges never overlap, nor lie next to each other.
Apart(R) == \A r, s \in R : r # s => r[2] + 1 < s[1] \/ s[2] + 1 < r[1]

LEMMA BytesAreNat == Bytes \in SUBSET Nat /\ MaxSize \in Nat /\ \A x \in Bytes : x <= MaxSize
<1>1. MaxSize \in Sizes /\ \A m \in Sizes : m <= MaxSize
  BY DownloadJobAssumption DEF MaxSize
<1>2. MaxSize \in Nat
  BY <1>1, DownloadJobAssumption
<1>3. QED
  BY <1>2 DEF Bytes

\* Where the merged range begins and ends.
LEMMA Ends ==
    ASSUME NEW R \in SUBSET (Bytes \X Bytes), Forward(R),
           NEW a \in Bytes, NEW b \in Bytes, a <= b
    PROVE  \E lo, hi \in Bytes :
              /\ Merged(R, a, b) = (R \ Touching(R, a, b)) \cup {<<lo, hi>>}
              /\ lo <= a /\ b <= hi
              /\ \A r \in Touching(R, a, b) : lo <= r[1] /\ r[2] <= hi
              /\ lo = a \/ \E r \in Touching(R, a, b) : lo = r[1]
              /\ hi = b \/ \E r \in Touching(R, a, b) : hi = r[2]
<1> DEFINE Met == Touching(R, a, b)
           L == {a} \cup {r[1] : r \in Met}
           H == {b} \cup {r[2] : r \in Met}
<1>1. Met \in SUBSET R
  BY DEF Touching
<1>2. L \in SUBSET Bytes /\ H \in SUBSET Bytes /\ L # {} /\ H # {}
  BY <1>1
<1>3. Merged(R, a, b) = (R \ Met) \cup {<<Min(L), Max(H)>>}
  BY DEF Merged
<1>4. Min(L) \in L /\ \A x \in L : Min(L) <= x
  BY <1>2, BytesAreNat, LeastOf
<1>5. Max(H) \in H /\ \A x \in H : x <= Max(H)
  BY <1>2, BytesAreNat, GreatestOf
<1> HIDE DEF Met
<1>6. PICK lo \in Bytes : lo = Min(L)
  BY <1>2, <1>4
<1>7. PICK hi \in Bytes : hi = Max(H)
  BY <1>2, <1>5
<1>8. lo <= a /\ (\A r \in Met : lo <= r[1]) /\ (lo = a \/ \E r \in Met : lo = r[1])
  BY <1>4, <1>6
<1>9. b <= hi /\ (\A r \in Met : r[2] <= hi) /\ (hi = b \/ \E r \in Met : hi = r[2])
  BY <1>5, <1>7
<1>10. Merged(R, a, b) = (R \ Met) \cup {<<lo, hi>>}
  BY <1>3, <1>6, <1>7
<1> HIDE DEF L, H
<1>11. QED
  BY <1>8, <1>9, <1>10 DEF Met

\* Merging keeps the ranges apart, and they are the old bytes and the new ones.
LEMMA Merging ==
    ASSUME NEW R \in SUBSET (Bytes \X Bytes), Forward(R), Apart(R),
           NEW a \in Bytes, NEW b \in Bytes, a <= b
    PROVE  /\ Merged(R, a, b) \in SUBSET (Bytes \X Bytes)
           /\ Forward(Merged(R, a, b)) /\ Apart(Merged(R, a, b))
           /\ UNION {r[1]..r[2] : r \in Merged(R, a, b)} =
                 (UNION {r[1]..r[2] : r \in R}) \cup (a..b)
<1> DEFINE Met == Touching(R, a, b)
<1>1. PICK lo \in Bytes, hi \in Bytes :
         /\ Merged(R, a, b) = (R \ Met) \cup {<<lo, hi>>}
         /\ lo <= a /\ b <= hi
         /\ \A r \in Met : lo <= r[1] /\ r[2] <= hi
         /\ lo = a \/ \E r \in Met : lo = r[1]
         /\ hi = b \/ \E r \in Met : hi = r[2]
  BY Ends
<1>2. lo \in Nat /\ hi \in Nat /\ a \in Nat /\ b \in Nat
  BY BytesAreNat
<1>3. /\ Met \in SUBSET R
      /\ \A r \in R : r \in Met <=> r[1] <= b + 1 /\ r[2] + 1 >= a
  BY DEF Touching
<1>4. \A r \in R : r[1] \in Nat /\ r[2] \in Nat /\ r[1] <= r[2]
  BY BytesAreNat DEF Forward
<1> HIDE DEF Met
<1> DEFINE M == (R \ Met) \cup {<<lo, hi>>}
<1>5. M \in SUBSET (Bytes \X Bytes) /\ Forward(M)
  BY <1>1, <1>2, <1>4 DEF Forward
<1>6. ASSUME NEW r \in R, r \notin Met
      PROVE  r[2] + 1 < lo \/ hi + 1 < r[1]
  <2>1. CASE r[1] > b + 1
    <3>1. ASSUME NEW t \in Met, hi = t[2]
          PROVE  hi + 1 < r[1]
      BY <1>2, <1>3, <1>4, <1>6, <2>1, <3>1 DEF Apart
    <3>2. QED
      BY <1>1, <1>2, <1>4, <2>1, <3>1
  <2>2. CASE r[2] + 1 < a
    <3>1. ASSUME NEW t \in Met, lo = t[1]
          PROVE  r[2] + 1 < lo
      BY <1>2, <1>3, <1>4, <1>6, <2>2, <3>1 DEF Apart
    <3>2. QED
      BY <1>1, <1>2, <1>4, <2>2, <3>1
  <2>3. QED
    BY <1>2, <1>3, <1>4, <1>6, <2>1, <2>2
<1>7. Apart(M)
  BY <1>6 DEF Apart
<1>8. ASSUME NEW x
      PROVE  (\E r \in M : x \in r[1]..r[2]) <=> (\E r \in R : x \in r[1]..r[2]) \/ x \in a..b
  <2>1. ASSUME x \in lo..hi
        PROVE  (\E r \in R : x \in r[1]..r[2]) \/ x \in a..b
    <3>1. CASE x < a
      BY <1>1, <1>2, <1>3, <1>4, <2>1, <3>1
    <3>2. CASE x > b
      BY <1>1, <1>2, <1>3, <1>4, <2>1, <3>2
    <3>3. QED
      BY <1>2, <2>1, <3>1, <3>2
  <2>2. ASSUME NEW r \in Met, x \in r[1]..r[2]
        PROVE  x \in lo..hi
    BY <1>1, <1>2, <1>3, <1>4, <2>2
  <2>3. ASSUME x \in a..b
        PROVE  x \in lo..hi
    <3>1. lo <= a /\ b <= hi
      BY <1>1
    <3>2. QED
      BY <1>2, <2>3, <3>1
  <2>4. (\E r \in M : x \in r[1]..r[2]) <=> (\E r \in R \ Met : x \in r[1]..r[2]) \/ x \in lo..hi
    <3>1. \A r : r \in M <=> r \in R \ Met \/ r = <<lo, hi>>
      OBVIOUS
    <3>2. <<lo, hi>>[1] = lo /\ <<lo, hi>>[2] = hi
      OBVIOUS
    <3> HIDE DEF M
    <3>3. QED
      BY <3>1, <3>2, Zenon
  <2>5. (\E r \in R : x \in r[1]..r[2]) <=>
           (\E r \in R \ Met : x \in r[1]..r[2]) \/ (\E r \in Met : x \in r[1]..r[2])
    BY <1>3
  <2>6. QED
    BY <2>1, <2>2, <2>3, <2>4, <2>5, Zenon
<1>9. UNION {r[1]..r[2] : r \in M} = (UNION {r[1]..r[2] : r \in R}) \cup (a..b)
  <2> HIDE DEF M
  <2>1. \A Q, x : x \in UNION {r[1]..r[2] : r \in Q} <=> \E r \in Q : x \in r[1]..r[2]
    BY Zenon
  <2>2. ASSUME NEW x
        PROVE  x \in UNION {r[1]..r[2] : r \in M} <=> x \in (UNION {r[1]..r[2] : r \in R}) \cup (a..b)
    <3>1. x \in UNION {r[1]..r[2] : r \in M} <=> \E r \in M : x \in r[1]..r[2]
      BY <2>1
    <3>2. x \in UNION {r[1]..r[2] : r \in R} <=> \E r \in R : x \in r[1]..r[2]
      BY <2>1
    <3>3. x \in (UNION {r[1]..r[2] : r \in R}) \cup (a..b)
             <=> x \in UNION {r[1]..r[2] : r \in R} \/ x \in a..b
      OBVIOUS
    <3>4. QED
      BY <1>8, <3>1, <3>2, <3>3, Zenon
  <2>3. QED
    BY <2>2
<1>10. QED
  BY <1>1, <1>5, <1>7, <1>9

-----------------------------------------------------------------------------
(* The scan that decides whether a file is complete.                        *)

\* g holds what the scan of each set of at most k ranges yields.
Level(R, k) == {S \in SUBSET R : Cardinality(S) <= k}
Scans(R, k, g) ==
    g = [S \in Level(R, k) |->
            IF S = {} THEN 0 ELSE Extended(LastRange(S), g[S \ {LastRange(S)}])]
Scan(R, g) ==
    g = [S \in SUBSET R |->
            IF S = {} THEN 0 ELSE Extended(LastRange(S), g[S \ {LastRange(S)}])]

LEMMA CoveredByScan ==
    ASSUME NEW R
    PROVE  Covered(R) = (CHOOSE g : Scan(R, g))[R]
BY Zenon DEF Covered, MapThenFoldSet, Scan

LEMMA LastOf ==
    ASSUME NEW S \in SUBSET (Bytes \X Bytes), S # {}
    PROVE  LastRange(S) \in S
<1> DEFINE B == {r[1] : r \in S}
<1>1. B \in SUBSET Nat /\ B # {} /\ MaxSize \in Nat /\ \A x \in B : x <= MaxSize
  BY BytesAreNat
<1>2. Max(B) \in B /\ \A x \in B : x <= Max(B)
  BY <1>1, GreatestOf
<1>3. PICK r \in S : r[1] = Max(B)
  BY <1>2
<1>4. \A s \in S : s[1] <= r[1]
  BY <1>2, <1>3
<1>5. QED
  BY <1>4 DEF LastRange

\* Without its last range a set is smaller by one.
LEMMA OneFewer ==
    ASSUME NEW R \in SUBSET (Bytes \X Bytes), IsFiniteSet(R), NEW S \in SUBSET R, S # {}
    PROVE  /\ LastRange(S) \in S /\ S \ {LastRange(S)} \in SUBSET R
           /\ Cardinality(S) \in Nat
           /\ Cardinality(S \ {LastRange(S)}) = Cardinality(S) - 1
<1>1. LastRange(S) \in S
  BY LastOf
<1>2. IsFiniteSet(S) /\ Cardinality(S) \in Nat
  BY FS_Subset, FS_CardinalityType
<1>3. Cardinality(S \ {LastRange(S)}) = Cardinality(S) - 1
  BY <1>1, <1>2, FS_RemoveElement
<1>4. QED
  BY <1>1, <1>2, <1>3

\* There is such a scan, for sets of every number of ranges.
LEMMA ScanExists ==
    ASSUME NEW R \in SUBSET (Bytes \X Bytes), IsFiniteSet(R)
    PROVE  \E g : Scan(R, g)
<1> DEFINE Missing == {k \in Nat : ~ \E g : Scans(R, k, g)}
<1>1. ASSUME NEW k \in Nat, k \in Missing, \A l \in Missing : k <= l
      PROVE  FALSE
  <2>1. CASE k = 0
    <3>1. PICK g : g = [S \in Level(R, 0) |-> 0]
      OBVIOUS
    <3>2. \A S \in Level(R, 0) : S = {}
      BY FS_Subset, FS_CardinalityType, FS_EmptySet DEF Level
    <3>3. Scans(R, 0, g)
      BY <3>1, <3>2 DEF Scans
    <3>4. QED
      BY <1>1, <2>1, <3>3
  <2>2. CASE k > 0
    <3>1. k - 1 \in Nat /\ k - 1 \notin Missing
      BY <1>1, <2>2
    <3>2. PICK g : Scans(R, k - 1, g)
      BY <3>1
    <3>3. PICK h : h = [S \in Level(R, k) |->
                          IF S = {} THEN 0 ELSE Extended(LastRange(S), g[S \ {LastRange(S)}])]
      OBVIOUS
    <3>4. ASSUME NEW Q \in Level(R, k - 1)
          PROVE  Q \in Level(R, k) /\ h[Q] = g[Q]
      <4>1. Q \in Level(R, k)
        <5>1. Cardinality(Q) \in Nat
          BY FS_Subset, FS_CardinalityType DEF Level
        <5>2. QED
          BY <5>1 DEF Level
      <4>2. h[Q] = IF Q = {} THEN 0 ELSE Extended(LastRange(Q), g[Q \ {LastRange(Q)}])
        BY <3>3, <4>1
      <4>3. g[Q] = IF Q = {} THEN 0 ELSE Extended(LastRange(Q), g[Q \ {LastRange(Q)}])
        BY <3>2, Zenon DEF Scans
      <4>4. QED
        BY <4>1, <4>2, <4>3
    <3>5. ASSUME NEW S \in Level(R, k), S # {}
          PROVE  S \ {LastRange(S)} \in Level(R, k - 1)
      BY <3>5, OneFewer DEF Level
    <3>6. \A S \in Level(R, k) :
              (IF S = {} THEN 0 ELSE Extended(LastRange(S), g[S \ {LastRange(S)}])) =
              (IF S = {} THEN 0 ELSE Extended(LastRange(S), h[S \ {LastRange(S)}]))
      BY <3>4, <3>5
    <3>7. Scans(R, k, h)
      BY <3>3, <3>6, Zenon DEF Scans
    <3>8. QED
      BY <1>1, <3>7
  <2>3. QED
    BY <2>1, <2>2
<1>2. Missing = {}
  <2>1. ASSUME Missing # {}
        PROVE  FALSE
    <3>1. Missing \in SUBSET Nat
      OBVIOUS
    <3>2. Min(Missing) \in Missing /\ \A l \in Missing : Min(Missing) <= l
      BY <2>1, <3>1, LeastOf
    <3> HIDE DEF Missing
    <3>3. QED
      BY <1>1, <3>1, <3>2
  <2>2. QED
    BY <2>1
<1>3. Cardinality(R) \in Nat
  BY FS_CardinalityType
<1>4. PICK g : Scans(R, Cardinality(R), g)
  BY <1>2, <1>3
<1>5. Level(R, Cardinality(R)) = SUBSET R
  BY FS_Subset DEF Level
<1>6. QED
  BY <1>4, <1>5, Zenon DEF Scans, Scan

\* Below what the scan yields there is no gap.
LEMMA CoveredFacts ==
    ASSUME NEW R \in SUBSET (Bytes \X Bytes), IsFiniteSet(R)
    PROVE  /\ Covered(R) \in Nat
           /\ \A n \in Nat : n < Covered(R) => \E r \in R : n \in r[1]..r[2]
<1>1. PICK g : Scan(R, g) /\ Covered(R) = g[R]
  <2>1. Scan(R, CHOOSE g : Scan(R, g))
    BY ScanExists
  <2>2. QED
    BY <2>1, CoveredByScan
<1>2. \A S \in SUBSET R :
          g[S] = IF S = {} THEN 0 ELSE Extended(LastRange(S), g[S \ {LastRange(S)}])
  BY <1>1, Zenon DEF Scan
<1> DEFINE Sound(S) == g[S] \in Nat /\ \A n \in Nat : n < g[S] => \E r \in S : n \in r[1]..r[2]
           Bad == {k \in Nat : \E S \in SUBSET R : Cardinality(S) = k /\ ~Sound(S)}
<1>3. ASSUME NEW S \in SUBSET R, S = {} \/ Sound(S \ {LastRange(S)})
      PROVE  Sound(S)
  <2>1. CASE S = {}
    <3>1. g[S] = 0
      BY <1>2, <2>1, Zenon
    <3>2. QED
      BY <3>1
  <2>2. CASE S # {}
    <3>1. PICK r : r = LastRange(S)
      OBVIOUS
    <3>2. PICK c \in Nat : /\ c = g[S \ {r}]
                           /\ \A n \in Nat : n < c => \E q \in S \ {r} : n \in q[1]..q[2]
      BY <1>3, <2>2, <3>1
    <3>3. r \in S /\ r[1] \in Nat /\ r[2] \in Nat
      <4>1. S \in SUBSET (Bytes \X Bytes)
        OBVIOUS
      <4>2. r \in S
        BY <2>2, <3>1, <4>1, LastOf
      <4>3. QED
        BY <4>1, <4>2, BytesAreNat
    <3>4. g[S] = Extended(r, c)
      BY <1>2, <2>2, <3>1, <3>2
    <3>5. \A n \in Nat : n < c => \E q \in S : n \in q[1]..q[2]
      BY <3>2
    <3>6. g[S] \in Nat
      BY <3>3, <3>4 DEF Extended
    <3>7. ASSUME NEW n \in Nat, n < g[S]
          PROVE  \E q \in S : n \in q[1]..q[2]
      <4>1. CASE n < c
        BY <3>5, <4>1
      <4>2. CASE ~(n < c)
        <5>1. n \in r[1]..r[2]
          BY <3>3, <3>4, <3>7, <4>2 DEF Extended
        <5>2. QED
          BY <3>3, <5>1
      <4>3. QED
        BY <4>1, <4>2
    <3>8. QED
      BY <3>6, <3>7
  <2>3. QED
    BY <2>1, <2>2
<1>4. ASSUME NEW k \in Bad, \A l \in Bad : k <= l
      PROVE  FALSE
  <2>1. PICK S \in SUBSET R : Cardinality(S) = k /\ ~Sound(S)
    OBVIOUS
  <2>2. S # {} /\ ~Sound(S \ {LastRange(S)})
    BY <1>3, <2>1
  <2>3. /\ S \ {LastRange(S)} \in SUBSET R /\ k \in Nat
        /\ Cardinality(S \ {LastRange(S)}) = k - 1
    BY <2>1, <2>2, OneFewer
  <2>4. k - 1 \in Nat
    BY <2>3, FS_Subset, FS_CardinalityType
  <2> HIDE DEF Sound
  <2>5. k - 1 \in Bad
    BY <2>2, <2>3, <2>4
  <2>6. QED
    BY <1>4, <2>3, <2>5
<1>5. Bad = {}
  <2>1. ASSUME Bad # {}
        PROVE  FALSE
    <3>1. Bad \in SUBSET Nat
      OBVIOUS
    <3>2. Min(Bad) \in Bad /\ \A l \in Bad : Min(Bad) <= l
      BY <2>1, <3>1, LeastOf
    <3> HIDE DEF Bad
    <3>3. QED
      BY <1>4, <3>2
  <2>2. QED
    BY <2>1
<1>6. Sound(R)
  <2>1. Cardinality(R) \in Nat
    BY FS_CardinalityType
  <2> HIDE DEF Sound
  <2>2. QED
    BY <1>5, <2>1
<1>7. QED
  BY <1>1, <1>6

-----------------------------------------------------------------------------
(* Traffic and ranges.                                                      *)

\* The types that the places above had no use for.
Amounts ==
    /\ share \in {"open", "stopped", "banned", "removed"} /\ edits \in 0..MaxEdits
    /\ traffic \in Nat /\ total \in [Jobs -> Nat]
    /\ ranges \in [Jobs -> [Files -> SUBSET (Bytes \X Bytes)]]
    /\ told \in [Jobs -> [Files -> SUBSET Bytes]]

\* What a request asks for and has sent lies within the content it found;
\* of an empty file nothing is sent.
SlotRanges ==
    \A p \in Requests :
        /\ req[p].step # "idle" => req[p].size \in Sizes
        /\ req[p].step \in {"sent", "recording"} =>
               \/ req[p].from = 0 /\ req[p].to = -1
               \/ req[p].from \in Bytes /\ req[p].to \in Bytes /\ req[p].from <= req[p].to

RangesForward == \A j \in Jobs, f \in Files : Forward(ranges[j][f])

JInv ==
    /\ Amounts /\ SlotRanges /\ RangesForward
    /\ limit.bytes <= most.bytes
    /\ WithinTraffic /\ RangesExact

\* Pending bytes, now and after a step.
LEMMA TotalIsNat ==
    ASSUME IInv, JInv
    PROVE  /\ Total(Pending) \in Nat /\ \A j \in Pending : total[j] \in Nat
           /\ limit.bytes \in Nat /\ most.bytes \in Nat
<1>1. \A j \in Pending : total[j] \in Nat
  BY PendingFinite DEF JInv, Amounts
<1>2. Total(Pending) \in Nat
  BY <1>1, PendingFinite, WeightIsNat DEF Total
<1>3. limit.bytes \in Nat /\ most.bytes \in Nat
  BY DownloadJobAssumption DEF IInv, LimitShape
<1>4. QED
  BY <1>1, <1>2, <1>3

LEMMA TotalLapses ==
    ASSUME IInv, JInv, Pending' \subseteq Pending, \A j \in Pending' : total'[j] = total[j]
    PROVE  Total(Pending)' \in Nat /\ Total(Pending)' <= Total(Pending)
<1>1. Weight(Pending', total') \in Nat /\ Weight(Pending', total') <= Weight(Pending, total)
  BY TotalIsNat, PendingFinite, WeightOfFewer
<1>2. QED
  BY <1>1 DEF Total

\* A step that records nothing and lets places lapse at most.
LEMMA LapseStep ==
    ASSUME IInv, JInv, UNCHANGED <<limit, most, traffic, late>>,
           Amounts', SlotRanges', RangesForward', RangesExact',
           Pending' \subseteq Pending, \A j \in Pending' : total'[j] = total[j]
    PROVE  JInv'
<1>1. WithinTraffic'
  BY TotalIsNat, TotalLapses DEF JInv, WithinTraffic, Amounts
<1>2. QED
  BY <1>1 DEF JInv

LEMMA StillStep ==
    ASSUME IInv, JInv, UNCHANGED <<limit, most, traffic, late, progress>>,
           share' \in {"open", "stopped", "banned", "removed"}, edits' \in 0..MaxEdits,
           SlotRanges', Pending' \subseteq Pending
    PROVE  JInv'
<1>1. Amounts' /\ RangesForward' /\ RangesExact'
  BY DEF JInv, Amounts, RangesForward, RangesExact, progress
<1>2. \A j \in Pending' : total'[j] = total[j]
  BY DEF progress
<1>3. QED
  BY <1>1, <1>2, LapseStep

LEMMA SlotsReleased ==
    ASSUME IInv, JInv, NEW p \in Requests, Finish(p)
    PROVE  SlotRanges'
BY Released DEF JInv, SlotRanges

LEMMA SlotsMoved ==
    ASSUME IInv, JInv, NEW p \in Requests, ~Free(p), NEW s \in {"serving", "recording"},
           s = "serving" \/ req[p].step = "sent", Goto(p, s)
    PROVE  SlotRanges'
<1>1. /\ req'[p].step = s /\ req'[p].size = req[p].size
      /\ req'[p].from = req[p].from /\ req'[p].to = req[p].to
  BY DEF Goto, IInv, Typing, Request
<1>2. \A q \in Requests \ {p} : req'[q] = req[q]
  BY Moved
<1>3. QED
  BY <1>1, <1>2 DEF JInv, SlotRanges, Free

\* A slot is released and nothing else happens.
LEMMA ReleaseTraffic ==
    ASSUME IInv, JInv, NEW p \in Requests, Finish(p),
           UNCHANGED <<shareVars, usage, job, progress, content>>
    PROVE  JInv'
<1>1. Pending' = Pending
  BY DEF Pending
<1>2. SlotRanges'
  BY SlotsReleased
<1>3. QED
  BY <1>1, <1>2, StillStep DEF shareVars, usage, content, JInv, Amounts

LEMMA ClaimTraffic ==
    ASSUME IInv, JInv, NEW p \in Requests, NEW j \in Jobs, NEW f \in Files,
           ClaimDownloadJobFile(p, j, f)
    PROVE  JInv'
<1> DEFINE x == Slot("claimed", j, f, size[f], 0, 0)
<1>1. x.step = "claimed" /\ x.size \in Sizes
  BY DEF Slot, IInv, Typing
<1>2. \A q \in Requests : req'[q] = IF q = p THEN x ELSE req[q]
  BY DEF ClaimDownloadJobFile, IInv, Typing
<1> HIDE DEF x
<1>3. SlotRanges'
  BY <1>1, <1>2 DEF JInv, SlotRanges
<1>4. Pending' = Pending
  BY DEF Pending, ClaimDownloadJobFile
<1>5. QED
  BY <1>3, <1>4, StillStep DEF ClaimDownloadJobFile, shareVars, usage, content, JInv, Amounts

\* The bytes that a new place needs were looked for.
LEMMA ReserveTraffic ==
    ASSUME IInv, JInv, NEW p \in Requests, ReserveDownloadJob(p)
    PROVE  JInv'
<1> DEFINE j == My(p)
<1>0. ~Free(p) /\ j \in Jobs
  BY DEF ReserveDownloadJob, Free, IInv, Typing, My
<1>1. CASE Finish(p) /\ UNCHANGED job
  BY <1>1, ReleaseTraffic DEF ReserveDownloadJob
<1>2. CASE /\ Live(j) /\ (job[j].state # "created" \/ HasPlace(j))
           /\ job' = [job EXCEPT ![j].state = IF @ = "created" THEN "reserved" ELSE @]
           /\ Goto(p, "serving")
  <2>1. /\ \A k \in Jobs \ {j} : job'[k] = job[k]
        /\ job'[j].expired = job[j].expired
        /\ job'[j].state = IF job[j].state = "created" THEN "reserved" ELSE job[j].state
    BY <1>0, <1>2 DEF IInv, Typing, Job
  <2>2. SlotRanges'
    BY <1>0, <1>2, SlotsMoved
  <2>3. UNCHANGED <<shareVars, usage, progress, content>>
    BY DEF ReserveDownloadJob
  <2>4. CASE job[j].state # "created"
    <3>1. Pending' = Pending
      BY <2>1, <2>4 DEF Pending
    <3>2. QED
      BY <2>2, <2>3, <3>1, StillStep DEF shareVars, usage, content, JInv, Amounts
  <2>5. CASE job[j].state = "created"
    <3>1. HasPlace(j) /\ ~job[j].expired /\ j \notin Pending
      BY <1>2, <2>5 DEF Live, Pending
    <3>2. Pending' = Pending \cup {j}
      BY <1>0, <2>1, <2>5, <3>1 DEF Pending
    <3>3. Weight(Pending \cup {j}, total) = Weight(Pending, total) + total[j] /\ total[j] \in Nat
      BY <1>0, <3>1, PendingFinite, TotalIsNat, WeightOfMore DEF JInv, Amounts
    <3>4. Total(Pending)' = Total(Pending) + total[j]
      BY <2>3, <3>2, <3>3 DEF Total, progress
    <3>5. traffic + Total(Pending) + total[j] <= limit.bytes /\ limit.bytes <= most.bytes
      BY <3>1 DEF HasPlace, JInv
    <3>6. UNCHANGED <<traffic, limit, most, late, total, ranges, told, share, edits>>
      BY <2>3 DEF shareVars, usage, progress, content
    <3>7. WithinTraffic'
      BY <3>3, <3>4, <3>5, <3>6, TotalIsNat DEF WithinTraffic, JInv, Amounts
    <3>8. Amounts' /\ RangesForward' /\ RangesExact'
      BY <3>6 DEF JInv, Amounts, RangesForward, RangesExact
    <3>9. QED
      BY <2>2, <3>6, <3>7, <3>8 DEF JInv
  <2>6. QED
    BY <2>4, <2>5
<1>3. QED
  BY <1>1, <1>2, Zenon DEF ReserveDownloadJob

LEMMA ServeTraffic ==
    ASSUME IInv, JInv, NEW p \in Requests, ServeStream(p)
    PROVE  JInv'
<1>1. /\ req[p].step = "serving" /\ req[p].size \in Sizes
      /\ req[p].size \in Nat /\ req[p].size <= MaxSize /\ MaxSize \in Nat
  <2>1. req[p].step = "serving" /\ req[p].size \in Sizes
    BY DEF ServeStream, JInv, SlotRanges
  <2>2. MaxSize \in Sizes /\ \A m \in Sizes : m <= MaxSize
    BY DownloadJobAssumption DEF MaxSize
  <2>3. QED
    BY <2>1, <2>2, DownloadJobAssumption
<1>2. \E a \in Nat, b \in Int :
         /\ Send(p, a, b)
         /\ (a = 0 /\ b = -1) \/ (a \in Bytes /\ b \in Bytes /\ a <= b)
  <2>1. CASE req[p].size = 0 /\ Send(p, 0, -1)
    BY <2>1
  <2>2. CASE \E a, b \in 0..(req[p].size - 1) : a <= b /\ Send(p, a, b)
    BY <1>1, <2>2 DEF Bytes
  <2>3. QED
    BY <2>1, <2>2 DEF ServeStream
<1>3. PICK a \in Nat, b \in Int :
         /\ Send(p, a, b)
         /\ (a = 0 /\ b = -1) \/ (a \in Bytes /\ b \in Bytes /\ a <= b)
  BY <1>2
<1>4. /\ req'[p].size = req[p].size /\ req'[p].from = a /\ req'[p].to = b
      /\ \A q \in Requests \ {p} : req'[q] = req[q]
  BY <1>3 DEF Send, Slot, IInv, Typing
<1>5. SlotRanges'
  BY <1>1, <1>3, <1>4 DEF JInv, SlotRanges
<1>6. Pending' = Pending
  BY DEF Pending, ServeStream
<1>7. QED
  BY <1>5, <1>6, StillStep DEF ServeStream, shareVars, usage, content, JInv, Amounts

LEMMA BeginTraffic ==
    ASSUME IInv, JInv, NEW p \in Requests, BeginRecord(p)
    PROVE  JInv'
<1>1. CASE Finish(p)
  BY <1>1, ReleaseTraffic DEF BeginRecord
<1>2. CASE Goto(p, "recording")
  <2>1. req[p].step = "sent" /\ ~Free(p) /\ UNCHANGED <<shareVars, usage, job, progress, content>>
    BY DEF BeginRecord, Free
  <2>2. SlotRanges'
    BY <1>2, <2>1, SlotsMoved
  <2>3. Pending' = Pending
    BY <2>1 DEF Pending
  <2>4. QED
    BY <2>1, <2>2, <2>3, StillStep DEF shareVars, usage, content, JInv, Amounts
<1>3. QED
  BY <1>1, <1>2 DEF BeginRecord

\* What is recorded is what was sent, merged into what was there.
LEMMA RecordKeeps ==
    ASSUME IInv, JInv, NEW p \in Requests, req[p].step = "recording",
           ranges' = [ranges EXCEPT ![My(p)] = NewRanges(p)], Tell(p)
    PROVE  /\ ranges' \in [Jobs -> [Files -> SUBSET (Bytes \X Bytes)]]
           /\ told' \in [Jobs -> [Files -> SUBSET Bytes]]
           /\ RangesForward' /\ RangesExact'
<1>1. PICK j \in Jobs, f \in Files : j = req[p].job /\ f = req[p].file
  BY DEF IInv, Typing
<1>2. PICK a, b \in Int : a = req[p].from /\ b = req[p].to
                          /\ ((a = 0 /\ b = -1) \/ (a \in Bytes /\ b \in Bytes /\ a <= b))
  <2>1. req[p].from \in Int /\ req[p].to \in Int
    BY DEF IInv, Typing, Request
  <2>2. QED
    BY <2>1 DEF JInv, SlotRanges
<1>3. /\ ranges[j][f] \in SUBSET (Bytes \X Bytes) /\ told[j][f] \in SUBSET Bytes
      /\ Forward(ranges[j][f]) /\ Apart(ranges[j][f])
      /\ told[j][f] = UNION {r[1]..r[2] : r \in ranges[j][f]}
  BY DEF JInv, Amounts, RangesForward, RangesExact, Apart
<1>4. PICK R \in SUBSET (Bytes \X Bytes) :
         /\ Forward(R) /\ Apart(R)
         /\ UNION {r[1]..r[2] : r \in R} = told[j][f] \cup (a..b)
         /\ ranges' = [ranges EXCEPT ![j] = [ranges[j] EXCEPT ![f] = R]]
         /\ a..b \in SUBSET Bytes
  <2>1. CASE a = 0 /\ b = -1
    <3>1. ranges' = ranges
      BY <1>1, <1>2, <2>1 DEF NewRanges, My, JInv, Amounts
    <3>2. ranges' = [ranges EXCEPT ![j] = [ranges[j] EXCEPT ![f] = ranges[j][f]]]
      BY <3>1 DEF JInv, Amounts
    <3>3. a..b = {}
      BY <2>1
    <3>4. QED
      BY <1>3, <3>2, <3>3
  <2>2. CASE a \in Bytes /\ b \in Bytes /\ a <= b
    <3>1. ranges' = [ranges EXCEPT ![j] = [ranges[j] EXCEPT ![f] = Merged(ranges[j][f], a, b)]]
      <4>1. ~(b < a)
        BY <2>2, BytesAreNat
      <4>2. QED
        BY <1>1, <1>2, <4>1 DEF NewRanges, My, JInv, Amounts
    <3>2. a..b \in SUBSET Bytes
      BY <2>2, BytesAreNat DEF Bytes
    <3>3. PICK Q : Q = ranges[j][f]
      OBVIOUS
    <3>4. /\ Merged(Q, a, b) \in SUBSET (Bytes \X Bytes)
          /\ Forward(Merged(Q, a, b)) /\ Apart(Merged(Q, a, b))
          /\ UNION {r[1]..r[2] : r \in Merged(Q, a, b)} = told[j][f] \cup (a..b)
      BY <1>3, <2>2, <3>3, Merging
    <3>5. QED
      BY <3>1, <3>2, <3>3, <3>4
  <2>3. QED
    BY <1>2, <2>1, <2>2
<1>5. told' = [told EXCEPT ![j] = [told[j] EXCEPT ![f] = told[j][f] \cup (a..b)]]
  BY <1>1, <1>2 DEF Tell, My, JInv, Amounts
<1>6. /\ ranges' \in [Jobs -> [Files -> SUBSET (Bytes \X Bytes)]]
      /\ \A k \in Jobs, g \in Files : ranges'[k][g] = IF k = j /\ g = f THEN R ELSE ranges[k][g]
  <2>1. ranges \in [Jobs -> [Files -> SUBSET (Bytes \X Bytes)]]
    BY DEF JInv, Amounts
  <2>2. PICK row \in [Files -> SUBSET (Bytes \X Bytes)] : row = [ranges[j] EXCEPT ![f] = R]
    BY <2>1
  <2>3. \A g \in Files : row[g] = IF g = f THEN R ELSE ranges[j][g]
    BY <2>1, <2>2
  <2>4. ranges' = [ranges EXCEPT ![j] = row]
    BY <1>4, <2>2
  <2>5. QED
    BY <2>1, <2>3, <2>4
<1>7. /\ told' \in [Jobs -> [Files -> SUBSET Bytes]]
      /\ \A k \in Jobs, g \in Files :
            told'[k][g] = IF k = j /\ g = f THEN told[j][f] \cup (a..b) ELSE told[k][g]
  BY <1>3, <1>4, <1>5 DEF JInv, Amounts
<1>8. RangesForward'
  BY <1>4, <1>6 DEF JInv, RangesForward
<1>9. RangesExact'
  <2>1. SUFFICES ASSUME NEW k \in Jobs, NEW g \in Files
                 PROVE  /\ told'[k][g] = UNION {r[1]..r[2] : r \in ranges'[k][g]}
                        /\ Apart(ranges'[k][g])
    BY DEF RangesExact, Apart
  <2>2. CASE k = j /\ g = f
    BY <1>4, <1>6, <1>7, <2>2
  <2>3. CASE ~(k = j /\ g = f)
    <3>1. ranges'[k][g] = ranges[k][g] /\ told'[k][g] = told[k][g]
      BY <1>6, <1>7, <2>3
    <3>2. QED
      BY <3>1 DEF JInv, RangesExact, Apart
  <2>4. QED
    BY <2>2, <2>3
<1>10. QED
  BY <1>6, <1>7, <1>8, <1>9

LEMMA KeepTraffic ==
    ASSUME IInv, JInv, NEW p \in Requests, KeepRange(p)
    PROVE  JInv'
<1>1. /\ ranges' \in [Jobs -> [Files -> SUBSET (Bytes \X Bytes)]]
      /\ told' \in [Jobs -> [Files -> SUBSET Bytes]]
      /\ RangesForward' /\ RangesExact'
  BY RecordKeeps DEF KeepRange
<1>2. SlotRanges' /\ Pending' = Pending /\ UNCHANGED <<shareVars, usage, total, content>>
  BY SlotsReleased DEF KeepRange, Pending
<1>3. Amounts'
  BY <1>1, <1>2 DEF JInv, Amounts, shareVars, usage, content
<1>4. QED
  BY <1>1, <1>2, <1>3, LapseStep DEF shareVars, usage

\* The bytes of a job move from those pending to those counted.
LEMMA CompleteTraffic ==
    ASSUME IInv, JInv, NEW p \in Requests, CompleteJob(p)
    PROVE  JInv'
<1>1. PICK j \in Jobs : j = My(p) /\ job[j].state = "reserved"
  BY DEF CompleteJob, IInv, Typing, My, RowLocks
<1>2. /\ ranges' \in [Jobs -> [Files -> SUBSET (Bytes \X Bytes)]]
      /\ told' \in [Jobs -> [Files -> SUBSET Bytes]]
      /\ RangesForward' /\ RangesExact'
  BY RecordKeeps DEF CompleteJob
<1>3. /\ traffic' = traffic + total[j]
      /\ late' = IF job[j].expired THEN late \cup {j} ELSE late
      /\ UNCHANGED <<share, limit, most, total, edits>>
  BY <1>1 DEF CompleteJob, shareVars, content
<1>4. SlotRanges'
  BY SlotsReleased DEF CompleteJob
<1>5. total[j] \in Nat
  BY DEF JInv, Amounts
<1>6. Amounts'
  BY <1>2, <1>3, <1>5 DEF JInv, Amounts
<1>7. WithinTraffic'
  <2>1. CASE job[j].expired
    BY <1>3, <2>1 DEF WithinTraffic
  <2>2. CASE ~job[j].expired
    <3>1. j \in Pending
      BY <1>1, <2>2 DEF Pending
    <3>2. Pending' = Pending \ {j}
      BY <1>1, <2>2 DEF CompleteJob, Pending, IInv, Typing
    <3>3. IsFiniteSet(Pending \ {j}) /\ Pending = (Pending \ {j}) \cup {j}
      BY <3>1, PendingFinite, FS_Subset
    <3>4. Weight((Pending \ {j}) \cup {j}, total) = Weight(Pending \ {j}, total) + total[j]
      BY <3>3, <1>5, TotalIsNat, WeightOfMore
    <3>5. Weight(Pending \ {j}, total) \in Nat
      BY <3>3, TotalIsNat, WeightIsNat
    <3>6. Total(Pending) = Total(Pending)' + total[j] /\ Total(Pending)' \in Nat
      BY <1>3, <3>2, <3>3, <3>4, <3>5 DEF Total
    <3>7. traffic \in Nat /\ late' = late
      BY <1>3, <2>2 DEF JInv, Amounts
    <3>8. QED
      BY <1>3, <1>5, <3>6, <3>7 DEF JInv, WithinTraffic
  <2>3. QED
    BY <2>1, <2>2
<1>8. QED
  BY <1>2, <1>3, <1>4, <1>6, <1>7 DEF JInv

LEMMA RequestTraffic ==
    ASSUME IInv, JInv, NEW p \in Requests, RequestStep(p)
    PROVE  JInv'
<1>1. CASE \E j \in Jobs, f \in Files : ClaimDownloadJobFile(p, j, f)
  BY <1>1, ClaimTraffic
<1>2. CASE ReserveDownloadJob(p)
  BY <1>2, ReserveTraffic
<1>3. CASE ServeStream(p)
  BY <1>3, ServeTraffic
<1>4. CASE ConsumeJobFileOnce(p)
  BY <1>4, ReleaseTraffic DEF ConsumeJobFileOnce
<1>5. CASE BeginRecord(p)
  BY <1>5, BeginTraffic
<1>6. CASE KeepRange(p)
  BY <1>6, KeepTraffic
<1>7. CASE CompleteJob(p)
  BY <1>7, CompleteTraffic
<1>8. CASE RefuseCount(p)
  BY <1>8, ReleaseTraffic DEF RefuseCount
<1>9. CASE Abandon(p)
  BY <1>9, ReleaseTraffic DEF Abandon
<1>10. QED
  BY <1>1, <1>2, <1>3, <1>4, <1>5, <1>6, <1>7, <1>8, <1>9 DEF RequestStep

\* Rows are deleted with their ranges, and what is pending lapses.
LEMMA DeleteTraffic ==
    ASSUME IInv, JInv, NEW js \in SUBSET Jobs, Delete(js),
           UNCHANGED <<limit, most, usage, req>>,
           share' \in {"open", "stopped", "banned", "removed"}, edits' \in 0..MaxEdits
    PROVE  JInv'
<1>1. /\ ranges' \in [Jobs -> [Files -> SUBSET (Bytes \X Bytes)]]
      /\ told' \in [Jobs -> [Files -> SUBSET Bytes]]
      /\ \A j \in Jobs, f \in Files :
            /\ ranges'[j][f] = IF j \in js THEN {} ELSE ranges[j][f]
            /\ told'[j][f] = IF j \in js THEN {} ELSE told[j][f]
  BY DEF Delete, Nothing, JInv, Amounts
<1>2. /\ total' \in [Jobs -> Nat]
      /\ \A j \in Jobs : total'[j] = IF j \in js THEN 0 ELSE total[j]
  BY DEF Delete, JInv, Amounts
<1>3. Pending' \subseteq Pending \ js
  BY DEF Delete, Row, Pending
<1>4. Amounts'
  BY <1>1, <1>2 DEF JInv, Amounts, usage
<1>5. RangesForward'
  BY <1>1 DEF JInv, RangesForward, Forward
<1>6. RangesExact'
  <2>1. SUFFICES ASSUME NEW j \in Jobs, NEW f \in Files
                 PROVE  /\ told'[j][f] = UNION {r[1]..r[2] : r \in ranges'[j][f]}
                        /\ Apart(ranges'[j][f])
    BY DEF RangesExact, Apart
  <2>2. CASE j \in js
    <3>1. ranges'[j][f] = {} /\ told'[j][f] = {}
      BY <1>1, <2>2
    <3>2. QED
      BY <3>1 DEF Apart
  <2>3. CASE j \notin js
    <3>1. ranges'[j][f] = ranges[j][f] /\ told'[j][f] = told[j][f]
      BY <1>1, <2>3
    <3>2. QED
      BY <3>1 DEF JInv, RangesExact, Apart
  <2>4. QED
    BY <2>2, <2>3
<1>7. SlotRanges'
  BY DEF JInv, SlotRanges
<1>8. \A j \in Pending' : total'[j] = total[j]
  BY <1>2, <1>3, PendingFinite
<1>9. QED
  BY <1>3, <1>4, <1>5, <1>6, <1>7, <1>8, LapseStep DEF usage

LEMMA ClockTraffic ==
    ASSUME IInv, JInv, NEW j \in Jobs, CreateDownloadJob(j) \/ Expire(j)
    PROVE  JInv'
<1>1. CASE CreateDownloadJob(j)
  <2>1. /\ job' = [job EXCEPT ![j] = Row("created", shown)]
        /\ total' = [total EXCEPT ![j] = Weight(shown, size)] /\ job[j].state = "none"
        /\ UNCHANGED <<shareVars, usage, ranges, told, content, req>>
    BY <1>1 DEF CreateDownloadJob
  <2>2. Weight(shown, size) \in Nat
    <3>1. IsFiniteSet(shown) /\ \A f \in shown : size[f] \in Nat
      BY FS_Subset, DownloadJobAssumption DEF IInv, Typing
    <3>2. QED
      BY <3>1, WeightIsNat
  <2>3. job'[j].state = "created" /\ \A k \in Jobs \ {j} : job'[k] = job[k]
    BY <2>1 DEF Row, IInv, Typing
  <2>4. Pending' = Pending /\ j \notin Pending
    BY <2>1, <2>3 DEF Pending
  <2>5. total' \in [Jobs -> Nat] /\ \A k \in Pending' : total'[k] = total[k]
    BY <2>1, <2>2, <2>4, PendingFinite DEF JInv, Amounts
  <2>6. UNCHANGED <<share, limit, most, traffic, late, ranges, told, edits, req>>
    BY <2>1 DEF shareVars, usage, content
  <2>7. Amounts' /\ SlotRanges' /\ RangesForward' /\ RangesExact'
    BY <2>5, <2>6 DEF JInv, Amounts, SlotRanges, RangesForward, RangesExact
  <2>8. QED
    BY <2>4, <2>5, <2>6, <2>7, LapseStep
<1>2. CASE Expire(j)
  <2>1. /\ UNCHANGED <<shareVars, usage, progress, content, req>>
        /\ \A k \in Jobs : job'[k].state = job[k].state /\ (job[k].expired => job'[k].expired)
    BY <1>2 DEF Expire, IInv, Typing, Job
  <2>2. Pending' \subseteq Pending /\ SlotRanges'
    BY <2>1 DEF Pending, JInv, SlotRanges
  <2>3. QED
    BY <2>1, <2>2, StillStep DEF shareVars, usage, content, JInv, Amounts
<1>3. QED
  BY <1>1, <1>2

LEMMA EditCounts ==
    ASSUME JInv, Edit
    PROVE  edits' \in 0..MaxEdits
BY DownloadJobAssumption DEF Edit, JInv, Amounts

LEMMA LimitTraffic ==
    ASSUME IInv, JInv, NEW n \in Limits, NEW b \in ByteLimits, UpdateShareByOwner(n, b)
    PROVE  JInv'
<1>1. /\ limit'.bytes = b /\ most'.bytes = Max({most.bytes, b})
      /\ edits' \in 0..MaxEdits
      /\ UNCHANGED <<share, usage, job, progress, req>>
  BY EditCounts DEF UpdateShareByOwner
<1>2. most.bytes \in ByteLimits
  BY DEF IInv, LimitShape
<1>3. /\ most'.bytes \in ByteLimits /\ most'.bytes >= b /\ most'.bytes >= most.bytes
      /\ most'.bytes \in Nat /\ b \in Nat
  BY <1>1, <1>2, MaxOfTwo, DownloadJobAssumption
<1>4. Pending' = Pending
  BY <1>1 DEF Pending
<1>5. WithinTraffic'
  BY <1>1, <1>3, <1>4, TotalIsNat DEF JInv, WithinTraffic, Amounts, Total, usage, progress
<1>6. Amounts' /\ SlotRanges' /\ RangesForward' /\ RangesExact'
  BY <1>1 DEF JInv, Amounts, SlotRanges, RangesForward, RangesExact, usage, progress
<1>7. QED
  BY <1>1, <1>3, <1>5, <1>6 DEF JInv

LEMMA OwnerTraffic ==
    ASSUME IInv, JInv, OwnerStep
    PROVE  JInv'
<1>1. CASE \E st \in {"open", "stopped", "banned"} : SetShare(st)
  <2>1. /\ share' \in {"open", "stopped", "banned", "removed"} /\ edits' \in 0..MaxEdits
        /\ UNCHANGED <<limit, most, usage, job, progress, req>>
    BY <1>1, EditCounts DEF SetShare
  <2>2. Pending' = Pending /\ SlotRanges'
    BY <2>1 DEF Pending, JInv, SlotRanges
  <2>3. QED
    BY <2>1, <2>2, StillStep DEF usage
<1>2. CASE RemoveShare
  <2>1. {j \in Jobs : InTable(j)} \in SUBSET Jobs
    OBVIOUS
  <2>2. share' = "removed" /\ edits' \in 0..MaxEdits
    BY <1>2, EditCounts DEF RemoveShare
  <2>3. QED
    BY <1>2, <2>1, <2>2, DeleteTraffic DEF RemoveShare
<1>3. CASE \E n \in Limits, b \in ByteLimits : UpdateShareByOwner(n, b)
  BY <1>3, LimitTraffic
<1>4. CASE \E f \in Files : ShowFile(f) \/ \E s \in Sizes : ReplaceFile(f, s)
  <2>1. UNCHANGED <<shareVars, usage, job, progress, req>> /\ edits' \in 0..MaxEdits
    BY <1>4, EditCounts DEF ShowFile, ReplaceFile
  <2>2. Pending' = Pending /\ SlotRanges'
    BY <2>1 DEF Pending, JInv, SlotRanges
  <2>3. QED
    BY <2>1, <2>2, StillStep DEF shareVars, usage, JInv, Amounts
<1>5. QED
  BY <1>1, <1>2, <1>3, <1>4 DEF OwnerStep

LEMMA StepTraffic == IInv /\ JInv /\ [Next]_vars => JInv'
<1> SUFFICES ASSUME IInv, JInv, [Next]_vars PROVE JInv'
  OBVIOUS
<1>1. CASE \E p \in Requests : RequestStep(p)
  BY <1>1, RequestTraffic
<1>2. CASE \E j \in Jobs : CreateDownloadJob(j) \/ Expire(j)
  BY <1>2, ClockTraffic
<1>3. CASE CleanUp
  <2>1. {j \in Jobs : InTable(j) /\ job[j].expired} \in SUBSET Jobs
    OBVIOUS
  <2>2. UNCHANGED <<share, limit, most, usage, edits, req>>
    BY <1>3 DEF CleanUp, shareVars, content
  <2>3. QED
    BY <1>3, <2>1, <2>2, DeleteTraffic DEF CleanUp, JInv, Amounts
<1>4. CASE OwnerStep
  BY <1>4, OwnerTraffic
<1>5. CASE UNCHANGED vars
  <2>1. Pending' = Pending /\ SlotRanges'
    BY <1>5 DEF vars, Pending, JInv, SlotRanges
  <2>2. QED
    BY <1>5, <2>1, StillStep DEF vars, shareVars, usage, content, JInv, Amounts
<1>6. QED
  BY <1>1, <1>2, <1>3, <1>4, <1>5 DEF Next

LEMMA InitTraffic == Init => JInv
<1> SUFFICES ASSUME Init PROVE JInv
  OBVIOUS
<1>1. /\ \A j \in Jobs, f \in Files : ranges[j][f] = {} /\ told[j][f] = {}
      /\ ranges \in [Jobs -> [Files -> SUBSET (Bytes \X Bytes)]]
      /\ told \in [Jobs -> [Files -> SUBSET Bytes]]
  BY DEF Init, Nothing
<1>2. Amounts
  BY <1>1 DEF Init, Amounts
<1>3. RangesForward /\ RangesExact
  BY <1>1 DEF RangesForward, Forward, RangesExact
<1>4. SlotRanges
  BY DEF Init, SlotRanges, Idle, Slot
<1>5. Pending = {}
  BY DEF Init, Pending, Row
<1>6. limit \in [n: Limits, bytes: ByteLimits] /\ most = limit /\ traffic = 0
  BY DEF Init
<1>7. limit.bytes \in Nat /\ limit.bytes <= most.bytes
  <2>1. limit.bytes \in ByteLimits /\ most.bytes = limit.bytes
    BY <1>6
  <2>2. limit.bytes \in Nat
    BY <2>1, DownloadJobAssumption
  <2>3. QED
    BY <2>1, <2>2
<1>8. Total({}) = 0
  <2>1. UNION {{x} \X (1..total[x]) : x \in {}} = {}
    OBVIOUS
  <2>2. QED
    BY <2>1, FS_EmptySet DEF Total, Weight
<1>9. WithinTraffic
  BY <1>5, <1>6, <1>7, <1>8 DEF WithinTraffic
<1>10. QED
  BY <1>2, <1>3, <1>4, <1>7, <1>9 DEF JInv

LEMMA BothInv == Spec => [](IInv /\ JInv)
<1>1. Init => IInv /\ JInv
  BY InitInv, InitTraffic
<1>2. IInv /\ JInv /\ [Next]_vars => (IInv /\ JInv)'
  BY StepKeeps, StepTraffic
<1>3. QED
  BY <1>1, <1>2, PTL DEF Spec

-----------------------------------------------------------------------------
\* Whatever the number of jobs, files and concurrent requests, and however the
\* share is edited, downloads counted and under way stay within the limit, but
\* for jobs that expired inside the transaction that counted them.
THEOREM LimitHolds == Spec => []WithinLimit
<1>1. Init => IInv
  BY InitInv
<1>2. IInv /\ [Next]_vars => IInv'
  BY StepKeeps
<1>3. IInv => WithinLimit
  BY DEF IInv
<1>4. QED
  BY <1>1, <1>2, <1>3, PTL DEF Spec

\* download_count is the number of jobs completed, each counted once.
THEOREM CountIsExact == Spec => []CountedOnce
<1>1. Init => IInv
  BY InitInv
<1>2. IInv /\ [Next]_vars => IInv'
  BY StepKeeps
<1>3. IInv => CountedOnce
  BY DEF IInv
<1>4. QED
  BY <1>1, <1>2, <1>3, PTL DEF Spec

\* The jobs of a share implement Tickets.
THEOREM JobsAreTickets == Spec => ImplementsTickets
<1>1. Init => IInv /\ T!Init
  BY InitInv
<1>2. IInv /\ [Next]_vars => IInv' /\ [T!Next]_(T!vars)
  BY StepKeeps
<1>3. QED
  BY <1>1, <1>2, PTL DEF Spec, ImplementsTickets, T!Spec

\* Every variable has its type; a range that is kept lies within the largest
\* file, whatever the sizes of the files were when it was sent.
THEOREM TypesHold == Spec => []TypeOK
<1>1. IInv /\ JInv => TypeOK
  <2> SUFFICES ASSUME IInv, JInv PROVE TypeOK
    OBVIOUS
  <2>1. count \in Nat
    BY Numbers
  <2>2. QED
    BY <2>1 DEF TypeOK, IInv, JInv, Typing, LimitShape, Amounts
<1>2. QED
  BY <1>1, BothInv, PTL

\* The bytes counted and those of the downloads under way stay within the most
\* the share was ever allowed, until a job expires while it is being counted.
THEOREM TrafficHolds == Spec => []WithinTraffic
<1>1. JInv => WithinTraffic
  BY DEF JInv
<1>2. QED
  BY <1>1, BothInv, PTL

\* However the parts of a file arrive, again or out of order, the rows kept are
\* exactly the bytes recorded, one row for each run.
THEOREM RangesAreExact == Spec => []RangesExact
<1>1. JInv => RangesExact
  BY DEF JInv
<1>2. QED
  BY <1>1, BothInv, PTL

\* A job is counted when its files are covered, and covered is told.
LEMMA WholeStep ==
    ASSUME IInv, JInv, JInv', [Next]_vars, NEW j \in counted' \ counted, NEW f \in Files,
           f \in job[j].files
    PROVE  0..(size[f] - 1) \subseteq told'[j][f]
<1>1. PICK p \in Requests : CompleteJob(p)
  <2>1. counted' # counted
    OBVIOUS
  <2>2. ~(UNCHANGED vars)
    BY <2>1 DEF vars, usage
  <2>3. ASSUME NEW p \in Requests, RequestStep(p)
        PROVE  CompleteJob(p)
    BY <2>1, <2>3 DEF RequestStep, ClaimDownloadJobFile, ReserveDownloadJob, ServeStream,
       ConsumeJobFileOnce, BeginRecord, KeepRange, RefuseCount, Abandon, usage
  <2>4. ASSUME NEW i \in Jobs, CreateDownloadJob(i) \/ Expire(i)
        PROVE  FALSE
    BY <2>1, <2>4 DEF CreateDownloadJob, Expire, usage
  <2>5. ~CleanUp /\ ~OwnerStep
    BY <2>1 DEF CleanUp, OwnerStep, SetShare, RemoveShare, UpdateShareByOwner, ShowFile,
       ReplaceFile, usage
  <2>6. QED
    BY <2>2, <2>3, <2>4, <2>5 DEF Next
<1>2. /\ j = My(p) /\ j \in Jobs
      /\ Whole(j, NewRanges(p)) /\ ranges' = [ranges EXCEPT ![j] = NewRanges(p)]
  BY <1>1 DEF CompleteJob, IInv, Typing, My
<1>3. PICK R : R = ranges'[j][f]
  OBVIOUS
<1>4. /\ R \in SUBSET (Bytes \X Bytes)
      /\ told'[j][f] = UNION {r[1]..r[2] : r \in R}
  BY <1>2, <1>3 DEF JInv, Amounts, RangesExact
<1>5. IsFiniteSet(R)
  <2>1. IsFiniteSet(Bytes)
    BY BytesAreNat, FS_Interval DEF Bytes
  <2>2. IsFiniteSet(Bytes \X Bytes)
    BY <2>1, FS_Product
  <2>3. QED
    BY <1>4, <2>2, FS_Subset
<1>6. size[f] <= Covered(R)
  <2>1. ranges'[j] = NewRanges(p)
    BY <1>2 DEF JInv, Amounts
  <2>2. Covered(R) >= size[f]
    BY <1>2, <1>3, <2>1 DEF Whole
  <2>3. QED
    BY <2>2
<1>7. size[f] \in Nat
  BY DownloadJobAssumption DEF IInv, Typing
<1>8. ASSUME NEW n \in 0..(size[f] - 1)
      PROVE  n \in told'[j][f]
  <2>1. n \in Nat /\ Covered(R) \in Nat /\ n < Covered(R)
    BY <1>4, <1>5, <1>6, <1>7, CoveredFacts
  <2>2. PICK r \in R : n \in r[1]..r[2]
    BY <1>4, <1>5, <2>1, CoveredFacts
  <2>3. QED
    BY <1>4, <2>2
<1>9. QED
  BY <1>8

\* A job is counted only when every byte of every file of it has been recorded as
\* sent, whatever ranges were sent, in whatever order.
THEOREM JobsAreCountedWhole == Spec => CountedWhole
<1>1. IInv /\ JInv /\ IInv' /\ JInv' /\ [Next]_vars =>
          [\A j \in counted' \ counted, f \in Files :
              f \in job[j].files => 0..(size[f] - 1) \subseteq told'[j][f]]_vars
  BY WholeStep
<1>2. QED
  BY <1>1, BothInv, PTL DEF Spec, CountedWhole
=============================================================================
