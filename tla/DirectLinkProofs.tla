-------------------------- MODULE DirectLinkProofs --------------------------
(***************************************************************************)
(* Proofs about DirectLink, for any number of links and requests and any      *)
(* limits: the limit of a link and the quota of a day are passed by no more   *)
(* than the requests side by side and what could not be recorded; the owner's *)
(* quota is held, and a link is blocked with its file, while requests run one *)
(* after the other; side by side, a request adds a batch at most.             *)
(***************************************************************************)
EXTENDS DirectLink, FiniteSetTheorems, FunctionTheorems, TLAPS

\* The steps of a direct download, and of these the ones after each check.
Downloading == {"row", "quota", "send", "record", "complete"}

Passes(r, l) == r.step \in {"quota", "send", "record", "complete"} /\ l \in r.on
Moves(r, l) == r.step \in {"record", "complete"} /\ l \in r.on
Waits(r) == r.step = "record" \/ (r.step = "send" /\ r.arg # "exempt")
Owes(r) == r.step = "record" /\ NoLink \notin r.on

\* The requests that the limit of l let pass, and those of them that have sent
\* the file but are neither counted nor missed yet; those that the quota let
\* pass and that have not used it, and those of them that have sent a file.
Past(l) == {p \in Requests : Passes(req[p], l)}
Moving(l) == {p \in Requests : Moves(req[p], l)}
Ready == {p \in Requests : Waits(req[p])}
Sent == {p \in Requests : Owes(req[p])}

\* The downloads of l that its count should show.
Counted(l) == served[l] - missed[l] - Cardinality(Moving(l))

Typing ==
    /\ link \in [Links -> Link] /\ req \in [Requests -> Request]
    /\ usage \in Nat /\ taken \in Nat /\ unpaid \in Nat
    /\ top \in [Links -> Limits]
    /\ served \in [Links -> Nat] /\ missed \in [Links -> Nat]

\* A download is of one link, which exists or existed; a plan is of none.
Shape ==
    \A p \in Requests : req[p].step \in Downloading =>
        \/ \E l \in Links : req[p].on = {l} /\ link[l].born
        \/ req[p].step = "record" /\ req[p].on = {NoLink}

\* The count of a link is right, and its limit one of those it has had.
Rows ==
    \A l \in Links :
        /\ link[l].row => /\ link[l].born /\ link[l].limit <= top[l]
                          /\ link[l].count = Counted(l)
        /\ ~link[l].row => link[l].count = 0

Bounded == \A l \in Links : Counted(l) <= top[l]

\* When everybody has passed the check of a link, or the only one there is,
\* there is still room for one of them.
Room ==
    \A l \in Links : Past(l) # {} /\ (alone \/ Past(l) = Requests) => Counted(l) < top[l]

Lone == alone => \A p, q \in Requests : ~Free(p) /\ ~Free(q) => p = q

DayKept ==
    /\ usage + Cardinality(Ready) <= DayLimit + Cardinality(Requests) - 1
    /\ alone => usage + Cardinality(Ready) <= DayLimit
    /\ taken <= usage + unpaid + Cardinality(Sent)

IInv == Typing /\ Shape /\ Rows /\ Bounded /\ Room /\ Lone /\ DayKept


-----------------------------------------------------------------------------
(* Counting requests.                                                      *)

LEMMA Shift ==
    ASSUME NEW S, NEW T, NEW p, IsFiniteSet(S), S \ {p} = T \ {p}
    PROVE  Cardinality(T) = Cardinality(S) + (IF p \in T THEN 1 ELSE 0)
                                           - (IF p \in S THEN 1 ELSE 0)
<1> DEFINE U == S \ {p}
<1>1. IsFiniteSet(U) /\ Cardinality(U) = IF p \in S THEN Cardinality(S) - 1 ELSE Cardinality(S)
  BY FS_RemoveElement
<1>2. Cardinality(S) \in Nat /\ Cardinality(U) \in Nat
  BY <1>1, FS_CardinalityType
<1>3. Cardinality(U \cup {p}) = Cardinality(U) + 1
  BY <1>1, FS_AddElement
<1>4. Cardinality(T) = Cardinality(U) + (IF p \in T THEN 1 ELSE 0)
  <2>1. CASE p \in T
    <3>1. T = U \cup {p}
      BY <2>1
    <3>2. QED
      BY <1>3, <2>1, <3>1
  <2>2. CASE p \notin T
    <3>1. T = U
      BY <2>2
    <3>2. QED
      BY <1>2, <2>2, <3>1
  <2>3. QED
    BY <2>1, <2>2
<1>5. Cardinality(U) = Cardinality(S) - (IF p \in S THEN 1 ELSE 0)
  BY <1>1, <1>2
<1> HIDE DEF U
<1>6. QED
  BY <1>2, <1>4, <1>5

\* The sets of requests are finite, and no larger than Requests.
LEMMA Finite ==
    /\ Cardinality(Requests) \in Nat \ {0}
    /\ \A X \in {Ready, Sent} \cup {Moving(l) : l \in Links} :
          IsFiniteSet(X) /\ Cardinality(X) \in Nat /\ Cardinality(X) <= Cardinality(Requests)
<1>1. IsFiniteSet(Requests) /\ Requests # {}
  BY DirectLinkAssumption
<1>2. \A X \in {Ready, Sent} \cup {Moving(l) : l \in Links} : X \in SUBSET Requests
  BY DEF Ready, Sent, Moving
<1>3. QED
  BY <1>1, <1>2, FS_Subset, FS_CardinalityType, FS_EmptySet

LEMMA CountTypes ==
    /\ Cardinality(Requests) \in Nat \ {0}
    /\ Cardinality(Ready) \in Nat /\ Cardinality(Ready) <= Cardinality(Requests)
    /\ Cardinality(Sent) \in Nat
<1>1. Ready \in {Ready, Sent} \cup {Moving(l) : l \in Links}
  OBVIOUS
<1>2. Sent \in {Ready, Sent} \cup {Moving(l) : l \in Links}
  OBVIOUS
<1>3. QED
  BY <1>1, <1>2, Finite

LEMMA CountedType ==
    ASSUME Typing, NEW l \in Links
    PROVE  Counted(l) \in Int /\ top[l] \in Nat /\ Cardinality(Moving(l)) \in Nat
<1>1. Moving(l) \in {Ready, Sent} \cup {Moving(k) : k \in Links}
  OBVIOUS
<1>2. Cardinality(Moving(l)) \in Nat
  BY <1>1, Finite
<1>3. served[l] \in Nat /\ missed[l] \in Nat /\ top[l] \in Nat
  BY DirectLinkAssumption DEF Typing
<1>4. QED
  BY <1>2, <1>3 DEF Counted

\* What a step of one request does to the counts.
LEMMA OneRequest ==
    ASSUME Typing, NEW p \in Requests, NEW r, req' = [req EXCEPT ![p] = r]
    PROVE  /\ \A l \in Links :
                 /\ Cardinality(Moving(l)') = Cardinality(Moving(l))
                       + (IF Moves(r, l) THEN 1 ELSE 0) - (IF Moves(req[p], l) THEN 1 ELSE 0)
                 /\ Past(l)' = IF Passes(r, l) THEN Past(l) \cup {p} ELSE Past(l) \ {p}
           /\ Cardinality(Ready') = Cardinality(Ready)
                 + (IF Waits(r) THEN 1 ELSE 0) - (IF Waits(req[p]) THEN 1 ELSE 0)
           /\ Cardinality(Sent') = Cardinality(Sent)
                 + (IF Owes(r) THEN 1 ELSE 0) - (IF Owes(req[p]) THEN 1 ELSE 0)
           /\ \A q \in Requests : req'[q] = IF q = p THEN r ELSE req[q]
<1>1. \A q \in Requests : req'[q] = IF q = p THEN r ELSE req[q]
  BY DEF Typing
<1>2. IsFiniteSet(Ready) /\ IsFiniteSet(Sent) /\ \A l \in Links : IsFiniteSet(Moving(l))
  BY Finite
<1>3. ASSUME NEW l \in Links
      PROVE  Cardinality(Moving(l)') = Cardinality(Moving(l))
                + (IF Moves(r, l) THEN 1 ELSE 0) - (IF Moves(req[p], l) THEN 1 ELSE 0)
  <2>1. Moving(l)' \ {p} = Moving(l) \ {p}
    BY <1>1 DEF Moving, Moves
  <2>2. (p \in Moving(l)' <=> Moves(r, l)) /\ (p \in Moving(l) <=> Moves(req[p], l))
    BY <1>1 DEF Moving, Moves
  <2>3. QED
    BY <1>2, <2>1, <2>2, Shift
<1>4. \A l \in Links : Past(l)' = IF Passes(r, l) THEN Past(l) \cup {p} ELSE Past(l) \ {p}
  BY <1>1 DEF Past, Passes
<1>5. Cardinality(Ready') = Cardinality(Ready)
         + (IF Waits(r) THEN 1 ELSE 0) - (IF Waits(req[p]) THEN 1 ELSE 0)
  <2>1. Ready' \ {p} = Ready \ {p}
    BY <1>1 DEF Ready, Waits
  <2>2. (p \in Ready' <=> Waits(r)) /\ (p \in Ready <=> Waits(req[p]))
    BY <1>1 DEF Ready, Waits
  <2>3. QED
    BY <1>2, <2>1, <2>2, Shift
<1>6. Cardinality(Sent') = Cardinality(Sent)
         + (IF Owes(r) THEN 1 ELSE 0) - (IF Owes(req[p]) THEN 1 ELSE 0)
  <2>1. Sent' \ {p} = Sent \ {p}
    BY <1>1 DEF Sent, Owes
  <2>2. (p \in Sent' <=> Owes(r)) /\ (p \in Sent <=> Owes(req[p]))
    BY <1>1 DEF Sent, Owes
  <2>3. QED
    BY <1>2, <2>1, <2>2, Shift
<1>7. QED
  BY <1>1, <1>3, <1>4, <1>5, <1>6

-----------------------------------------------------------------------------
(* What keeps each part of the invariant.                                  *)

\* Nobody passes the check of a link, and no download is counted.
LEMMA LinksKept ==
    ASSUME IInv, Typing', alone' => alone,
           \A l \in Links :
               /\ Past(l)' \subseteq Past(l) /\ Counted(l)' = Counted(l)
               /\ top[l] <= top'[l]
               /\ link'[l].row => /\ link[l].row /\ link'[l].count = link[l].count
                                  /\ link'[l].limit <= top'[l] /\ link'[l].born
               /\ ~link'[l].row => link'[l].count = 0
    PROVE  Rows' /\ Bounded' /\ Room'
<1>1. \A l \in Links : /\ Counted(l) \in Int /\ Counted(l)' = Counted(l)
                       /\ top[l] \in Nat /\ top'[l] \in Nat
  BY CountedType, DirectLinkAssumption DEF IInv, Typing
<1>2. Rows'
  BY <1>1 DEF IInv, Rows
<1>3. Bounded'
  BY <1>1 DEF IInv, Bounded
<1>4. ASSUME NEW l \in Links, Past(l)' # {}, alone' \/ Past(l)' = Requests
      PROVE  Counted(l)' < top'[l]
  <2>1. Past(l) # {} /\ (alone \/ Past(l) = Requests)
    BY <1>4 DEF Past
  <2>2. Counted(l) < top[l]
    BY <2>1 DEF IInv, Room
  <2>3. QED
    BY <1>1, <2>2
<1>5. QED
  BY <1>2, <1>3, <1>4 DEF Room

\* A request is alone after a step if it was before, or if it is the first.
LEMMA LoneKept ==
    ASSUME Lone, NEW p \in Requests,
           \/ UNCHANGED alone /\ \A q \in Requests : Free(q) => Free(q)'
           \/ alone' => \A q \in Requests \ {p} : Free(q)'
    PROVE  Lone'
  BY DEF Lone

LEMMA LoneStep ==
    ASSUME Typing, Lone, NEW p \in Requests, NEW r,
           \/ Start(p, r)
           \/ Become(p, r) /\ ~Free(p)
           \/ AtOnce
           \/ UNCHANGED <<req, alone>>
    PROVE  Lone' /\ (alone' => alone)
<1>1. CASE Start(p, r)
  <2>1. alone' => alone /\ \A q \in Requests : Free(q)
    BY <1>1 DEF Start, Arrive
  <2>2. \A q \in Requests \ {p} : Free(q) => Free(q)'
    BY <1>1 DEF Start, Free, Typing
  <2>3. QED
    BY <2>1, <2>2, LoneKept
<1>2. CASE Become(p, r) /\ ~Free(p)
  <2>1. \A q \in Requests : Free(q) => Free(q)'
    BY <1>2 DEF Become, Free, Typing
  <2>2. QED
    BY <1>2, <2>1, LoneKept DEF Become
<1>3. CASE AtOnce
  <2>1. alone' => alone /\ \A q \in Requests : Free(q)
    BY <1>3 DEF AtOnce, Arrive
  <2>2. \A q \in Requests : Free(q) => Free(q)'
    BY <1>3 DEF AtOnce, Free
  <2>3. QED
    BY <2>1, <2>2, LoneKept
<1>4. CASE UNCHANGED <<req, alone>>
  BY <1>4 DEF Lone, Free
<1>5. QED
  BY <1>1, <1>2, <1>3, <1>4

\* The other requests keep their shape, and links that existed did.
LEMMA ShapeKept ==
    ASSUME Shape, \A l \in Links : link[l].born => link'[l].born,
           \A q \in Requests :
               \/ req'[q] = req[q]
               \/ req'[q].step \notin Downloading
               \/ \E l \in Links : req'[q].on = {l} /\ link'[l].born
               \/ req'[q].step = "record" /\ req'[q].on = {NoLink}
    PROVE  Shape'
  BY DEF Shape

\* Steps that count nothing and let nobody pass.
Counting == {"quota", "send", "record", "complete"}

LEMMA Quiet ==
    ASSUME IInv, Typing', Shape', Lone', alone' => alone,
           UNCHANGED <<usage, taken, unpaid, served, missed>>,
           \A q \in Requests : \/ req'[q] = req[q]
                               \/ req[q].step \notin Counting /\ req'[q].step \notin Counting,
           \A l \in Links :
               /\ top[l] <= top'[l]
               /\ link'[l].row => /\ link[l].row /\ link'[l].count = link[l].count
                                  /\ link'[l].limit <= top'[l] /\ link'[l].born
               /\ ~link'[l].row => link'[l].count = 0
    PROVE  IInv'
<1>1. Ready' = Ready /\ Sent' = Sent
  BY DEF Ready, Waits, Sent, Owes, Counting
<1>2. \A l \in Links : Past(l)' = Past(l) /\ Moving(l)' = Moving(l)
  BY DEF Past, Passes, Moving, Moves, Counting
<1>3. \A l \in Links : Counted(l)' = Counted(l)
  BY <1>2 DEF Counted
<1>4. Rows' /\ Bounded' /\ Room'
  BY <1>2, <1>3, LinksKept
<1>5. DayKept'
  BY <1>1 DEF IInv, DayKept
<1>6. QED
  BY <1>4, <1>5 DEF IInv

-----------------------------------------------------------------------------
(* The steps that are no part of a download.                               *)

\* One slot changes, but not into or out of a download, and links change
\* nothing that the count depends on.
LEMMA Aside ==
    ASSUME IInv, NEW p \in Requests, NEW r \in Request,
           \/ Start(p, r)
           \/ Become(p, r) /\ ~Free(p)
           \/ AtOnce /\ r = req[p]
           \/ UNCHANGED <<req, alone>> /\ r = req[p],
           r = req[p] \/ (req[p].step \notin Counting /\ r.step \notin Downloading),
           UNCHANGED <<usage, taken, unpaid, served, missed>>,
           link' \in [Links -> Link], top' \in [Links -> Limits],
           \A l \in Links :
               /\ top[l] <= top'[l]
               /\ link[l].born => link'[l].born
               /\ link'[l].row => /\ link[l].row /\ link'[l].count = link[l].count
                                  /\ link'[l].limit <= top'[l]
               /\ ~link'[l].row => link'[l].count = 0
    PROVE  IInv'
<1>1. req' = [req EXCEPT ![p] = r]
  BY DEF Start, Become, AtOnce, IInv, Typing
<1>2. Typing'
  BY <1>1 DEF IInv, Typing
<1>3. \A q \in Requests : req'[q] = IF q = p THEN r ELSE req[q]
  BY <1>1 DEF IInv, Typing
<1>4. Shape'
  BY <1>3, ShapeKept DEF IInv
<1>5. Lone' /\ (alone' => alone)
  BY LoneStep DEF IInv
<1>6. \A q \in Requests : \/ req'[q] = req[q]
                          \/ req[q].step \notin Counting /\ req'[q].step \notin Counting
  BY <1>3 DEF Counting, Downloading
<1>7. \A l \in Links : link'[l].row => link'[l].born
  BY DEF IInv, Rows
<1>8. QED
  BY <1>2, <1>4, <1>5, <1>6, <1>7, Quiet

\* The steps that leave the links alone as well.
LEMMA AsideData ==
    ASSUME IInv, NEW p \in Requests, NEW r \in Request,
           \/ Start(p, r)
           \/ Become(p, r) /\ ~Free(p)
           \/ AtOnce /\ r = req[p]
           \/ UNCHANGED <<req, alone>> /\ r = req[p],
           r = req[p] \/ (req[p].step \notin Counting /\ r.step \notin Downloading),
           UNCHANGED <<link, usage, taken, unpaid, top, served, missed>>
    PROVE  IInv'
<1>1. \A l \in Links : /\ top[l] <= top[l]
                       /\ link[l].row => link[l].limit <= top[l]
                       /\ ~link[l].row => link[l].count = 0
  BY CountedType DEF IInv, Rows
<1>2. link' \in [Links -> Link] /\ top' \in [Links -> Limits]
  BY DEF IInv, Typing
<1>3. QED
  BY <1>1, <1>2, Aside

LEMMA StepsTyped ==
    /\ Idle \in Request
    /\ \A ls \in SUBSET Links :
          /\ Slot("insert", "", ls) \in Request
          /\ \A action \in {"enable", "disable", "delete"} : Slot("write", action, ls) \in Request
          /\ \A v \in {"approved", "rejected", "blocked"} : Slot("flag", v, ls) \in Request
  BY DEF Idle, Slot, Request

LEMMA StartsAside ==
    ASSUME IInv, NEW p \in Requests,
           \/ \E l \in Links : CheckCreate(p, l)
           \/ \E ls \in SUBSET Links, action \in {"enable", "disable", "delete"} :
                 StartBatch(p, ls, action)
           \/ \E l \in Links, verdict \in {"approved", "rejected", "blocked"} :
                 DisposeFile(p, l, verdict)
    PROVE  IInv'
<1>1. ASSUME NEW r \in Request, Start(p, r), r.step \notin Downloading,
             UNCHANGED <<link, usage, history>>
      PROVE  IInv'
  <2>1. req[p].step \notin Counting
    BY <1>1 DEF Start, Free, Counting
  <2>2. UNCHANGED <<link, usage, taken, unpaid, top, served, missed>>
    BY <1>1 DEF history
  <2>3. QED
    BY <1>1, <2>1, <2>2, AsideData
<1>2. ASSUME NEW l \in Links, CheckCreate(p, l) PROVE IInv'
  <2>1. {l} \in SUBSET Links
    OBVIOUS
  <2>2. Slot("insert", "", {l}).step = "insert"
    BY DEF Slot
  <2>3. QED
    BY <1>1, <1>2, <2>1, <2>2, StepsTyped DEF CheckCreate, Downloading, data
<1>3. ASSUME NEW ls \in SUBSET Links, NEW action \in {"enable", "disable", "delete"},
             StartBatch(p, ls, action)
      PROVE  IInv'
  <2>1. Slot("write", action, ls).step = "write"
    BY DEF Slot
  <2>2. QED
    BY <1>1, <1>3, <2>1, StepsTyped DEF StartBatch, Downloading, data
<1>4. ASSUME NEW l \in Links, NEW v \in {"approved", "rejected", "blocked"}, DisposeFile(p, l, v)
      PROVE  IInv'
  <2>1. {l} \in SUBSET Links
    OBVIOUS
  <2>2. Slot("flag", v, {l}).step = "flag"
    BY DEF Slot
  <2>3. QED
    BY <1>1, <1>4, <2>1, <2>2, StepsTyped DEF DisposeFile, Downloading
<1>5. QED
  BY <1>2, <1>3, <1>4

\* The rows that a step leaves, and those it writes with their count.
LEMMA LinkRows ==
    ASSUME IInv, NEW l \in Links
    PROVE  /\ link[l] \in Link /\ top[l] \in Limits /\ top[l] \in Nat /\ top[l] <= top[l]
           /\ link[l].row => link[l].limit <= top[l]
           /\ ~link[l].row => link[l].count = 0
<1>1. link[l] \in Link /\ top[l] \in Limits
  BY DEF IInv, Typing
<1>2. top[l] \in Nat
  BY <1>1, DirectLinkAssumption
<1>3. top[l] <= top[l]
  BY <1>2
<1>4. QED
  BY <1>1, <1>2, <1>3 DEF IInv, Rows

LEMMA OwnerAside ==
    ASSUME IInv, NEW l \in Links,
           \/ \E n \in Limits, extend \in BOOLEAN : UpdateDirectLink(l, n, extend)
           \/ TrashFile(l)
           \/ Expire(l)
    PROVE  IInv'
<1>1. PICK p \in Requests : TRUE
  BY DirectLinkAssumption
<1>2. req[p] \in Request
  BY DEF IInv, Typing
<1>3. ASSUME NEW n \in Limits, NEW extend \in BOOLEAN, UpdateDirectLink(l, n, extend)
      PROVE  IInv'
  <2>1. n \in Nat
    BY DirectLinkAssumption
  <2>2. [link[l] EXCEPT !.limit = n, !.expired = link[l].expired /\ ~extend] \in Link
    BY LinkRows DEF Link
  <2>3. link' \in [Links -> Link] /\ top' \in [Links -> Limits]
    BY <1>3, <2>2 DEF UpdateDirectLink, IInv, Typing
  <2>4. ASSUME NEW k \in Links
        PROVE  /\ top[k] <= top'[k]
               /\ link[k].born => link'[k].born
               /\ link'[k].row => /\ link[k].row /\ link'[k].count = link[k].count
                                  /\ link'[k].limit <= top'[k]
               /\ ~link'[k].row => link'[k].count = 0
    <3>1. link[k] \in Link /\ link' = [link EXCEPT ![l] = [link[l] EXCEPT !.limit = n, !.expired = link[l].expired /\ ~extend]]
      BY <1>3, LinkRows DEF UpdateDirectLink, IInv, Typing
    <3>2. top' = [top EXCEPT ![l] = IF n > top[l] THEN n ELSE top[l]]
      BY <1>3 DEF UpdateDirectLink
    <3>3. CASE k # l
      BY <3>1, <3>2, <3>3, LinkRows DEF IInv, Typing
    <3>4. CASE k = l
      BY <2>1, <3>1, <3>2, <3>4, LinkRows DEF IInv, Typing, Link
    <3>5. QED
      BY <3>3, <3>4
  <2>5. AtOnce /\ UNCHANGED <<usage, taken, unpaid, served, missed>>
    BY <1>3 DEF UpdateDirectLink, Tally
  <2>6. QED
    BY <1>2, <2>3, <2>4, <2>5, Aside
<1>4. ASSUME TrashFile(l) PROVE IInv'
  <2>1. AtOnce /\ UNCHANGED <<link, usage, taken, unpaid, top, served, missed>>
    BY <1>4 DEF TrashFile, Tally
  <2>2. QED
    BY <1>2, <2>1, AsideData
<1>5. ASSUME Expire(l) PROVE IInv'
  <2>1. [link[l] EXCEPT !.expired = TRUE] \in Link
    BY LinkRows DEF Link
  <2>2. link' \in [Links -> Link] /\ top' \in [Links -> Limits] /\ top' = top
    BY <1>5, <2>1 DEF Expire, IInv, Typing
  <2>3. \A k \in Links : /\ link'[k].row = link[k].row /\ link'[k].born = link[k].born
                         /\ link'[k].count = link[k].count /\ link'[k].limit = link[k].limit
    BY <1>5, LinkRows DEF Expire, IInv, Typing, Link
  <2>4. UNCHANGED <<req, alone>> /\ UNCHANGED <<usage, taken, unpaid, served, missed>>
    BY <1>5 DEF Expire, Tally
  <2>5. QED
    BY <1>2, <2>2, <2>3, <2>4, LinkRows, Aside
<1>6. QED
  BY <1>3, <1>4, <1>5

LEMMA BatchAside ==
    ASSUME IInv, NEW p \in Requests, BatchDirectLinks(p)
    PROVE  IInv'
<1> DEFINE ls == req[p].on
           After(l) == IF req[p].arg = "delete" THEN [NoRow(link[l].limit) EXCEPT !.born = TRUE]
                       ELSE [link[l] EXCEPT !.active = req[p].arg = "enable"]
<1>1. /\ req[p].step = "write" /\ Become(p, Idle)
      /\ link' = IF \A l \in ls : link[l].row
                 THEN [l \in Links |-> IF l \in ls THEN After(l) ELSE link[l]] ELSE link
      /\ UNCHANGED <<usage, taken, unpaid, top, served, missed>>
  BY DEF BatchDirectLinks, Tally, At
<1>2. ASSUME NEW l \in Links
      PROVE  /\ After(l) \in Link
             /\ After(l).row => link[l].row /\ After(l).count = link[l].count
             /\ After(l).limit = link[l].limit
             /\ ~After(l).row /\ link[l].row => After(l).count = 0
             /\ ~link[l].row => After(l).count = 0
             /\ link[l].born => After(l).born
  <2>1. CASE req[p].arg = "delete"
    <3>1. After(l) = [born |-> TRUE, row |-> FALSE, active |-> FALSE, expired |-> FALSE,
                      blocked |-> FALSE, limit |-> link[l].limit, count |-> 0]
      BY <2>1 DEF NoRow
    <3> HIDE DEF After
    <3>2. QED
      BY <3>1, LinkRows DEF Link
  <2>2. CASE req[p].arg # "delete"
    <3> DEFINE b == req[p].arg = "enable"
    <3>1. After(l) = [link[l] EXCEPT !.active = b] /\ b \in BOOLEAN
      BY <2>2
    <3> HIDE DEF b, After
    <3>2. QED
      BY <3>1, LinkRows DEF Link
  <2>3. QED
    BY <2>1, <2>2
<1> HIDE DEF After, ls
<1>3. link' \in [Links -> Link]
  BY <1>1, <1>2, LinkRows DEF IInv, Typing
<1>4. top' \in [Links -> Limits] /\ top' = top
  BY <1>1 DEF IInv, Typing
<1>5. ASSUME NEW l \in Links
      PROVE  /\ top[l] <= top'[l]
             /\ link[l].born => link'[l].born
             /\ link'[l].row => /\ link[l].row /\ link'[l].count = link[l].count
                                /\ link'[l].limit <= top'[l]
             /\ ~link'[l].row => link'[l].count = 0
  <2>1. link'[l] = link[l] \/ link'[l] = After(l)
    BY <1>1
  <2>2. QED
    BY <1>2, <1>4, <2>1, LinkRows
<1>6. ~Free(p) /\ req[p].step \notin Counting /\ Idle.step \notin Downloading
  BY <1>1 DEF Free, Counting, Idle, Slot, Downloading
<1>7. QED
  BY <1>1, <1>3, <1>4, <1>5, <1>6, StepsTyped, Aside

LEMMA ReviewAside ==
    ASSUME IInv, NEW p \in Requests, FlagLinks(p) \/ ReviewFile(p)
    PROVE  IInv'
<1>1. ASSUME NEW l \in req[p].on, At(p, "flag"), Become(p, [req[p] EXCEPT !.step = "review"]),
             link' = Flagged(l, req[p].arg),
             UNCHANGED <<usage, taken, unpaid, top, served, missed>>
      PROVE  IInv'
  <2> DEFINE r == [req[p] EXCEPT !.step = "review"]
             b == link[l].row /\ req[p].arg = "blocked"
  <2>1. r \in Request /\ r.step = "review"
    BY DEF IInv, Typing, Request
  <2>2. ~Free(p) /\ req[p].step \notin Counting /\ r.step \notin Downloading
    BY <1>1, <2>1 DEF At, Free, Counting, Downloading
  <2>3. link' = [link EXCEPT ![l] = [link[l] EXCEPT !.blocked = b]] /\ b \in BOOLEAN
    BY <1>1 DEF Flagged
  <2> HIDE DEF b, r
  <2>4. ASSUME NEW k \in Links
        PROVE  /\ link'[k] \in Link
               /\ link'[k].row = link[k].row /\ link'[k].born = link[k].born
               /\ link'[k].count = link[k].count /\ link'[k].limit = link[k].limit
    <3>1. link'[k] = link[k] \/ link'[k] = [link[k] EXCEPT !.blocked = b]
      BY <2>3 DEF IInv, Typing
    <3>2. QED
      BY <2>3, <3>1, LinkRows DEF Link
  <2>5. link' \in [Links -> Link] /\ top' \in [Links -> Limits] /\ top' = top
    <3>1. DOMAIN link' = Links /\ link' = [k \in DOMAIN link' |-> link'[k]]
      BY <2>3 DEF IInv, Typing
    <3>2. link' \in [Links -> Link]
      BY <2>4, <3>1
    <3>3. QED
      BY <1>1, <3>2 DEF IInv, Typing
  <2>6. Become(p, r)
    BY <1>1 DEF r
  <2>7. QED
    BY <1>1, <2>1, <2>2, <2>4, <2>5, <2>6, LinkRows, Aside
<1>2. ASSUME At(p, "review"), Become(p, Idle),
             UNCHANGED <<link, usage, taken, unpaid, top, served, missed>>
      PROVE  IInv'
  <2>1. ~Free(p) /\ req[p].step \notin Counting /\ Idle.step \notin Downloading
    BY <1>2 DEF At, Free, Counting, Idle, Slot, Downloading
  <2>2. QED
    BY <1>2, <2>1, StepsTyped, AsideData
<1>3. QED
  BY <1>1, <1>2 DEF FlagLinks, ReviewFile, Tally

\* A link that does not exist yet has no requests.
LEMMA CreateAside ==
    ASSUME IInv, NEW p \in Requests, NEW n \in Limits, CreateDirectLink(p, n)
    PROVE  IInv'
<1>1. PICK l \in req[p].on :
          /\ req[p].step = "insert" /\ ~link[l].born /\ Become(p, Idle)
          /\ link' = [link EXCEPT ![l] = NewLink(n)]
          /\ top' = [top EXCEPT ![l] = n]
          /\ served' = [served EXCEPT ![l] = 0] /\ missed' = [missed EXCEPT ![l] = 0]
          /\ UNCHANGED <<usage, taken, unpaid>>
  BY DEF CreateDirectLink, At
<1>2. NewLink(n) \in Link /\ NewLink(n).row /\ NewLink(n).born /\ NewLink(n).count = 0
      /\ NewLink(n).limit = n
  BY DEF NewLink, NoRow, Link
<1>3. n \in Nat
  BY DirectLinkAssumption
<1>4. Typing'
  BY <1>1, <1>2, StepsTyped DEF Become, IInv, Typing
<1>5. \A q \in Requests : req'[q] = IF q = p THEN Idle ELSE req[q]
  BY <1>1 DEF Become, IInv, Typing
<1>6. Idle.step = "idle" /\ req[p].step = "insert"
  BY <1>1 DEF Idle, Slot
<1>7. \A k \in Links : link'[k] = IF k = l THEN NewLink(n) ELSE link[k]
  BY <1>1 DEF IInv, Typing
<1>8. Shape'
  BY <1>2, <1>5, <1>6, <1>7, ShapeKept DEF Downloading, IInv
<1>9. Lone' /\ UNCHANGED alone
  BY <1>1, <1>6, LoneStep DEF Free, Become, IInv
<1>10. Ready' = Ready /\ Sent' = Sent
       /\ \A k \in Links : Past(k)' = Past(k) /\ Moving(k)' = Moving(k)
  BY <1>5, <1>6 DEF Ready, Waits, Sent, Owes, Past, Passes, Moving, Moves
<1>11. DayKept'
  BY <1>1, <1>9, <1>10 DEF IInv, DayKept
<1>12. ASSUME NEW k \in Links, k # l
       PROVE  Counted(k)' = Counted(k) /\ top'[k] = top[k] /\ link'[k] = link[k]
  BY <1>1, <1>10, <1>12 DEF Counted, IInv, Typing
<1>13. ASSUME l \in Links
       PROVE  Counted(l)' = 0 /\ top'[l] = n /\ Past(l)' = {}
  <2>1. Past(l) = {} /\ Moving(l) = {}
    BY <1>1, <1>13, DirectLinkAssumption
       DEF IInv, Shape, Past, Passes, Moving, Moves, Downloading
  <2>2. served'[l] = 0 /\ missed'[l] = 0 /\ top'[l] = n
    BY <1>1, <1>13 DEF IInv, Typing
  <2>3. QED
    BY <1>10, <1>13, <2>1, <2>2, FS_EmptySet DEF Counted
<1>14. Rows' /\ Bounded'
  <2>1. ASSUME NEW k \in Links
        PROVE  /\ Counted(k)' <= top'[k]
               /\ link'[k].row => /\ link'[k].born /\ link'[k].limit <= top'[k]
                                  /\ link'[k].count = Counted(k)'
               /\ ~link'[k].row => link'[k].count = 0
    <3>1. CASE k = l
      BY <1>2, <1>3, <1>7, <1>13, <3>1
    <3>2. CASE k # l
      BY <1>12, <3>2 DEF IInv, Rows, Bounded
    <3>3. QED
      BY <3>1, <3>2
  <2>2. QED
    BY <2>1 DEF Rows, Bounded
<1>15. Room'
  <2>1. ASSUME NEW k \in Links, Past(k)' # {}, alone' \/ Past(k)' = Requests
        PROVE  Counted(k)' < top'[k]
    <3>1. k # l
      BY <1>13, <2>1
    <3>2. QED
      BY <1>9, <1>10, <1>12, <2>1, <3>1 DEF IInv, Room
  <2>2. QED
    BY <2>1 DEF Room
<1>16. QED
  BY <1>4, <1>8, <1>9, <1>11, <1>14, <1>15 DEF IInv

-----------------------------------------------------------------------------
(* The steps of a download.                                                *)

\* What a download is of.
LEMMA OfOneLink ==
    ASSUME IInv, NEW p \in Requests, req[p].step \in Downloading, req[p].step # "record"
    PROVE  \E l \in Links : req[p].on = {l} /\ link[l].born
  BY DEF IInv, Shape

\* One slot takes a step of a download, which changes no link.
LEMMA DownloadStep ==
    ASSUME IInv, NEW p \in Requests, NEW r \in Request,
           Start(p, r) \/ (Become(p, r) /\ ~Free(p)),
           \/ r.step \notin Downloading
           \/ \E l \in Links : r.on = {l} /\ link[l].born
           \/ r.step = "record" /\ r.on = {NoLink},
           \A l \in Links : link[l].born => link'[l].born
    PROVE  /\ req' = [req EXCEPT ![p] = r] /\ req' \in [Requests -> Request]
           /\ \A q \in Requests : req'[q] = IF q = p THEN r ELSE req[q]
           /\ Shape' /\ Lone' /\ (alone' => alone)
<1>1. req' = [req EXCEPT ![p] = r] /\ req' \in [Requests -> Request]
  BY DEF Start, Become, IInv, Typing
<1>2. \A q \in Requests : req'[q] = IF q = p THEN r ELSE req[q]
  BY <1>1 DEF IInv, Typing
<1>3. Shape'
  BY <1>2, ShapeKept DEF IInv
<1>4. Lone' /\ (alone' => alone)
  BY LoneStep DEF IInv
<1>5. QED
  BY <1>1, <1>2, <1>3, <1>4

LEMMA OpenStep ==
    ASSUME IInv, NEW p \in Requests, NEW l \in Links, OpenLink(p, l)
    PROVE  IInv'
<1> DEFINE r == Slot("row", "", {l})
<1>1. r \in Request /\ r.step = "row" /\ r.on = {l}
  BY DEF Slot, Request
<1>2. Start(p, r) /\ link[l].born
      /\ UNCHANGED <<link, usage, taken, unpaid, top, served, missed>>
  BY DEF OpenLink, data, history, IInv, Rows
<1> HIDE DEF r
<1>3. /\ req' \in [Requests -> Request]
      /\ \A q \in Requests : req'[q] = IF q = p THEN r ELSE req[q]
      /\ Shape' /\ Lone' /\ (alone' => alone)
  BY <1>1, <1>2, DownloadStep
<1>4. Typing'
  BY <1>2, <1>3 DEF IInv, Typing
<1>5. \A q \in Requests : \/ req'[q] = req[q]
                          \/ req[q].step \notin Counting /\ req'[q].step \notin Counting
  BY <1>1, <1>2, <1>3 DEF Start, Free, Counting
<1>6. \A k \in Links : /\ top[k] <= top'[k]
                       /\ link'[k].row => /\ link[k].row /\ link'[k].count = link[k].count
                                          /\ link'[k].limit <= top'[k] /\ link'[k].born
                       /\ ~link'[k].row => link'[k].count = 0
  BY <1>2, LinkRows DEF IInv, Rows
<1>7. QED
  BY <1>2, <1>3, <1>4, <1>5, <1>6, Quiet

\* The row was read: the limit of the link lets the request pass, or it ends.
LEMMA ReadStep ==
    ASSUME IInv, NEW p \in Requests, ReadLink(p)
    PROVE  IInv'
<1>1. PICK l \in Links : req[p].on = {l} /\ link[l].born
  BY OfOneLink DEF ReadLink, At, Downloading
<1> DEFINE pass == l \in Active /\ WithinLinkLimit(l)
           next == [req[p] EXCEPT !.step = "quota"]
<1>2. /\ req[p].step = "row" /\ UNCHANGED <<link, usage, taken, unpaid, top, served, missed>>
      /\ Become(p, IF pass THEN next ELSE Idle)
  BY <1>1 DEF ReadLink, At, data, history
<1>3. PICK r \in Request : /\ Become(p, r)
                           /\ pass => r.step = "quota" /\ r.on = {l}
                           /\ ~pass => r.step = "idle"
  <2>1. next \in Request /\ next.step = "quota" /\ next.on = {l}
    BY <1>1 DEF IInv, Typing, Request
  <2>2. Idle \in Request /\ Idle.step = "idle"
    BY StepsTyped DEF Idle, Slot
  <2> HIDE DEF pass, next
  <2>3. CASE pass
    BY <1>2, <2>1, <2>3
  <2>4. CASE ~pass
    BY <1>2, <2>2, <2>4
  <2>5. QED
    BY <2>3, <2>4
<1>4. pass => link[l].row /\ link[l].count < link[l].limit
  BY DEF Active, WithinLinkLimit
<1> HIDE DEF pass, next
<1>5. /\ req' = [req EXCEPT ![p] = r] /\ req' \in [Requests -> Request]
      /\ Shape' /\ Lone' /\ UNCHANGED alone
  BY <1>1, <1>2, <1>3, DownloadStep DEF Free, Downloading, Become
<1>6. Typing'
  BY <1>2, <1>5 DEF IInv, Typing
<1>7. \A k \in Links : ~Moves(r, k) /\ ~Moves(req[p], k)
  BY <1>2, <1>3 DEF Moves
<1>8. ASSUME NEW k \in Links PROVE Counted(k)' = Counted(k)
  <2>1. Cardinality(Moving(k)) \in Nat
    BY CountedType DEF IInv
  <2>2. Cardinality(Moving(k)') = Cardinality(Moving(k))
            + (IF Moves(r, k) THEN 1 ELSE 0) - (IF Moves(req[p], k) THEN 1 ELSE 0)
    BY <1>5, OneRequest DEF IInv
  <2>3. QED
    BY <1>2, <1>7, <2>1, <2>2 DEF Counted
<1>9. ASSUME NEW k \in Links PROVE Past(k)' \subseteq Past(k) \/ (k = l /\ pass)
  <2>1. Past(k)' = IF Passes(r, k) THEN Past(k) \cup {p} ELSE Past(k) \ {p}
    BY <1>5, OneRequest DEF IInv
  <2>2. Passes(r, k) => k = l /\ pass
    BY <1>3 DEF Passes
  <2>3. QED
    BY <2>1, <2>2
<1>10. Rows' /\ Bounded'
  BY <1>2, <1>8 DEF IInv, Rows, Bounded
<1>11. Room'
  <2>1. ASSUME NEW k \in Links, Past(k)' # {}, alone' \/ Past(k)' = Requests
        PROVE  Counted(k)' < top'[k]
    <3>1. CASE Past(k)' \subseteq Past(k)
      <4>1. Past(k) # {} /\ (alone \/ Past(k) = Requests)
        BY <1>5, <2>1, <3>1 DEF Past
      <4>2. QED
        BY <1>2, <1>8, <4>1 DEF IInv, Room
    <3>2. CASE k = l /\ pass
      <4>1. /\ link[l].count = Counted(l) /\ link[l].limit <= top[l]
            /\ link[l].count < link[l].limit
        BY <1>4, <3>2 DEF IInv, Rows
      <4>2. link[l].limit \in Nat /\ Counted(l) \in Int /\ top[l] \in Nat
        BY CountedType, LinkRows, DirectLinkAssumption DEF Link, IInv
      <4>3. QED
        BY <1>2, <1>8, <3>2, <4>1, <4>2
    <3>3. QED
      BY <1>9, <3>1, <3>2
  <2>2. QED
    BY <2>1 DEF Room
<1>12. DayKept'
  <2>1. ~Waits(r) /\ ~Waits(req[p]) /\ ~Owes(r) /\ ~Owes(req[p])
    BY <1>2, <1>3 DEF Waits, Owes
  <2>2. /\ Cardinality(Ready') = Cardinality(Ready)
               + (IF Waits(r) THEN 1 ELSE 0) - (IF Waits(req[p]) THEN 1 ELSE 0)
        /\ Cardinality(Sent') = Cardinality(Sent)
               + (IF Owes(r) THEN 1 ELSE 0) - (IF Owes(req[p]) THEN 1 ELSE 0)
    BY <1>5, OneRequest DEF IInv
  <2>3. QED
    BY <1>2, <1>5, <2>1, <2>2, CountTypes DEF IInv, DayKept
<1>13. QED
  BY <1>5, <1>6, <1>10, <1>11, <1>12 DEF IInv

\* A step that changes no link, and what is sent is what is on its way.
LEMMA LinksSettled ==
    ASSUME IInv, NEW p \in Requests, NEW r \in Request, Typing',
           req' = [req EXCEPT ![p] = r], alone' => alone, UNCHANGED <<link, top>>,
           \A l \in Links : /\ Passes(r, l) => Passes(req[p], l)
                            /\ served'[l] - missed'[l] = served[l] - missed[l]
                                 + (IF Moves(r, l) THEN 1 ELSE 0)
                                 - (IF Moves(req[p], l) THEN 1 ELSE 0)
    PROVE  Rows' /\ Bounded' /\ Room'
<1>1. ASSUME NEW l \in Links PROVE Counted(l)' = Counted(l)
  <2>1. /\ served[l] \in Nat /\ missed[l] \in Nat /\ served'[l] \in Nat /\ missed'[l] \in Nat
        /\ Cardinality(Moving(l)) \in Nat
    BY CountedType DEF IInv, Typing
  <2>2. Cardinality(Moving(l)') = Cardinality(Moving(l))
            + (IF Moves(r, l) THEN 1 ELSE 0) - (IF Moves(req[p], l) THEN 1 ELSE 0)
    BY OneRequest DEF IInv
  <2>3. QED
    BY <2>1, <2>2 DEF Counted
<1>2. ASSUME NEW l \in Links PROVE Past(l)' \subseteq Past(l)
  <2>1. Past(l)' = IF Passes(r, l) THEN Past(l) \cup {p} ELSE Past(l) \ {p}
    BY OneRequest DEF IInv
  <2>2. Passes(r, l) => p \in Past(l)
    BY DEF Past
  <2>3. QED
    BY <2>1, <2>2
<1>3. \A l \in Links : /\ top[l] <= top'[l]
                       /\ link'[l].row => /\ link[l].row /\ link'[l].count = link[l].count
                                          /\ link'[l].limit <= top'[l] /\ link'[l].born
                       /\ ~link'[l].row => link'[l].count = 0
  BY LinkRows DEF IInv, Rows
<1>4. QED
  BY <1>1, <1>2, <1>3, LinksKept

\* Nobody waits for the quota but p, or there was room for all but one.
LEMMA Joins ==
    ASSUME IInv, NEW p \in Requests, NEW r \in Request, req' = [req EXCEPT ![p] = r],
           alone' => alone, ~Waits(req[p]), usage' = usage,
           Waits(r) => usage < DayLimit /\ (alone' => \A q \in Requests \ {p} : Free(q))
    PROVE  /\ usage' + Cardinality(Ready') <= DayLimit + Cardinality(Requests) - 1
           /\ alone' => usage' + Cardinality(Ready') <= DayLimit
<1>1. Cardinality(Ready') = Cardinality(Ready)
         + (IF Waits(r) THEN 1 ELSE 0) - (IF Waits(req[p]) THEN 1 ELSE 0)
  BY OneRequest DEF IInv
<1>2. usage \in Nat /\ DayLimit \in Nat
  BY DirectLinkAssumption DEF IInv, Typing
<1>3. CASE ~Waits(r)
  BY <1>1, <1>2, <1>3, CountTypes DEF IInv, DayKept
<1>4. CASE Waits(r)
  <2>1. Cardinality(Ready') <= Cardinality(Requests)
    <3>1. Ready' \in SUBSET Requests
      BY DEF Ready
    <3>2. QED
      BY <3>1, FS_Subset, DirectLinkAssumption
  <2>2. Cardinality(Ready') = Cardinality(Ready) + 1
    BY <1>1, <1>4, CountTypes
  <2>3. ASSUME alone' PROVE Cardinality(Ready) = 0
    <3>1. \A q \in Requests : ~Waits(req[q])
      BY <1>4, <2>3 DEF Waits, Free
    <3>2. Ready = {}
      BY <3>1 DEF Ready
    <3>3. QED
      BY <3>2, FS_EmptySet
  <2>4. QED
    BY <1>2, <1>4, <2>1, <2>2, <2>3, CountTypes
<1>5. QED
  BY <1>3, <1>4

\* A request leaves the quota behind, having used it or not.
LEMMA Leaves ==
    ASSUME IInv, NEW p \in Requests, NEW r \in Request, req' = [req EXCEPT ![p] = r],
           alone' => alone, ~Waits(r), usage' \in Nat,
           usage' = usage \/ (usage' = usage + 1 /\ Waits(req[p]))
    PROVE  /\ usage' + Cardinality(Ready') <= DayLimit + Cardinality(Requests) - 1
           /\ alone' => usage' + Cardinality(Ready') <= DayLimit
<1>1. Cardinality(Ready') = Cardinality(Ready)
         + (IF Waits(r) THEN 1 ELSE 0) - (IF Waits(req[p]) THEN 1 ELSE 0)
  BY OneRequest DEF IInv
<1>2. usage \in Nat /\ DayLimit \in Nat
  BY DirectLinkAssumption DEF IInv, Typing
<1>3. usage' + Cardinality(Ready') <= usage + Cardinality(Ready)
  BY <1>1, <1>2, CountTypes
<1>4. Cardinality(Ready') \in Int
  BY <1>1, CountTypes
<1>5. QED
  BY <1>2, <1>3, <1>4, CountTypes DEF IInv, DayKept

LEMMA CheckStep ==
    ASSUME IInv, NEW p \in Requests, NEW exempt \in BOOLEAN, CheckDirect(p, exempt)
    PROVE  IInv'
<1>1. PICK l \in Links : req[p].on = {l} /\ link[l].born
  BY OfOneLink DEF CheckDirect, At, Downloading
<1> DEFINE pass == Deliverable(l) /\ (exempt \/ CheckDownloadQuota)
           mark == IF exempt THEN "exempt" ELSE ""
           next == Slot("send", mark, req[p].on)
<1>2. /\ req[p].step = "quota"
      /\ UNCHANGED <<link, usage, taken, unpaid, top, served, missed>>
      /\ Become(p, IF pass THEN next ELSE Idle)
  BY <1>1 DEF CheckDirect, At, data, history
<1>3. PICK r \in Request : /\ Become(p, r)
                           /\ pass => r.step = "send" /\ r.on = {l} /\ r.arg = mark
                           /\ ~pass => r.step = "idle"
  <2>1. next \in Request /\ next.step = "send" /\ next.on = {l} /\ next.arg = mark
    <3>1. {l} \in SUBSET (Links \cup {NoLink}) /\ mark \in {"", "exempt"}
      OBVIOUS
    <3> HIDE DEF mark
    <3>2. QED
      BY <1>1, <3>1 DEF Slot, Request
  <2>2. Idle \in Request /\ Idle.step = "idle"
    BY StepsTyped DEF Idle, Slot
  <2> HIDE DEF pass, next, mark
  <2>3. CASE pass
    BY <1>2, <2>1, <2>3
  <2>4. CASE ~pass
    BY <1>2, <2>2, <2>4
  <2>5. QED
    BY <2>3, <2>4
<1>4. pass /\ mark # "exempt" => usage < DayLimit
  BY DEF CheckDownloadQuota
<1> HIDE DEF pass, next, mark
<1>5. /\ req' = [req EXCEPT ![p] = r] /\ req' \in [Requests -> Request]
      /\ Shape' /\ Lone' /\ alone' = alone
  BY <1>1, <1>2, <1>3, DownloadStep DEF Free, Downloading, Become
<1>6. Typing'
  BY <1>2, <1>5 DEF IInv, Typing
<1>7. ASSUME NEW k \in Links
      PROVE  (Passes(r, k) => Passes(req[p], k)) /\ ~Moves(r, k) /\ ~Moves(req[p], k)
  BY <1>1, <1>2, <1>3 DEF Passes, Moves
<1>8. \A k \in Links : served'[k] - missed'[k] = served[k] - missed[k]
                          + (IF Moves(r, k) THEN 1 ELSE 0) - (IF Moves(req[p], k) THEN 1 ELSE 0)
  BY <1>2, <1>7 DEF IInv, Typing
<1>9. Rows' /\ Bounded' /\ Room'
  BY <1>2, <1>5, <1>6, <1>7, <1>8, LinksSettled
<1>10. ~Waits(req[p]) /\ ~Owes(r) /\ ~Owes(req[p]) /\ (Waits(r) => pass /\ mark # "exempt")
  BY <1>2, <1>3 DEF Waits, Owes
<1>11. alone => \A q \in Requests \ {p} : Free(q)
  BY <1>2 DEF IInv, Lone, Free
<1>12. Cardinality(Sent') = Cardinality(Sent)
          + (IF Owes(r) THEN 1 ELSE 0) - (IF Owes(req[p]) THEN 1 ELSE 0)
  BY <1>5, OneRequest DEF IInv
<1>13. taken' <= usage' + unpaid' + Cardinality(Sent')
  BY <1>2, <1>10, <1>12, CountTypes DEF IInv, DayKept
<1>14. DayKept'
  BY <1>2, <1>4, <1>5, <1>10, <1>11, <1>13, Joins DEF DayKept
<1>15. QED
  BY <1>5, <1>6, <1>9, <1>14 DEF IInv

LEMMA SendStep ==
    ASSUME IInv, NEW p \in Requests, SendWhole(p)
    PROVE  IInv'
<1>1. PICK l \in Links : req[p].on = {l} /\ link[l].born
  BY OfOneLink DEF SendWhole, At, Downloading
<1> DEFINE step == IF Exempt(p) THEN "complete" ELSE "record"
           r == [req[p] EXCEPT !.step = step]
<1>2. /\ req[p].step = "send" /\ Become(p, r)
      /\ served' = [served EXCEPT ![l] = @ + 1] /\ taken' = taken + 1
      /\ unpaid' = IF Exempt(p) THEN unpaid + 1 ELSE unpaid
      /\ UNCHANGED <<link, usage, top, missed>>
  BY <1>1 DEF SendWhole, At, data
<1>3. /\ r \in Request /\ r.step = step /\ r.on = {l} /\ NoLink \notin r.on
      /\ step \in {"record", "complete"} /\ (step = "complete" <=> Exempt(p))
  <2>1. step \in {"record", "complete"} /\ (step = "complete" <=> Exempt(p))
    OBVIOUS
  <2> HIDE DEF step
  <2>2. req[p] \in Request
    BY DEF IInv, Typing
  <2>3. r \in Request /\ r.step = step /\ r.on = req[p].on
    BY <2>1, <2>2 DEF Request
  <2> HIDE DEF r
  <2>4. NoLink \notin {l}
    BY DirectLinkAssumption
  <2>5. QED
    BY <1>1, <2>1, <2>3, <2>4
<1> HIDE DEF r, step
<1>4. usage \in Nat /\ unpaid \in Nat /\ taken \in Nat
  BY DEF IInv, Typing
<1>5. /\ req' = [req EXCEPT ![p] = r] /\ req' \in [Requests -> Request]
      /\ Shape' /\ Lone' /\ alone' = alone
  BY <1>1, <1>2, <1>3, DownloadStep DEF Free, Downloading, Become
<1>6. Typing'
  BY <1>2, <1>4, <1>5 DEF IInv, Typing
<1>7. ASSUME NEW k \in Links
      PROVE  /\ Passes(r, k) => Passes(req[p], k)
             /\ Moves(r, k) <=> k = l
             /\ ~Moves(req[p], k)
  BY <1>1, <1>2, <1>3 DEF Passes, Moves
<1>8. ASSUME NEW k \in Links
      PROVE  served'[k] - missed'[k] = served[k] - missed[k]
                + (IF Moves(r, k) THEN 1 ELSE 0) - (IF Moves(req[p], k) THEN 1 ELSE 0)
  BY <1>2, <1>7 DEF IInv, Typing
<1>9. Rows' /\ Bounded' /\ Room'
  BY <1>2, <1>5, <1>6, <1>7, <1>8, LinksSettled
<1>10. /\ Waits(req[p]) <=> ~Exempt(p)
       /\ Waits(r) <=> ~Exempt(p)
       /\ Owes(r) <=> ~Exempt(p)
       /\ ~Owes(req[p])
  BY <1>2, <1>3 DEF Waits, Owes, Exempt
<1>11. /\ Cardinality(Ready') = Cardinality(Ready)
              + (IF Waits(r) THEN 1 ELSE 0) - (IF Waits(req[p]) THEN 1 ELSE 0)
       /\ Cardinality(Sent') = Cardinality(Sent)
              + (IF Owes(r) THEN 1 ELSE 0) - (IF Owes(req[p]) THEN 1 ELSE 0)
  BY <1>5, OneRequest DEF IInv
<1>12. Cardinality(Ready') = Cardinality(Ready)
  BY <1>10, <1>11, CountTypes
<1>13. taken' <= usage' + unpaid' + Cardinality(Sent')
  <2>1. CASE Exempt(p)
    BY <1>2, <1>4, <1>10, <1>11, <2>1, CountTypes DEF IInv, DayKept
  <2>2. CASE ~Exempt(p)
    BY <1>2, <1>4, <1>10, <1>11, <2>2, CountTypes DEF IInv, DayKept
  <2>3. QED
    BY <2>1, <2>2
<1>14. DayKept'
  BY <1>2, <1>5, <1>12, <1>13 DEF IInv, DayKept
<1>15. QED
  BY <1>5, <1>6, <1>9, <1>14 DEF IInv

LEMMA PlanStep ==
    ASSUME IInv, NEW p \in Requests, PlanDownload(p)
    PROVE  IInv'
<1> DEFINE r == Slot("record", "", {NoLink})
<1>1. r \in Request /\ r.step = "record" /\ r.on = {NoLink}
  BY DEF Slot, Request
<1>2. /\ Start(p, r) /\ usage < DayLimit
      /\ UNCHANGED <<link, usage, taken, unpaid, top, served, missed>>
  BY DEF PlanDownload, GuardPlannedDownload, CheckDownloadQuota, data, history
<1> HIDE DEF r
<1>3. /\ req' = [req EXCEPT ![p] = r] /\ req' \in [Requests -> Request]
      /\ Shape' /\ Lone' /\ (alone' => alone)
  BY <1>1, <1>2, DownloadStep
<1>4. req[p].step = "idle" /\ (alone' => \A q \in Requests : Free(q))
  BY <1>2 DEF Start, Arrive, Free
<1>5. Typing'
  BY <1>2, <1>3 DEF IInv, Typing
<1>6. \A k \in Links : ~Passes(r, k) /\ ~Moves(r, k) /\ ~Moves(req[p], k)
  BY <1>1, <1>4, DirectLinkAssumption DEF Passes, Moves
<1>7. \A k \in Links : served'[k] - missed'[k] = served[k] - missed[k]
                          + (IF Moves(r, k) THEN 1 ELSE 0) - (IF Moves(req[p], k) THEN 1 ELSE 0)
  BY <1>2, <1>6 DEF IInv, Typing
<1>8. Rows' /\ Bounded' /\ Room'
  BY <1>2, <1>3, <1>5, <1>6, <1>7, LinksSettled
<1>9. ~Waits(req[p]) /\ ~Owes(r) /\ ~Owes(req[p])
  BY <1>1, <1>4 DEF Waits, Owes
<1>10. Cardinality(Sent') = Cardinality(Sent)
          + (IF Owes(r) THEN 1 ELSE 0) - (IF Owes(req[p]) THEN 1 ELSE 0)
  BY <1>3, OneRequest DEF IInv
<1>11. taken' <= usage' + unpaid' + Cardinality(Sent')
  BY <1>2, <1>9, <1>10, CountTypes DEF IInv, DayKept
<1>12. DayKept'
  BY <1>1, <1>2, <1>3, <1>4, <1>9, <1>11, Joins DEF DayKept
<1>13. QED
  BY <1>3, <1>5, <1>8, <1>12 DEF IInv

\* What is handed out without a check is not paid for.
LEMMA PlanExemptStep ==
    ASSUME IInv, PlanExempt
    PROVE  IInv'
<1>1. /\ AtOnce /\ taken' = taken + 1 /\ unpaid' = unpaid + 1
      /\ UNCHANGED <<link, usage, req, top, served, missed>>
  BY DEF PlanExempt, AtOnce, data
<1>2. usage \in Nat /\ unpaid \in Nat /\ taken \in Nat
  BY DEF IInv, Typing
<1>3. PICK p \in Requests : TRUE
  BY DirectLinkAssumption
<1>4. Lone' /\ (alone' => alone)
  BY <1>1, <1>3, LoneStep DEF IInv
<1>5. Typing' /\ Shape'
  BY <1>1, <1>2 DEF IInv, Typing, Shape
<1>6. Ready' = Ready /\ Sent' = Sent
  BY <1>1 DEF Ready, Sent
<1>7. DayKept'
  BY <1>1, <1>2, <1>4, <1>6, CountTypes DEF IInv, DayKept
<1>8. \A l \in Links : Past(l)' = Past(l) /\ Counted(l)' = Counted(l)
  BY <1>1 DEF Past, Counted, Moving
<1>9. Rows' /\ Bounded' /\ Room'
  BY <1>1, <1>4, <1>8 DEF IInv, Rows, Bounded, Room
<1>10. QED
  BY <1>4, <1>5, <1>7, <1>9 DEF IInv

LEMMA RecordStep ==
    ASSUME IInv, NEW p \in Requests, NEW ok \in BOOLEAN, RecordDownloadUsage(p, ok)
    PROVE  IInv'
<1>1. /\ req[p].step = "record" /\ UNCHANGED <<link, top, served, missed>>
      /\ usage' = IF ok THEN usage + 1 ELSE usage
      /\ unpaid' = IF ok THEN unpaid ELSE unpaid + 1
  BY DEF RecordDownloadUsage, At
<1>2. usage \in Nat /\ unpaid \in Nat /\ taken \in Nat
  BY DEF IInv, Typing
<1>3. \/ \E l \in Links : req[p].on = {l} /\ link[l].born
      \/ req[p].on = {NoLink}
  BY <1>1 DEF IInv, Shape, Downloading
<1>4. PICK r \in Request :
          /\ Become(p, r) /\ r.step \in {"idle", "complete"}
          /\ r.step = "idle" => NoLink \in req[p].on /\ taken' = taken + 1
          /\ r.step = "complete" => /\ NoLink \notin req[p].on /\ taken' = taken
                                    /\ r.on = req[p].on
  <2>1. CASE NoLink \in req[p].on
    BY <2>1, StepsTyped DEF RecordDownloadUsage, Idle, Slot
  <2>2. CASE NoLink \notin req[p].on
    <3> DEFINE next == [req[p] EXCEPT !.step = "complete"]
    <3>1. next \in Request /\ next.step = "complete" /\ next.on = req[p].on
      BY DEF IInv, Typing, Request
    <3>2. Become(p, next) /\ taken' = taken
      BY <2>2 DEF RecordDownloadUsage
    <3> HIDE DEF next
    <3>3. QED
      BY <2>2, <3>1, <3>2
  <2>3. QED
    BY <2>1, <2>2
<1>5. \/ r.step \notin Downloading
      \/ \E l \in Links : r.on = {l} /\ link[l].born
  <2>1. CASE r.step = "idle"
    BY <2>1 DEF Downloading
  <2>2. CASE r.step = "complete"
    BY <1>3, <1>4, <2>2
  <2>3. QED
    BY <1>4, <2>1, <2>2
<1>6. /\ req' = [req EXCEPT ![p] = r] /\ req' \in [Requests -> Request]
      /\ Shape' /\ Lone' /\ alone' = alone
  BY <1>1, <1>4, <1>5, DownloadStep DEF Free, Become
<1>7. Typing'
  BY <1>1, <1>2, <1>4, <1>6 DEF IInv, Typing
<1>8. ASSUME NEW k \in Links
      PROVE  (Passes(r, k) => Passes(req[p], k)) /\ (Moves(r, k) <=> Moves(req[p], k))
  BY <1>1, <1>3, <1>4, DirectLinkAssumption DEF Passes, Moves
<1>9. \A k \in Links : served'[k] - missed'[k] = served[k] - missed[k]
                          + (IF Moves(r, k) THEN 1 ELSE 0) - (IF Moves(req[p], k) THEN 1 ELSE 0)
  BY <1>1, <1>8 DEF IInv, Typing
<1>10. Rows' /\ Bounded' /\ Room'
  BY <1>1, <1>6, <1>7, <1>8, <1>9, LinksSettled
<1>11. /\ Waits(req[p]) /\ ~Waits(r) /\ ~Owes(r)
       /\ Owes(req[p]) <=> r.step = "complete"
  BY <1>1, <1>4 DEF Waits, Owes
<1>12. Cardinality(Sent') = Cardinality(Sent)
          + (IF Owes(r) THEN 1 ELSE 0) - (IF Owes(req[p]) THEN 1 ELSE 0)
  BY <1>6, OneRequest DEF IInv
<1>13. taken <= usage + unpaid + Cardinality(Sent) /\ usage' + unpaid' = usage + unpaid + 1
  BY <1>1, <1>2 DEF IInv, DayKept
<1>14. taken' <= usage' + unpaid' + Cardinality(Sent')
  <2>1. CASE r.step = "complete"
    BY <1>2, <1>4, <1>11, <1>12, <1>13, <2>1, CountTypes
  <2>2. CASE r.step = "idle"
    BY <1>2, <1>4, <1>11, <1>12, <1>13, <2>2, CountTypes
  <2>3. QED
    BY <1>4, <2>1, <2>2
<1>15. usage' \in Nat /\ (usage' = usage \/ usage' = usage + 1)
  BY <1>1, <1>2
<1>16. DayKept'
  BY <1>6, <1>11, <1>14, <1>15, Leaves DEF DayKept
<1>17. QED
  BY <1>6, <1>7, <1>10, <1>16 DEF IInv

LEMMA AbandonStep ==
    ASSUME IInv, NEW p \in Requests, Abandon(p)
    PROVE  IInv'
<1>1. /\ ~Free(p) /\ Become(p, Idle)
      /\ missed' = [l \in Links |-> IF Moves(req[p], l) THEN missed[l] + 1 ELSE missed[l]]
      /\ unpaid' = IF req[p].step = "record" THEN unpaid + 1 ELSE unpaid
      /\ UNCHANGED <<link, usage, top, served, taken>>
  BY DEF Abandon, At, Moves, data
<1>2. Idle \in Request /\ Idle.step = "idle"
  BY StepsTyped DEF Idle, Slot
<1>3. usage \in Nat /\ unpaid \in Nat /\ taken \in Nat
  BY DEF IInv, Typing
<1>4. /\ req' = [req EXCEPT ![p] = Idle] /\ req' \in [Requests -> Request]
      /\ Shape' /\ Lone' /\ alone' = alone
  BY <1>1, <1>2, DownloadStep DEF Downloading, Become
<1>5. Typing'
  BY <1>1, <1>3, <1>4 DEF IInv, Typing
<1>6. \A k \in Links : ~Passes(Idle, k) /\ ~Moves(Idle, k)
  BY <1>2 DEF Passes, Moves
<1>7. ASSUME NEW k \in Links
      PROVE  served'[k] - missed'[k] = served[k] - missed[k]
                + (IF Moves(Idle, k) THEN 1 ELSE 0) - (IF Moves(req[p], k) THEN 1 ELSE 0)
  <2>1. served'[k] = served[k] /\ served[k] \in Nat /\ missed[k] \in Nat
        /\ missed'[k] = IF Moves(req[p], k) THEN missed[k] + 1 ELSE missed[k]
    BY <1>1 DEF IInv, Typing
  <2>2. QED
    BY <1>6, <2>1
<1>8. Rows' /\ Bounded' /\ Room'
  BY <1>1, <1>2, <1>4, <1>5, <1>6, <1>7, LinksSettled
<1>9. ~Waits(Idle) /\ ~Owes(Idle) /\ (Owes(req[p]) => req[p].step = "record")
  BY <1>2 DEF Waits, Owes
<1>10. Cardinality(Sent') = Cardinality(Sent)
          + (IF Owes(Idle) THEN 1 ELSE 0) - (IF Owes(req[p]) THEN 1 ELSE 0)
  BY <1>4, OneRequest DEF IInv
<1>11. taken' <= usage' + unpaid' + Cardinality(Sent')
  BY <1>1, <1>3, <1>9, <1>10, CountTypes DEF IInv, DayKept
<1>12. DayKept'
  BY <1>1, <1>2, <1>3, <1>4, <1>9, <1>11, Leaves DEF DayKept
<1>13. QED
  BY <1>4, <1>5, <1>8, <1>12 DEF IInv

LEMMA NewDayStep ==
    ASSUME IInv, NewDay
    PROVE  IInv'
<1>1. usage' = 0 /\ taken' = 0 /\ unpaid' = 0
      /\ UNCHANGED <<link, req, top, served, missed, alone>>
  BY DEF NewDay
<1>2. Typing' /\ Shape' /\ Lone'
  BY <1>1 DEF IInv, Typing, Shape, Lone, Free
<1>3. Ready' = Ready /\ Sent' = Sent
  BY <1>1 DEF Ready, Sent
<1>4. DayKept'
  BY <1>1, <1>3, CountTypes, DirectLinkAssumption DEF IInv, Typing, DayKept
<1>5. \A l \in Links : Past(l)' = Past(l) /\ Counted(l)' = Counted(l)
  BY <1>1 DEF Past, Counted, Moving
<1>6. Rows' /\ Bounded' /\ Room'
  BY <1>1, <1>5 DEF IInv, Rows, Bounded, Room
<1>7. QED
  BY <1>2, <1>4, <1>6 DEF IInv

LEMMA CompleteStep ==
    ASSUME IInv, NEW p \in Requests, CompleteDirectDownload(p)
    PROVE  IInv'
<1>1. PICK l \in Links : req[p].on = {l} /\ link[l].born
  BY OfOneLink DEF CompleteDirectDownload, At, Downloading
<1>2. /\ req[p].step = "complete" /\ Become(p, Idle)
      /\ link' = IF Completes(l) THEN [link EXCEPT ![l].count = @ + 1] ELSE link
      /\ missed' = IF Completes(l) THEN missed ELSE [missed EXCEPT ![l] = @ + 1]
      /\ UNCHANGED <<usage, top, served, taken, unpaid>>
  BY <1>1 DEF CompleteDirectDownload, At
<1>3. Idle \in Request /\ Idle.step = "idle"
  BY StepsTyped DEF Idle, Slot
<1>4. link' \in [Links -> Link] /\ \A k \in Links :
          /\ link'[k].born = link[k].born /\ link'[k].row = link[k].row
          /\ link'[k].limit = link[k].limit
          /\ link'[k].count = IF k = l /\ Completes(l) THEN link[k].count + 1 ELSE link[k].count
  <2>1. CASE Completes(l)
    <3>1. [link[l] EXCEPT !.count = link[l].count + 1] \in Link
      BY LinkRows DEF Link
    <3>2. link' = [link EXCEPT ![l] = [link[l] EXCEPT !.count = link[l].count + 1]]
      BY <1>2, <2>1
    <3>3. QED
      BY <2>1, <3>1, <3>2, LinkRows DEF IInv, Typing, Link
  <2>2. CASE ~Completes(l)
    BY <1>2, <2>2 DEF IInv, Typing
  <2>3. QED
    BY <2>1, <2>2
<1>5. /\ req' = [req EXCEPT ![p] = Idle] /\ req' \in [Requests -> Request]
      /\ Shape' /\ Lone' /\ alone' = alone
  BY <1>2, <1>3, <1>4, DownloadStep DEF Free, Downloading, Become
<1>6. Typing'
  BY <1>2, <1>4, <1>5 DEF IInv, Typing
<1>7. \A k \in Links : ~Passes(Idle, k) /\ ~Moves(Idle, k) /\ (Moves(req[p], k) <=> k = l)
  BY <1>1, <1>2, <1>3 DEF Passes, Moves
<1>8. Rows' /\ Bounded' /\ Room'
  <2>1. CASE ~Completes(l)
    <3>1. UNCHANGED <<link, top>>
      BY <1>2, <2>1
    <3>2. ASSUME NEW k \in Links
          PROVE  served'[k] - missed'[k] = served[k] - missed[k]
                    + (IF Moves(Idle, k) THEN 1 ELSE 0) - (IF Moves(req[p], k) THEN 1 ELSE 0)
      BY <1>2, <1>7, <2>1 DEF IInv, Typing
    <3>3. QED
      BY <1>3, <1>5, <1>6, <1>7, <3>1, <3>2, LinksSettled
  <2>2. CASE Completes(l)
    <3>1. ASSUME NEW k \in Links
          PROVE  /\ Counted(k)' = IF k = l THEN Counted(k) + 1 ELSE Counted(k)
                 /\ Past(k)' = Past(k) \ {p}
      <4>1. Cardinality(Moving(k)') = Cardinality(Moving(k))
                + (IF Moves(Idle, k) THEN 1 ELSE 0) - (IF Moves(req[p], k) THEN 1 ELSE 0)
        BY <1>5, OneRequest DEF IInv
      <4>2. Past(k)' = Past(k) \ {p}
        BY <1>5, <1>7, OneRequest DEF IInv
      <4>3. Cardinality(Moving(k)) \in Nat /\ served[k] \in Nat /\ missed[k] \in Nat
        BY CountedType DEF IInv, Typing
      <4>4. QED
        BY <1>2, <1>7, <2>2, <4>1, <4>2, <4>3 DEF Counted
    <3>2. /\ link[l].row /\ link[l].count + 1 <= link[l].limit /\ link[l].limit <= top[l]
          /\ link[l].count = Counted(l)
      BY <2>2 DEF Completes, IInv, Rows
    <3>3. link[l].limit \in Nat /\ Counted(l) \in Int /\ top[l] \in Nat /\ top' = top
      BY <1>2, CountedType, LinkRows, DirectLinkAssumption DEF Link, IInv
    <3>4. Rows'
      BY <1>2, <1>4, <2>2, <3>1, <3>2 DEF IInv, Rows
    <3>5. Bounded'
      BY <3>1, <3>2, <3>3 DEF IInv, Bounded
    <3>6. ASSUME NEW k \in Links, Past(k)' # {}, alone' \/ Past(k)' = Requests
          PROVE  FALSE
      <4>1. PICK q \in Requests : q \in Past(k) /\ q # p
        BY <3>1, <3>6 DEF Past
      <4>2. ~Free(p) /\ ~Free(q)
        BY <1>2, <4>1 DEF Past, Passes, Free
      <4>3. ~alone
        BY <4>1, <4>2 DEF IInv, Lone
      <4>4. QED
        BY <1>5, <3>1, <3>6, <4>3
    <3>7. QED
      BY <3>4, <3>5, <3>6 DEF Room
  <2>3. QED
    BY <2>1, <2>2
<1>9. ~Waits(Idle) /\ ~Owes(Idle) /\ ~Waits(req[p]) /\ ~Owes(req[p])
  BY <1>2, <1>3 DEF Waits, Owes
<1>10. /\ Cardinality(Ready') = Cardinality(Ready)
              + (IF Waits(Idle) THEN 1 ELSE 0) - (IF Waits(req[p]) THEN 1 ELSE 0)
       /\ Cardinality(Sent') = Cardinality(Sent)
              + (IF Owes(Idle) THEN 1 ELSE 0) - (IF Owes(req[p]) THEN 1 ELSE 0)
  BY <1>5, OneRequest DEF IInv
<1>11. DayKept'
  BY <1>2, <1>5, <1>9, <1>10, CountTypes DEF IInv, DayKept
<1>12. QED
  BY <1>5, <1>6, <1>8, <1>11 DEF IInv

-----------------------------------------------------------------------------
(* The theorems.                                                           *)

LEMMA Initially == Init => IInv
<1> SUFFICES ASSUME Init PROVE IInv
  OBVIOUS
<1>1. ASSUME NEW n \in Limits
      PROVE  /\ NoRow(n) \in Link /\ NewLink(n) \in Link /\ ~NoRow(n).row /\ NewLink(n).born
             /\ NoRow(n).count = 0 /\ NewLink(n).count = 0
  BY DEF NoRow, NewLink, Link
<1>2. link \in [Links -> Link] /\ \A l \in Links : (link[l].row => link[l].born) /\ link[l].count = 0
  BY <1>1 DEF Init
<1>3. Idle \in Request /\ Idle.step = "idle"
  BY StepsTyped DEF Idle, Slot
<1>4. Typing
  <2>1. top \in [Links -> Limits]
    BY <1>2 DEF Init, Link
  <2>2. QED
    BY <1>2, <1>3, <2>1 DEF Init, Typing
<1>5. \A p \in Requests : req[p].step = "idle"
  BY <1>3 DEF Init
<1>6. Shape /\ Lone
  BY <1>5 DEF Shape, Lone, Free, Downloading
<1>7. Ready = {} /\ Sent = {} /\ \A l \in Links : Past(l) = {} /\ Moving(l) = {}
  BY <1>5 DEF Ready, Waits, Sent, Owes, Past, Passes, Moving, Moves
<1>8. \A l \in Links : Counted(l) = 0
  BY <1>7, FS_EmptySet DEF Counted, Init
<1>9. Room
  BY <1>7 DEF Room
<1>10. ASSUME NEW l \in Links PROVE top[l] \in Nat /\ link[l].limit = top[l]
  BY <1>4, DirectLinkAssumption DEF Init, Typing
<1>11. Rows /\ Bounded
  BY <1>2, <1>8, <1>10 DEF Rows, Bounded
<1>12. DayKept
  <2>1. usage = 0 /\ taken = 0 /\ unpaid = 0
    BY DEF Init
  <2>2. Cardinality(Ready) = 0 /\ Cardinality(Sent) = 0
    BY <1>7, FS_EmptySet
  <2>3. QED
    BY <2>1, <2>2, CountTypes, DirectLinkAssumption DEF DayKept
<1>13. QED
  BY <1>4, <1>6, <1>9, <1>11, <1>12 DEF IInv

LEMMA Inductive == IInv /\ [Next]_vars => IInv'
<1> SUFFICES ASSUME IInv, [Next]_vars PROVE IInv'
  OBVIOUS
<1>1. ASSUME NEW p \in Requests, NewRequest(p) PROVE IInv'
  BY <1>1, PlanStep, OpenStep, StartsAside DEF NewRequest
<1>2. ASSUME NEW p \in Requests, RequestStep(p) PROVE IInv'
  BY <1>2, ReadStep, CheckStep, SendStep, RecordStep, CompleteStep, CreateAside,
     BatchAside, ReviewAside, AbandonStep DEF RequestStep
<1>3. ASSUME NEW l \in Links,
             \/ \E n \in Limits, extend \in BOOLEAN : UpdateDirectLink(l, n, extend)
             \/ TrashFile(l) \/ Expire(l)
      PROVE  IInv'
  BY <1>3, OwnerAside
<1>4. CASE UNCHANGED vars
  <2>1. UNCHANGED <<link, req, usage, taken, unpaid, top, served, missed, alone>>
    BY <1>4 DEF vars, data, history
  <2>2. PICK p \in Requests : TRUE
    BY DirectLinkAssumption
  <2>3. req[p] \in Request
    BY DEF IInv, Typing
  <2>4. QED
    BY <2>1, <2>2, <2>3, AsideData
<1>5. QED
  BY <1>1, <1>2, <1>3, <1>4, PlanExemptStep, NewDayStep DEF Next

\* The counts of links and of the day are right but for requests in progress,
\* each of which has passed its check while there was room.
THEOREM DirectLinkInvariant == Spec => []IInv
<1>1. QED
  BY Initially, Inductive, PTL DEF Spec

LEMMA LimitsFollow == IInv => LinkWithinLimit
<1> SUFFICES ASSUME IInv, NEW l \in Links
             PROVE  link[l].count <= top[l] /\ served[l] <= top[l] + missed[l] + Overshoot
  BY DEF LinkWithinLimit, CountWithinLimit, ServedWithinLimit
<1>1. /\ Counted(l) \in Int /\ top[l] \in Nat /\ Cardinality(Moving(l)) \in Nat
      /\ served[l] \in Nat /\ missed[l] \in Nat
  BY CountedType DEF IInv, Typing
<1>2. Counted(l) <= top[l]
  BY DEF IInv, Bounded
<1>3. link[l].count <= top[l]
  BY <1>1, <1>2 DEF IInv, Rows
<1>4. served[l] = Counted(l) + missed[l] + Cardinality(Moving(l))
  BY <1>1 DEF Counted
<1>5. Moving(l) \in SUBSET Past(l) /\ Past(l) \in SUBSET Requests
  BY DEF Moving, Past, Moves, Passes
<1>6. IsFiniteSet(Requests) /\ IsFiniteSet(Past(l)) /\ Cardinality(Requests) \in Nat \ {0}
  BY <1>5, FS_Subset, DirectLinkAssumption, CountTypes
<1>7. /\ Cardinality(Moving(l)) <= Cardinality(Past(l))
      /\ Cardinality(Past(l)) <= Cardinality(Requests)
      /\ Cardinality(Past(l)) = Cardinality(Requests) => Requests = Past(l)
      /\ Cardinality(Past(l)) \in Nat
  BY <1>5, <1>6, FS_Subset, FS_CardinalityType
<1>8. CASE Moving(l) = {}
  <2>1. Cardinality(Moving(l)) = 0
    BY <1>8, FS_EmptySet
  <2>2. QED
    BY <1>1, <1>2, <1>3, <1>4, <1>6, <2>1 DEF Overshoot
<1>9. CASE Moving(l) # {} /\ alone
  <2>1. PICK p \in Requests : p \in Moving(l)
    BY <1>5, <1>9
  <2>2. \A q \in Moving(l) : q = p
    BY <1>9, <2>1 DEF IInv, Lone, Moving, Moves, Free
  <2>3. Moving(l) = {p}
    BY <2>1, <2>2
  <2>4. Cardinality(Moving(l)) = 1
    BY <2>3, FS_Singleton
  <2>5. Past(l) # {}
    BY <1>5, <1>9
  <2>6. Counted(l) < top[l]
    BY <1>9, <2>5 DEF IInv, Room
  <2>7. QED
    BY <1>1, <1>3, <1>4, <1>9, <2>4, <2>6 DEF Overshoot
<1>10. CASE Moving(l) # {} /\ ~alone
  <2>1. CASE Past(l) = Requests
    <3>1. Counted(l) < top[l]
      BY <1>5, <1>10, <2>1 DEF IInv, Room
    <3>2. QED
      BY <1>1, <1>3, <1>4, <1>6, <1>7, <1>10, <3>1 DEF Overshoot
  <2>2. CASE Past(l) # Requests
    <3>1. Cardinality(Past(l)) < Cardinality(Requests)
      BY <1>6, <1>7, <2>2
    <3>2. QED
      BY <1>1, <1>2, <1>3, <1>4, <1>6, <1>7, <1>10, <3>1 DEF Overshoot
  <2>3. QED
    BY <2>1, <2>2
<1>11. QED
  BY <1>8, <1>9, <1>10

\* The UPDATE of CompleteDirectDownload keeps the count within the limit; what
\* is served beyond is not counted, or was on its way beside the others.
THEOREM LimitsHold == Spec => []LinkWithinLimit
<1>1. QED
  BY DirectLinkInvariant, LimitsFollow, PTL

LEMMA DayFollows == IInv => DayWithinQuota
<1> SUFFICES ASSUME IInv PROVE taken <= DayLimit + unpaid + Overshoot
  BY DEF DayWithinQuota
<1>1. usage \in Nat /\ unpaid \in Nat /\ taken \in Nat /\ DayLimit \in Nat
  BY DirectLinkAssumption DEF IInv, Typing
<1>2. Sent \in SUBSET Ready /\ Ready \in SUBSET Requests
  BY DEF Sent, Ready, Owes, Waits
<1>3. Cardinality(Sent) <= Cardinality(Ready)
  BY <1>2, FS_Subset, DirectLinkAssumption
<1>4. QED
  BY <1>1, <1>3, CountTypes DEF IInv, DayKept, Overshoot

\* The quota is read before a download and written after it: requests side by
\* side may pass it together, one may not.
THEOREM DayHolds == Spec => []DayWithinQuota
<1>1. QED
  BY DirectLinkInvariant, DayFollows, PTL

-----------------------------------------------------------------------------
(* What the owner's quota and the administrator's block rest on.            *)

\* A request that was let through to add links, and what it may still add.
Holding(r) == r.step = "insert" \/ (r.step = "write" /\ r.arg = "enable")
Brings(r) == IF Holding(r) THEN r.on ELSE {}
Due(r, table) ==
    {l \in r.on : r.step = "insert" \/ (~table[l].active /\ ~table[l].expired)}

Checked == Active \ unchecked
Places == {x \in Requests \X (Links \cup {NoLink}) : x[2] \in Brings(req[x[1]])}

QuotaInv ==
    /\ \A p \in Requests : Cardinality(Brings(req[p])) <= MaxBatch
    /\ Cardinality(Checked) + Cardinality(Places) <= ActiveLimit + Cardinality(Requests) * MaxBatch
    /\ alone =>
        /\ Cardinality(Checked) <= ActiveLimit
        /\ \A p \in Requests :
              Holding(req[p]) => Cardinality(Checked \cup Due(req[p], link)) <= ActiveLimit

Disposing(r, l) == l \in r.on /\ r.step \in {"flag", "review"}

\* A link agrees with its file, and what is blocked is not approved.
Follows(x, f) == x.blocked = (x.row /\ f.blocked) /\ (f.blocked => ~f.approved)

\* What a request that runs alone knows of a link and its file.
Knows(r, l, x, f, gone) ==
    /\ r.step = "insert" => l \in gone \/ ~f.blocked
    /\ r.step \in {"flag", "review"} => f.blocked = (r.arg = "blocked")
    /\ r.step = "review" => x.blocked = (x.row /\ f.blocked)

BlockInv ==
    alone => \A l \in Links :
        /\ \/ l \in undone
           \/ \E p \in Requests : Disposing(req[p], l)
           \/ Follows(link[l], file[l])
        /\ \A p \in Requests : l \in req[p].on => Knows(req[p], l, link[l], file[l], undone)

\* A link is created, and a file disposed of, one at a time.
Singles ==
    \A p \in Requests :
        /\ req[p].step \in {"insert", "flag", "review"} => \E l \in Links : req[p].on = {l}
        /\ req[p].step = "write" => req[p].on \subseteq Links

OInv == file \in [Links -> File] /\ Singles /\ BlockInv /\ QuotaInv

-----------------------------------------------------------------------------
(* Counting links.                                                         *)

LEMMA LinksFinite ==
    ASSUME NEW S \in SUBSET Links
    PROVE  IsFiniteSet(S) /\ Cardinality(S) \in Nat
  BY DirectLinkAssumption, FS_Subset, FS_CardinalityType

LEMMA CheckedFinite ==
    /\ Checked \in SUBSET Links /\ IsFiniteSet(Checked) /\ Cardinality(Checked) \in Nat
    /\ Checked' \in SUBSET Links /\ IsFiniteSet(Checked') /\ Cardinality(Checked') \in Nat
<1>1. Checked \in SUBSET Links /\ Checked' \in SUBSET Links
  BY DEF Checked, Active
<1>2. QED
  BY <1>1, LinksFinite

LEMMA PlacesFinite ==
    /\ IsFiniteSet(Links \cup {NoLink})
    /\ IsFiniteSet(Places) /\ Cardinality(Places) \in Nat
    /\ IsFiniteSet(Places') /\ Cardinality(Places') \in Nat
    /\ Cardinality(Requests) * MaxBatch \in Nat
    /\ ActiveLimit + Cardinality(Requests) * MaxBatch \in Nat
<1>1. IsFiniteSet(Links \cup {NoLink})
  BY DirectLinkAssumption, FS_AddElement
<1>2. IsFiniteSet(Requests \X (Links \cup {NoLink}))
  BY <1>1, DirectLinkAssumption, FS_Product
<1>3. /\ Places \in SUBSET (Requests \X (Links \cup {NoLink}))
      /\ Places' \in SUBSET (Requests \X (Links \cup {NoLink}))
  BY DEF Places
<1>4. Cardinality(Requests) \in Nat /\ MaxBatch \in Nat /\ ActiveLimit \in Nat
  BY DirectLinkAssumption, FS_CardinalityType
<1>5. Cardinality(Requests) * MaxBatch \in Nat
  BY <1>4
<1>6. ActiveLimit + Cardinality(Requests) * MaxBatch \in Nat
  <2> DEFINE bound == Cardinality(Requests) * MaxBatch
  <2> HIDE DEF bound
  <2>1. bound \in Nat => ActiveLimit + bound \in Nat
    BY <1>4
  <2>2. QED
    BY <1>5, <2>1 DEF bound
<1>7. QED
  BY <1>1, <1>2, <1>3, <1>5, <1>6, FS_Subset, FS_CardinalityType

\* As many boxes as requests, none with more than n things in it.
LEMMA Boxes ==
    ASSUME NEW P, IsFiniteSet(P), NEW X, IsFiniteSet(X), NEW n \in Nat,
           NEW box, \A p \in P : box[p] \in SUBSET X /\ Cardinality(box[p]) <= n
    PROVE  Cardinality({z \in P \X X : z[2] \in box[z[1]]}) <= Cardinality(P) * n
<1> DEFINE Z == {z \in P \X X : z[2] \in box[z[1]]}
<1> DEFINE number == [p \in P |-> CHOOSE f : f \in Injection(box[p], 1..n)]
<1> DEFINE place == [z \in Z |-> <<z[1], number[z[1]][z[2]]>>]
<1>1. \A p \in P : number[p] \in Injection(box[p], 1..n)
  <2> SUFFICES ASSUME NEW p \in P
               PROVE  \E f : f \in Injection(box[p], 1..n)
    OBVIOUS
  <2> DEFINE k == Cardinality(box[p])
  <2>1. IsFiniteSet(box[p]) /\ k \in Nat /\ k <= n
    BY FS_Subset, FS_CardinalityType
  <2>2. ExistsBijection(1..k, box[p])
    BY <2>1, FS_CardinalityType
  <2>3. ExistsBijection(box[p], 1..k)
    BY <2>2, Fun_ExistsBijSymmetric
  <2>4. PICK f : f \in Bijection(box[p], 1..k)
    BY <2>3 DEF ExistsBijection
  <2>5. 1..k \subseteq 1..n
    BY <2>1
  <2>6. f \in Injection(box[p], 1..n)
    BY <2>4, <2>5 DEF Bijection, Injection, IsInjective
  <2>7. QED
    BY <2>6
<1>2. \A z \in Z : z[1] \in P /\ z[2] \in box[z[1]] /\ z = <<z[1], z[2]>>
  OBVIOUS
<1> HIDE DEF Z, number
<1>3. \A z \in Z : number[z[1]][z[2]] \in 1..n
  BY <1>1, <1>2 DEF Injection
<1>4. place \in [Z -> P \X (1..n)]
  BY <1>2, <1>3
<1>5. ASSUME NEW y \in Z, NEW z \in Z, place[y] = place[z]
      PROVE  y = z
  <2>1. y[1] = z[1] /\ number[y[1]][y[2]] = number[z[1]][z[2]]
    BY <1>5
  <2>2. number[y[1]] \in Injection(box[y[1]], 1..n) /\ y[2] \in box[y[1]] /\ z[2] \in box[y[1]]
    BY <1>1, <1>2, <2>1
  <2>3. y[2] = z[2]
    BY <2>1, <2>2 DEF Injection, IsInjective
  <2>4. QED
    BY <1>2, <2>1, <2>3
<1>6. place \in Injection(Z, P \X (1..n))
  BY <1>4, <1>5 DEF Injection, IsInjective
<1>7. IsFiniteSet(1..n) /\ Cardinality(1..n) = n
  BY FS_Interval
<1>8. IsFiniteSet(P \X (1..n)) /\ Cardinality(P \X (1..n)) = Cardinality(P) * n
  BY <1>7, FS_Product
<1> HIDE DEF place
<1>9. Cardinality(Z) <= Cardinality(P) * n
  BY <1>6, <1>8, FS_Injection
<1>10. QED
  BY <1>9 DEF Z

\* What is put aside for k things is enough for k.
LEMMA Swap ==
    ASSUME NEW C, NEW D, NEW E, NEW R, NEW Q, NEW K, NEW bound \in Nat,
           IsFiniteSet(C), IsFiniteSet(E), IsFiniteSet(R),
           Cardinality(C) + Cardinality(R) <= bound,
           D \subseteq C \cup E, Cardinality(E) <= Cardinality(K),
           K \subseteq R, Q \subseteq R \ K
    PROVE  Cardinality(D) + Cardinality(Q) <= bound
<1>1. IsFiniteSet(K)
  BY FS_Subset
<1>2. /\ Cardinality(C) \in Nat /\ Cardinality(R) \in Nat /\ Cardinality(K) \in Nat
      /\ Cardinality(E) \in Nat
  BY <1>1, FS_CardinalityType
<1>3. IsFiniteSet(C \cup E) /\ Cardinality(C \cup E) <= Cardinality(C) + Cardinality(E)
  <2>1. /\ IsFiniteSet(C \cup E)
        /\ Cardinality(C \cup E) = Cardinality(C) + Cardinality(E) - Cardinality(C \cap E)
    BY FS_Union
  <2>2. Cardinality(C \cap E) \in Nat
    BY FS_Intersection, FS_CardinalityType
  <2>3. QED
    BY <1>2, <2>1, <2>2
<1>4. /\ IsFiniteSet(R \ K)
      /\ Cardinality(R \ K) = Cardinality(R) - Cardinality(K)
  <2>1. R \cap K = K
    OBVIOUS
  <2>2. IsFiniteSet(R \ K) /\ Cardinality(R \ K) = Cardinality(R) - Cardinality(R \cap K)
    BY FS_Difference
  <2>3. QED
    BY <2>1, <2>2
<1>5. Cardinality(D) <= Cardinality(C \cup E) /\ Cardinality(D) \in Nat
  <2>1. D \in SUBSET (C \cup E)
    OBVIOUS
  <2>2. QED
    BY <1>3, <2>1, FS_Subset, FS_CardinalityType
<1>6. Cardinality(Q) <= Cardinality(R) - Cardinality(K) /\ Cardinality(Q) \in Nat
  <2>1. Q \in SUBSET (R \ K)
    OBVIOUS
  <2>2. QED
    BY <1>4, <2>1, FS_Subset, FS_CardinalityType
<1>7. Cardinality(C \cup E) \in Nat
  BY <1>3, FS_CardinalityType
<1>8. QED
  BY <1>2, <1>3, <1>5, <1>6, <1>7


\* Requests that were let through can never add more than a batch each.
LEMMA PlacesBound ==
    ASSUME req' \in [Requests -> Request],
           \A p \in Requests : Cardinality(Brings(req'[p])) <= MaxBatch
    PROVE  Cardinality(Places') <= Cardinality(Requests) * MaxBatch
<1> DEFINE X == Links \cup {NoLink}
<1> DEFINE box == [p \in Requests |-> Brings(req'[p])]
<1>1. \A p \in Requests : box[p] \in SUBSET X /\ Cardinality(box[p]) <= MaxBatch
  BY DEF Brings, Request
<1>2. IsFiniteSet(X) /\ IsFiniteSet(Requests) /\ MaxBatch \in Nat
  BY PlacesFinite, DirectLinkAssumption
<1>3. Places' = {z \in Requests \X X : z[2] \in box[z[1]]}
  BY DEF Places
<1> HIDE DEF box, X
<1>4. QED
  BY <1>1, <1>2, <1>3, Boxes

\* What counts after a step counted before or is counted by it.
LEMMA TallyChecks ==
    ASSUME NEW ls, unchecked' = (unchecked \cup (Active' \ (Active \cup ls))) \cap Active'
    PROVE  \A l \in Checked' : l \in Checked \/ (l \in ls /\ l \notin Active)
  BY DEF Checked

LEMMA TallyNothing == ASSUME Tally({}) PROVE Checked' \subseteq Checked
  BY TallyChecks DEF Tally

LEMMA CheckedStays ==
    ASSUME unchecked' = unchecked,
           \A l \in Links :
               /\ link'[l].row = link[l].row /\ link'[l].active = link[l].active
               /\ link'[l].expired = link[l].expired
               /\ file'[l].trashed = file[l].trashed
    PROVE  Checked' \subseteq Checked
  BY DEF Checked, Active

LEMMA OneMoves ==
    ASSUME IInv, NEW p \in Requests, NEW r, req' = [req EXCEPT ![p] = r]
    PROVE  \A q \in Requests : req'[q] = IF q = p THEN r ELSE req[q]
  BY DEF IInv, Typing

LEMMA OthersFree ==
    ASSUME IInv, alone, NEW p \in Requests, ~Free(p)
    PROVE  \A q \in Requests : q # p => req[q].step = "idle"
  BY DEF IInv, Lone, Free

-----------------------------------------------------------------------------
(* Steps against the owner's quota.                                         *)

\* Nothing is added, and whoever may add could add no less.
LEMMA QuotaFrame ==
    ASSUME IInv, QuotaInv, Checked' \subseteq Checked,
           \A p \in Requests : Brings(req'[p]) = Brings(req[p]) \/ Brings(req'[p]) = {},
           alone' => alone,
           alone' => \A p \in Requests : Holding(req'[p]) =>
               /\ Holding(req[p])
               /\ Due(req'[p], link') \subseteq Due(req[p], link)
    PROVE  QuotaInv'
<1>1. \A p \in Requests : Cardinality(Brings(req'[p])) <= MaxBatch
  <2>1. Cardinality({}) = 0 /\ 0 <= MaxBatch
    BY DirectLinkAssumption, FS_EmptySet
  <2>2. QED
    BY <2>1 DEF QuotaInv
<1>2. Cardinality(Checked') <= Cardinality(Checked)
  <2>1. Checked' \in SUBSET Checked
    OBVIOUS
  <2>2. QED
    BY <2>1, CheckedFinite, FS_Subset
<1>3. Cardinality(Places') <= Cardinality(Places)
  <2>1. Places' \in SUBSET Places
    BY DEF Places
  <2>2. QED
    BY <2>1, PlacesFinite, FS_Subset
<1>4. /\ Cardinality(Checked) \in Nat /\ Cardinality(Checked') \in Nat
      /\ Cardinality(Places) \in Nat /\ Cardinality(Places') \in Nat
      /\ ActiveLimit \in Nat
  BY CheckedFinite, PlacesFinite, DirectLinkAssumption
<1>5. Cardinality(Checked') + Cardinality(Places') <= ActiveLimit + Cardinality(Requests) * MaxBatch
  <2> DEFINE bound == ActiveLimit + Cardinality(Requests) * MaxBatch
  <2>1. Cardinality(Checked) + Cardinality(Places) <= bound /\ bound \in Nat
    BY PlacesFinite DEF QuotaInv
  <2> HIDE DEF bound
  <2>2. Cardinality(Checked') + Cardinality(Places') <= bound
    BY <1>2, <1>3, <1>4, <2>1
  <2>3. QED
    BY <2>2 DEF bound
<1>6. alone' => Cardinality(Checked') <= ActiveLimit
  BY <1>2, <1>4 DEF QuotaInv
<1>7. ASSUME alone', NEW p \in Requests, Holding(req'[p])
      PROVE  Cardinality(Checked' \cup Due(req'[p], link')) <= ActiveLimit
  <2> DEFINE big == Checked \cup Due(req[p], link)
  <2> DEFINE small == Checked' \cup Due(req'[p], link')
  <2>1. Holding(req[p]) /\ Due(req'[p], link') \subseteq Due(req[p], link)
    BY <1>7
  <2>2. Cardinality(big) <= ActiveLimit
    BY <1>7, <2>1 DEF QuotaInv
  <2>3. small \in SUBSET big
    BY <2>1
  <2>4. IsFiniteSet(big)
    <3>1. big \in SUBSET (Links \cup {NoLink})
      BY CheckedFinite DEF Due, IInv, Typing, Request
    <3>2. QED
      BY <3>1, PlacesFinite, FS_Subset
  <2> HIDE DEF big, small
  <2>5. Cardinality(small) <= Cardinality(big) /\ Cardinality(small) \in Nat
        /\ Cardinality(big) \in Nat
    BY <2>3, <2>4, FS_Subset, FS_CardinalityType
  <2>6. Cardinality(small) <= ActiveLimit
    BY <1>4, <2>2, <2>5
  <2>7. QED
    BY <2>6 DEF small
<1>8. QED
  BY <1>1, <1>5, <1>6, <1>7 DEF QuotaInv

\* A request goes on, holding nothing any more.
LEMMA QuotaMove ==
    ASSUME IInv, QuotaInv, NEW p \in Requests, ~Free(p), NEW r, Become(p, r),
           ~Holding(r), Checked' \subseteq Checked
    PROVE  QuotaInv'
<1>1. \A q \in Requests : req'[q] = IF q = p THEN r ELSE req[q]
  BY OneMoves DEF Become
<1>2. Brings(r) = {}
  BY DEF Brings
<1>3. \A q \in Requests : Brings(req'[q]) = Brings(req[q]) \/ Brings(req'[q]) = {}
  BY <1>1, <1>2
<1>4. alone' => alone
  BY DEF Become
<1>5. alone => \A q \in Requests : q # p => ~Holding(req[q])
  BY OthersFree DEF Holding
<1>6. alone' => \A q \in Requests : ~Holding(req'[q])
  BY <1>1, <1>4, <1>5
<1>7. QED
  BY <1>3, <1>4, <1>6, QuotaFrame

\* A request starts that takes no place.
LEMMA QuotaStart ==
    ASSUME IInv, QuotaInv, NEW p \in Requests, NEW r, Start(p, r),
           ~Holding(r), Checked' \subseteq Checked
    PROVE  QuotaInv'
<1>1. \A q \in Requests : req'[q] = IF q = p THEN r ELSE req[q]
  BY OneMoves DEF Start
<1>2. Brings(r) = {}
  BY DEF Brings
<1>3. \A q \in Requests : Brings(req'[q]) = Brings(req[q]) \/ Brings(req'[q]) = {}
  BY <1>1, <1>2
<1>4. alone' => alone /\ \A q \in Requests : ~Holding(req[q])
  BY DEF Start, Arrive, Free, Holding
<1>5. alone' => \A q \in Requests : ~Holding(req'[q])
  BY <1>1, <1>4
<1>6. QED
  BY <1>3, <1>4, <1>5, QuotaFrame

\* A request is done at once.
LEMMA QuotaAtOnce ==
    ASSUME IInv, QuotaInv, AtOnce, Checked' \subseteq Checked
    PROVE  QuotaInv'
<1>1. alone' => alone /\ \A q \in Requests : ~Holding(req'[q])
  BY DEF AtOnce, Arrive, Free, Holding
<1>2. req' = req
  BY DEF AtOnce
<1>3. QED
  BY <1>1, <1>2, QuotaFrame

LEMMA QuotaQuiet ==
    ASSUME IInv, QuotaInv, UNCHANGED <<req, alone>>, Checked' \subseteq Checked,
           \A l \in Links : /\ link'[l].active = link[l].active
                            /\ link[l].expired => link'[l].expired,
           Singles
    PROVE  QuotaInv'
<1>1. \A p \in Requests : Holding(req[p]) => req[p].on \subseteq Links
  BY DEF Singles, Holding
<1>2. \A p \in Requests : Holding(req'[p]) => Due(req'[p], link') \subseteq Due(req[p], link)
  BY <1>1 DEF Due
<1>3. QED
  BY <1>2, QuotaFrame

\* A request starts that the quota has room for.
LEMMA QuotaCount ==
    ASSUME IInv, QuotaInv, req' \in [Requests -> Request], NEW p \in Requests, NEW r,
           Start(p, r), UNCHANGED <<link, file, unchecked>>,
           Cardinality(Brings(r)) <= MaxBatch,
           NEW n \in Nat, WithinActiveDirectQuota(n),
           Due(r, link) \in SUBSET Links, Cardinality(Due(r, link)) <= n
    PROVE  QuotaInv'
<1>1. \A q \in Requests : req'[q] = IF q = p THEN r ELSE req[q]
  BY OneMoves DEF Start
<1>2. Checked' = Checked
  BY DEF Checked, Active
<1>3. \A q \in Requests : Cardinality(Brings(req'[q])) <= MaxBatch
  BY <1>1 DEF QuotaInv
<1>4. /\ Cardinality(Checked) <= ActiveLimit
      /\ Cardinality(Checked \cup Due(r, link)) <= ActiveLimit
  <2> DEFINE D == Due(r, link)
  <2> DEFINE both == Checked \cup D
  <2>1. Active \in SUBSET Links /\ D \in SUBSET Links /\ Checked \in SUBSET Active
    BY DEF Active, Checked
  <2>2. Cardinality(D) <= n /\ Cardinality(Active) + n <= ActiveLimit
    BY DEF WithinActiveDirectQuota
  <2> HIDE DEF D
  <2>3. /\ IsFiniteSet(Active) /\ Cardinality(Active) \in Nat
        /\ IsFiniteSet(D) /\ Cardinality(D) \in Nat
    BY <2>1, LinksFinite
  <2>4. /\ Cardinality(Active \cup D) <= ActiveLimit /\ IsFiniteSet(Active \cup D)
        /\ Cardinality(Active \cup D) \in Nat
    <3>1. /\ IsFiniteSet(Active \cup D)
          /\ Cardinality(Active \cup D)
               = Cardinality(Active) + Cardinality(D) - Cardinality(Active \cap D)
      BY <2>3, FS_Union
    <3>2. Cardinality(Active \cap D) \in Nat /\ Cardinality(Active \cup D) \in Nat
      BY <2>3, <3>1, FS_Intersection, FS_CardinalityType
    <3>3. QED
      BY <2>2, <2>3, <3>1, <3>2, DirectLinkAssumption
  <2>5. both \in SUBSET (Active \cup D) /\ Checked \in SUBSET (Active \cup D)
    BY <2>1
  <2> HIDE DEF both
  <2>6. /\ Cardinality(both) <= Cardinality(Active \cup D)
        /\ Cardinality(Checked) <= Cardinality(Active \cup D)
        /\ Cardinality(both) \in Nat /\ Cardinality(Checked) \in Nat
    BY <2>4, <2>5, FS_Subset, FS_CardinalityType
  <2>7. Cardinality(both) <= ActiveLimit /\ Cardinality(Checked) <= ActiveLimit
    BY <2>4, <2>6, DirectLinkAssumption
  <2>8. QED
    BY <2>7 DEF both, D
<1>5. Cardinality(Checked) + Cardinality(Places') <= ActiveLimit + Cardinality(Requests) * MaxBatch
  <2> DEFINE bound == Cardinality(Requests) * MaxBatch
  <2>1. Cardinality(Places') <= bound
    BY <1>3, PlacesBound
  <2>2. Cardinality(Checked) \in Nat /\ Cardinality(Places') \in Nat /\ ActiveLimit \in Nat
        /\ bound \in Nat
    BY CheckedFinite, PlacesFinite, DirectLinkAssumption
  <2> HIDE DEF bound
  <2>3. Cardinality(Checked) + Cardinality(Places') <= ActiveLimit + bound
    BY <1>4, <2>1, <2>2
  <2>4. QED
    BY <2>3 DEF bound
<1>6. ASSUME alone', NEW q \in Requests, Holding(req'[q])
      PROVE  Cardinality(Checked' \cup Due(req'[q], link')) <= ActiveLimit
  <2>1. q = p
    BY <1>1, <1>6 DEF Start, Arrive, Free, Holding
  <2>2. req'[q] = r /\ link' = link
    BY <1>1, <2>1
  <2>3. QED
    BY <1>2, <1>4, <2>2
<1>7. QED
  BY <1>2, <1>3, <1>4, <1>5, <1>6 DEF QuotaInv

\* A request writes what it was let through with.
LEMMA QuotaAdd ==
    ASSUME IInv, QuotaInv, NEW p \in Requests, ~Free(p), NEW r, Become(p, r),
           ~Holding(r), Holding(req[p]), req[p].on \subseteq Links,
           Checked' \subseteq Checked \cup Due(req[p], link)
    PROVE  QuotaInv'
<1> DEFINE added == Due(req[p], link)
<1>0. added \in SUBSET req[p].on /\ added \in SUBSET Links /\ Brings(req[p]) = req[p].on
  BY DEF Due, Brings
<1>1. \A q \in Requests : req'[q] = IF q = p THEN r ELSE req[q]
  BY OneMoves DEF Become
<1>2. Brings(r) = {}
  BY DEF Brings
<1>3. \A q \in Requests : Cardinality(Brings(req'[q])) <= MaxBatch
  <2>1. Cardinality({}) = 0 /\ 0 <= MaxBatch
    BY DirectLinkAssumption, FS_EmptySet
  <2>2. QED
    BY <1>1, <1>2, <2>1 DEF QuotaInv
<1>4. alone => Cardinality(Checked \cup added) <= ActiveLimit
  BY DEF QuotaInv
<1>5. Checked' \subseteq Checked \cup added
  OBVIOUS
<1> HIDE DEF added
<1>6. IsFiniteSet(added) /\ IsFiniteSet(Checked \cup added)
      /\ Cardinality(Checked \cup added) \in Nat
  <2>1. Checked \cup added \in SUBSET Links
    BY <1>0, CheckedFinite
  <2>2. QED
    BY <1>0, <2>1, LinksFinite
<1>7. alone' => Cardinality(Checked') <= ActiveLimit
  <2>1. Cardinality(Checked') <= Cardinality(Checked \cup added)
    BY <1>5, <1>6, FS_Subset
  <2>2. QED
    BY <1>4, <1>6, <2>1, CheckedFinite, DirectLinkAssumption DEF Become
<1>8. Cardinality(Checked') + Cardinality(Places') <= ActiveLimit + Cardinality(Requests) * MaxBatch
  <2> DEFINE bound == ActiveLimit + Cardinality(Requests) * MaxBatch
  <2> DEFINE T == Brings(req[p])
  <2>1. bound \in Nat
    BY PlacesFinite
  <2>2. Cardinality(Checked) + Cardinality(Places) <= bound
    BY DEF QuotaInv
  <2>3. T \subseteq Links
    BY <1>0
  <2>4. IsFiniteSet(T) /\ Cardinality(T) \in Nat
    BY <2>3, LinksFinite
  <2>5. {p} \X T \subseteq Places
    BY <2>3 DEF Places
  <2>6. Places' \subseteq Places \ ({p} \X T)
    BY <1>1, <1>2 DEF Places
  <2>7. Cardinality(added) <= Cardinality(T)
    BY <1>0, <2>4, FS_Subset
  <2>8. Cardinality(T) = Cardinality({p} \X T)
    <3>1. IsFiniteSet({p}) /\ Cardinality({p}) = 1
      BY FS_Singleton
    <3>2. Cardinality({p} \X T) = 1 * Cardinality(T)
      BY <2>4, <3>1, FS_Product
    <3>3. QED
      BY <2>4, <3>2
  <2>9. IsFiniteSet(Checked) /\ IsFiniteSet(Places)
    BY CheckedFinite, PlacesFinite
  <2> DEFINE K == {p} \X T
  <2>10. K \subseteq Places /\ Places' \subseteq Places \ K /\ Cardinality(added) <= Cardinality(K)
    BY <2>5, <2>6, <2>7, <2>8
  <2> HIDE DEF bound, T, K
  <2>11. Cardinality(Checked') + Cardinality(Places') <= bound
    BY <1>5, <1>6, <2>1, <2>2, <2>9, <2>10, Swap
  <2>12. QED
    BY <2>11 DEF bound
<1>9. ASSUME alone', NEW q \in Requests
      PROVE  ~Holding(req'[q])
  <2>1. CASE q = p
    BY <1>1, <2>1
  <2>2. CASE q # p
    <3>1. req'[q].step = "idle"
      BY <1>1, <1>9, <2>2, OthersFree DEF Become
    <3>2. QED
      BY <3>1 DEF Holding
  <2>3. QED
    BY <2>1, <2>2
<1>10. QED
  BY <1>3, <1>7, <1>8, <1>9 DEF QuotaInv

-----------------------------------------------------------------------------
(* Steps against what is blocked.                                           *)

\* What there is to know of a link when one request at most is in progress.
LEMMA BlockBefore ==
    ASSUME BlockInv, alone, NEW p \in Requests, NEW l \in Links,
           \A q \in Requests : q # p => req[q].step = "idle"
    PROVE  /\ l \in undone \/ Disposing(req[p], l) \/ Follows(link[l], file[l])
           /\ l \in req[p].on => Knows(req[p], l, link[l], file[l], undone)
<1>1. \A q \in Requests : Disposing(req[q], l) => q = p
  BY DEF Disposing
<1>2. QED
  BY <1>1 DEF BlockInv

LEMMA BlockAfter ==
    ASSUME NEW p \in Requests, NEW r,
           \A q \in Requests : req'[q] = IF q = p THEN r ELSE req[q],
           alone' => \A q \in Requests : q # p => req[q].step = "idle",
           alone' => \A l \in Links :
               /\ l \in undone' \/ Disposing(r, l) \/ Follows(link'[l], file'[l])
               /\ l \in r.on => Knows(r, l, link'[l], file'[l], undone')
    PROVE  BlockInv'
<1> SUFFICES ASSUME alone', NEW l \in Links
             PROVE  /\ \/ l \in undone'
                       \/ \E q \in Requests : Disposing(req'[q], l)
                       \/ Follows(link'[l], file'[l])
                    /\ \A q \in Requests :
                          l \in req'[q].on => Knows(req'[q], l, link'[l], file'[l], undone')
  BY DEF BlockInv
<1>1. l \in undone' \/ Disposing(req'[p], l) \/ Follows(link'[l], file'[l])
  OBVIOUS
<1>2. ASSUME NEW q \in Requests, l \in req'[q].on
      PROVE  Knows(req'[q], l, link'[l], file'[l], undone')
  <2>1. CASE q = p
    BY <1>2, <2>1
  <2>2. CASE q # p
    <3>1. req'[q].step = "idle"
      BY <2>2
    <3>2. QED
      BY <3>1 DEF Knows
  <2>3. QED
    BY <2>1, <2>2
<1>3. QED
  BY <1>1, <1>2

\* Steps that have nothing to do with blocks.
LEMMA BlockCalm ==
    ASSUME BlockInv, alone' => alone, undone \subseteq undone',
           \A q \in Requests :
               \/ req'[q] = req[q]
               \/ /\ req[q].step \notin {"flag", "review"}
                  /\ req'[q].step \notin {"insert", "flag", "review"},
           \A l \in Links :
               /\ link'[l].row = link[l].row /\ link'[l].blocked = link[l].blocked
               /\ file'[l].blocked = file[l].blocked /\ file'[l].approved = file[l].approved
    PROVE  BlockInv'
<1> SUFFICES ASSUME alone', NEW l \in Links
             PROVE  /\ \/ l \in undone'
                       \/ \E q \in Requests : Disposing(req'[q], l)
                       \/ Follows(link'[l], file'[l])
                    /\ \A q \in Requests :
                          l \in req'[q].on => Knows(req'[q], l, link'[l], file'[l], undone')
  BY DEF BlockInv
<1>1. \A q \in Requests : Disposing(req[q], l) => Disposing(req'[q], l)
  BY DEF Disposing
<1>2. Follows(link[l], file[l]) => Follows(link'[l], file'[l])
  BY DEF Follows
<1>3. ASSUME NEW q \in Requests, l \in req'[q].on
      PROVE  Knows(req'[q], l, link'[l], file'[l], undone')
  <2>1. CASE req'[q] = req[q]
    <3>1. Knows(req[q], l, link[l], file[l], undone)
      BY <1>3, <2>1 DEF BlockInv
    <3>2. QED
      BY <2>1, <3>1 DEF Knows
  <2>2. CASE req'[q].step \notin {"insert", "flag", "review"}
    BY <2>2 DEF Knows
  <2>3. QED
    BY <2>1, <2>2
<1>4. QED
  BY <1>1, <1>2, <1>3 DEF BlockInv

-----------------------------------------------------------------------------
(* ... one after the other.                                                 *)

LEMMA SinglesMove ==
    ASSUME IInv, Singles, NEW p \in Requests, NEW r, req' = [req EXCEPT ![p] = r],
           r.step \in {"insert", "flag", "review"} => \E l \in Links : r.on = {l},
           r.step = "write" => r.on \subseteq Links
    PROVE  Singles'
  BY OneMoves DEF Singles

\* A step of a download.
LEMMA DownloadOwner ==
    ASSUME IInv, OInv, NEW p \in Requests, NEW r,
           Start(p, r) \/ (Become(p, r) /\ ~Free(p)),
           req[p].step \in Downloading \cup {"idle"}, r.step \in Downloading \cup {"idle"},
           UNCHANGED <<file, unchecked, undone>>,
           \A l \in Links :
               /\ link'[l].row = link[l].row /\ link'[l].active = link[l].active
               /\ link'[l].expired = link[l].expired /\ link'[l].blocked = link[l].blocked
    PROVE  OInv'
<1>1. req' = [req EXCEPT ![p] = r] /\ (alone' => alone)
  <2>1. CASE Start(p, r)
    BY <2>1 DEF Start, Arrive
  <2>2. CASE Become(p, r)
    BY <2>2 DEF Become
  <2>3. QED
    BY <2>1, <2>2
<1>2. Singles'
  BY <1>1, SinglesMove DEF OInv, Downloading
<1>3. Checked' \subseteq Checked
  BY CheckedStays
<1>4. QuotaInv'
  BY <1>3, QuotaMove, QuotaStart DEF OInv, Holding, Downloading
<1>5. BlockInv'
  <2>1. \A q \in Requests :
            \/ req'[q] = req[q]
            \/ /\ req[q].step \notin {"flag", "review"}
               /\ req'[q].step \notin {"insert", "flag", "review"}
    BY <1>1, OneMoves DEF Downloading
  <2>2. QED
    BY <1>1, <2>1, BlockCalm DEF OInv
<1>6. QED
  BY <1>2, <1>4, <1>5 DEF OInv

LEMMA StartsOwner ==
    ASSUME IInv, OInv, NEW p \in Requests,
           PlanDownload(p) \/ \E l \in Links : OpenLink(p, l)
    PROVE  OInv'
<1>1. PICK r : /\ Start(p, r) /\ r.step \in Downloading
               /\ UNCHANGED <<link, file, unchecked, undone>>
  BY DEF PlanDownload, GuardPlannedDownload, OpenLink, Slot, Downloading, data, history
<1>2. req[p].step = "idle"
  BY <1>1 DEF Start, Free
<1>3. QED
  BY <1>1, <1>2, DownloadOwner

LEMMA DownloadsOwner ==
    ASSUME IInv, OInv, NEW p \in Requests,
           \/ ReadLink(p) \/ SendWhole(p)
           \/ \E exempt \in BOOLEAN : CheckDirect(p, exempt)
           \/ \E ok \in BOOLEAN : RecordDownloadUsage(p, ok)
    PROVE  OInv'
<1>1. /\ req[p].step \in Downloading /\ ~Free(p) /\ UNCHANGED <<link, file, unchecked, undone>>
      /\ \/ Become(p, Idle)
         \/ \E step \in Downloading : Become(p, [req[p] EXCEPT !.step = step])
         \/ \E arg : Become(p, Slot("send", arg, req[p].on))
  BY DEF ReadLink, CheckDirect, SendWhole, RecordDownloadUsage, At, Free, Downloading,
         data, history
<1>2. PICK r : Become(p, r) /\ r.step \in Downloading \cup {"idle"}
  <2>1. CASE Become(p, Idle)
    <3>1. Idle.step = "idle"
      BY DEF Idle, Slot
    <3>2. QED
      BY <2>1, <3>1
  <2>2. ASSUME NEW step \in Downloading, Become(p, [req[p] EXCEPT !.step = step])
        PROVE  \E r : Become(p, r) /\ r.step \in Downloading \cup {"idle"}
    <3>1. PICK r : r = [req[p] EXCEPT !.step = step]
      OBVIOUS
    <3>2. r.step = step
      BY <3>1 DEF IInv, Typing, Request
    <3>3. QED
      BY <2>2, <3>1, <3>2
  <2>3. ASSUME NEW arg, Become(p, Slot("send", arg, req[p].on))
        PROVE  \E r : Become(p, r) /\ r.step \in Downloading \cup {"idle"}
    <3>1. Slot("send", arg, req[p].on).step \in Downloading
      BY DEF Slot, Downloading
    <3>2. QED
      BY <2>3, <3>1
  <2>4. QED
    BY <1>1, <2>1, <2>2, <2>3
<1>3. QED
  BY <1>1, <1>2, DownloadOwner

LEMMA CompleteOwner ==
    ASSUME IInv, OInv, NEW p \in Requests, CompleteDirectDownload(p)
    PROVE  OInv'
<1>1. PICK r : /\ Become(p, r) /\ r.step = "idle" /\ ~Free(p) /\ req[p].step = "complete"
               /\ UNCHANGED <<file, unchecked, undone>>
  BY DEF CompleteDirectDownload, Idle, Slot, At, Free
<1>2. \A l \in Links :
          /\ link'[l].row = link[l].row /\ link'[l].active = link[l].active
          /\ link'[l].expired = link[l].expired /\ link'[l].blocked = link[l].blocked
  <2>1. PICK k : link' = IF Completes(k) THEN [link EXCEPT ![k].count = @ + 1] ELSE link
    BY DEF CompleteDirectDownload
  <2>2. CASE link' = link
    BY <2>2
  <2>3. CASE link' = [link EXCEPT ![k].count = @ + 1]
    BY <2>3 DEF IInv, Typing, Link
  <2>4. QED
    BY <2>1, <2>2, <2>3
<1>3. QED
  BY <1>1, <1>2, DownloadOwner DEF Downloading

\* A link may be created: its file is approved, hence not blocked.
LEMMA CheckCreateOwner ==
    ASSUME IInv, IInv', OInv, NEW p \in Requests, NEW l \in Links, CheckCreate(p, l)
    PROVE  OInv'
<1>1. PICK r : r = Slot("insert", "", {l})
  OBVIOUS
<1>2. r.step = "insert" /\ r.on = {l}
  BY <1>1 DEF Slot
<1>3. /\ Start(p, r) /\ WithinActiveDirectQuota(1) /\ file[l].approved
      /\ UNCHANGED <<link, file, unchecked, undone>>
  BY <1>1 DEF CheckCreate, data, history
<1>4. req' = [req EXCEPT ![p] = r]
      /\ (alone' => alone /\ \A q \in Requests : req[q].step = "idle")
  BY <1>3 DEF Start, Arrive, Free
<1>5. Singles'
  BY <1>2, <1>4, SinglesMove DEF OInv
<1>6. QuotaInv'
  <2>1. Due(r, link) = {l} /\ Brings(r) = {l}
    BY <1>2 DEF Due, Brings, Holding
  <2>2. Cardinality({l}) = 1 /\ {l} \in SUBSET Links
    BY FS_Singleton
  <2>3. req' \in [Requests -> Request] /\ 1 \in Nat
    BY DEF IInv, Typing
  <2>4. Cardinality(Brings(r)) <= MaxBatch /\ Cardinality(Due(r, link)) <= 1
        /\ Due(r, link) \in SUBSET Links
    BY <2>1, <2>2, DirectLinkAssumption
  <2>5. QED
    BY <1>3, <2>3, <2>4, QuotaCount DEF OInv
<1>7. BlockInv'
  <2>1. \A q \in Requests : req'[q] = IF q = p THEN r ELSE req[q]
    BY <1>4, OneMoves
  <2>2. ASSUME alone', NEW k \in Links
        PROVE  /\ k \in undone' \/ Disposing(r, k) \/ Follows(link'[k], file'[k])
               /\ k \in r.on => Knows(r, k, link'[k], file'[k], undone')
    <3>1. k \in undone \/ Disposing(req[p], k) \/ Follows(link[k], file[k])
      BY <1>4, <2>2, BlockBefore DEF OInv
    <3>2. ~Disposing(req[p], k)
      BY <1>4, <2>2 DEF Disposing
    <3>3. k \in undone \/ Follows(link[k], file[k])
      BY <3>1, <3>2
    <3>4. k \in r.on => k \in undone \/ ~file[k].blocked
      BY <1>2, <1>3, <3>3 DEF Follows
    <3>5. QED
      BY <1>2, <1>3, <3>3, <3>4 DEF Knows
  <2>3. QED
    BY <1>4, <2>1, <2>2, BlockAfter
<1>8. QED
  BY <1>3, <1>5, <1>6, <1>7 DEF OInv

LEMMA StartBatchOwner ==
    ASSUME IInv, IInv', OInv, NEW p \in Requests, NEW ls \in SUBSET Links,
           NEW action \in {"enable", "disable", "delete"}, StartBatch(p, ls, action)
    PROVE  OInv'
<1>1. PICK r : r = Slot("write", action, ls)
  OBVIOUS
<1>2. r.step = "write" /\ r.arg = action /\ r.on = ls
  BY <1>1 DEF Slot
<1>3. /\ Start(p, r) /\ UNCHANGED <<link, file, unchecked, undone>>
      /\ Cardinality(ls) <= MaxBatch
      /\ action = "enable" => WithinActiveDirectQuota(Cardinality(ToEnable(ls)))
  BY <1>1 DEF StartBatch, data, history
<1>4. req' = [req EXCEPT ![p] = r] /\ (alone' => alone) /\ req[p].step = "idle"
  BY <1>3 DEF Start, Arrive, Free
<1>5. Singles'
  BY <1>2, <1>4, SinglesMove DEF OInv
<1>6. QuotaInv'
  <2>1. CASE action = "enable"
    <3>1. Due(r, link) = ToEnable(ls) /\ Brings(r) = ls
      BY <1>2, <2>1 DEF Due, ToEnable, Brings, Holding
    <3>2. ToEnable(ls) \in SUBSET Links
      BY DEF ToEnable
    <3>3. Cardinality(ToEnable(ls)) \in Nat
      BY <3>2, LinksFinite
    <3>4. req' \in [Requests -> Request]
      BY DEF IInv, Typing
    <3>5. WithinActiveDirectQuota(Cardinality(ToEnable(ls)))
      BY <1>3, <2>1
    <3> DEFINE n == Cardinality(ToEnable(ls))
    <3>6. /\ n \in Nat /\ WithinActiveDirectQuota(n) /\ Due(r, link) \in SUBSET Links
          /\ Cardinality(Due(r, link)) = n
      BY <3>1, <3>2, <3>3, <3>5
    <3>7. Cardinality(Brings(r)) <= MaxBatch
      BY <1>3, <3>1
    <3> HIDE DEF n
    <3>8. Cardinality(Due(r, link)) <= n
      BY <3>6
    <3>9. QED
      BY <1>3, <3>4, <3>6, <3>7, <3>8, QuotaCount DEF OInv
  <2>2. CASE action # "enable"
    <3>1. ~Holding(r)
      BY <1>2, <2>2 DEF Holding
    <3>2. Checked' \subseteq Checked
      BY <1>3, CheckedStays
    <3>3. QED
      BY <1>3, <3>1, <3>2, QuotaStart DEF OInv
  <2>3. QED
    BY <2>1, <2>2
<1>7. BlockInv'
  <2>1. \A q \in Requests :
            \/ req'[q] = req[q]
            \/ /\ req[q].step \notin {"flag", "review"}
               /\ req'[q].step \notin {"insert", "flag", "review"}
    BY <1>2, <1>4, OneMoves
  <2>2. QED
    BY <1>3, <1>4, <2>1, BlockCalm DEF OInv
<1>8. QED
  BY <1>3, <1>5, <1>6, <1>7 DEF OInv

\* The file is written first; its link follows.
LEMMA DisposeOwner ==
    ASSUME IInv, OInv, NEW p \in Requests, NEW l \in Links,
           NEW verdict \in {"approved", "rejected", "blocked"}, DisposeFile(p, l, verdict)
    PROVE  OInv'
<1>1. PICK r : r = Slot("flag", verdict, {l})
  OBVIOUS
<1>2. r.step = "flag" /\ r.arg = verdict /\ r.on = {l}
  BY <1>1 DEF Slot
<1>3. /\ Start(p, r) /\ UNCHANGED <<link, unchecked, undone>>
      /\ file' = [file EXCEPT ![l].blocked = verdict = "blocked"]
  BY <1>1 DEF DisposeFile, history
<1>4. req' = [req EXCEPT ![p] = r]
      /\ (alone' => alone /\ \A q \in Requests : req[q].step = "idle")
  BY <1>3 DEF Start, Arrive, Free
<1>5. /\ file' \in [Links -> File]
      /\ \A k \in Links : /\ file'[k].trashed = file[k].trashed
                          /\ k # l => file'[k] = file[k]
                          /\ k = l => file'[k].blocked = (verdict = "blocked")
  BY <1>3 DEF OInv, File
<1>6. Singles'
  BY <1>2, <1>4, SinglesMove DEF OInv
<1>7. QuotaInv'
  <2>1. Checked' \subseteq Checked
    BY <1>3, <1>5, CheckedStays
  <2>2. QED
    BY <1>2, <1>3, <2>1, QuotaStart DEF OInv, Holding
<1>8. BlockInv'
  <2>0. req' = [req EXCEPT ![p] = r]
    BY <1>4
  <2>1. \A q \in Requests : req'[q] = IF q = p THEN r ELSE req[q]
    BY <2>0, OneMoves
  <2>2. ASSUME alone', NEW k \in Links
        PROVE  /\ k \in undone' \/ Disposing(r, k) \/ Follows(link'[k], file'[k])
               /\ k \in r.on => Knows(r, k, link'[k], file'[k], undone')
    <3>1. CASE k = l
      BY <1>2, <1>5, <3>1 DEF Disposing, Knows
    <3>2. CASE k # l
      <4>1. k \in undone \/ Disposing(req[p], k) \/ Follows(link[k], file[k])
        BY <1>4, <2>2, BlockBefore DEF OInv
      <4>2. ~Disposing(req[p], k)
        BY <1>4, <2>2 DEF Disposing
      <4>3. k \in undone \/ Follows(link[k], file[k])
        BY <4>1, <4>2
      <4>4. QED
        BY <1>2, <1>3, <1>5, <3>2, <4>3
    <3>3. QED
      BY <3>1, <3>2
  <2>3. QED
    BY <1>4, <2>1, <2>2, BlockAfter
<1>9. QED
  BY <1>5, <1>6, <1>7, <1>8 DEF OInv

\* A request that was alone all along ends here.
LEMMA BlockEnd ==
    ASSUME IInv, BlockInv, NEW p \in Requests, ~Free(p), Become(p, Idle),
           alone => \A l \in Links :
               (/\ l \in undone \/ Disposing(req[p], l) \/ Follows(link[l], file[l])
                /\ l \in req[p].on => Knows(req[p], l, link[l], file[l], undone))
               => l \in undone' \/ Follows(link'[l], file'[l])
    PROVE  BlockInv'
<1>1. PICK r : r = Idle
  OBVIOUS
<1>2. r.on = {} /\ req' = [req EXCEPT ![p] = r] /\ (alone' => alone)
  BY <1>1 DEF Become, Idle, Slot
<1>3. \A q \in Requests : req'[q] = IF q = p THEN r ELSE req[q]
  BY <1>2, OneMoves
<1>4. alone' => \A q \in Requests : q # p => req[q].step = "idle"
  BY <1>2, OthersFree
<1>5. alone' => \A l \in Links : l \in undone' \/ Follows(link'[l], file'[l])
  BY <1>2, <1>4, BlockBefore
<1>6. QED
  BY <1>2, <1>3, <1>4, <1>5, BlockAfter

LEMMA EndIdle ==
    ASSUME IInv, OInv, NEW p \in Requests, Become(p, Idle)
    PROVE  Singles' /\ Idle.step = "idle" /\ ~Holding(Idle)
<1>1. PICK r : r = Idle
  OBVIOUS
<1>2. r.step = "idle"
  BY <1>1 DEF Idle, Slot
<1>3. req' = [req EXCEPT ![p] = r]
  BY <1>1 DEF Become
<1>4. Singles'
  BY <1>2, <1>3, SinglesMove DEF OInv
<1>5. QED
  BY <1>1, <1>2, <1>4 DEF Holding

LEMMA CreateOwner ==
    ASSUME IInv, OInv, NEW p \in Requests, NEW n \in Limits, CreateDirectLink(p, n)
    PROVE  OInv'
<1>1. PICK l \in Links : req[p].on = {l}
  BY DEF CreateDirectLink, At, OInv, Singles
<1>2. /\ req[p].step = "insert" /\ ~Free(p) /\ Become(p, Idle)
      /\ link' = [link EXCEPT ![l] = NewLink(n)] /\ UNCHANGED <<file, undone>>
      /\ unchecked' = (unchecked \cup (Active' \ (Active \cup {l}))) \cap Active'
  BY <1>1 DEF CreateDirectLink, At, Free
<1>3. NewLink(n).row /\ NewLink(n).blocked = FALSE
  BY DEF NewLink, NoRow
<1>4. \A k \in Links : link'[k] = IF k = l THEN NewLink(n) ELSE link[k]
  BY <1>2 DEF IInv, Typing
<1>5. QuotaInv'
  <2>1. Due(req[p], link) = {l} /\ Holding(req[p])
    BY <1>1, <1>2 DEF Due, Holding
  <2>2. Checked' \subseteq Checked \cup Due(req[p], link)
    BY <1>2, <2>1, TallyChecks
  <2>3. req[p].on \subseteq Links
    BY <1>1
  <2>4. QED
    BY <1>2, <2>1, <2>2, <2>3, EndIdle, QuotaAdd DEF OInv
<1>6. BlockInv'
  <2>1. ASSUME NEW k \in Links,
               k \in undone \/ Disposing(req[p], k) \/ Follows(link[k], file[k]),
               k \in req[p].on => Knows(req[p], k, link[k], file[k], undone)
        PROVE  k \in undone' \/ Follows(link'[k], file'[k])
    <3>1. k \in undone \/ Follows(link[k], file[k])
      BY <1>2, <2>1 DEF Disposing
    <3>2. CASE k = l
      <4>1. k \in undone \/ ~file[k].blocked
        BY <1>1, <1>2, <2>1, <3>2 DEF Knows
      <4>2. link'[k].row /\ link'[k].blocked = FALSE
        BY <1>3, <1>4, <3>2
      <4>3. QED
        BY <1>2, <4>1, <4>2 DEF Follows
    <3>3. CASE k # l
      BY <1>2, <1>4, <3>1, <3>3
    <3>4. QED
      BY <3>2, <3>3
  <2>2. QED
    BY <1>2, <2>1, BlockEnd DEF OInv
<1>7. QED
  BY <1>2, <1>5, <1>6, EndIdle DEF OInv

LEMMA BatchOwner ==
    ASSUME IInv, OInv, NEW p \in Requests, BatchDirectLinks(p)
    PROVE  OInv'
<1> DEFINE ls == req[p].on
<1> DEFINE Now(l) == IF req[p].arg = "delete" THEN [NoRow(link[l].limit) EXCEPT !.born = TRUE]
                     ELSE [link[l] EXCEPT !.active = req[p].arg = "enable"]
<1>1. /\ req[p].step = "write" /\ ~Free(p) /\ Become(p, Idle) /\ UNCHANGED <<file, undone>>
      /\ unchecked' = (unchecked \cup (Active' \ (Active \cup ls))) \cap Active'
      /\ link' = IF \A l \in ls : link[l].row
                 THEN [l \in Links |-> IF l \in ls THEN Now(l) ELSE link[l]] ELSE link
  BY DEF BatchDirectLinks, At, Free, Tally
<1>2. ls \subseteq Links
  BY <1>1 DEF OInv, Singles
<1>3. \A l \in Links :
          \/ link'[l] = link[l]
          \/ /\ l \in ls /\ link[l].row /\ req[p].arg = "delete"
             /\ ~link'[l].row /\ link'[l].blocked = FALSE /\ ~link'[l].active
          \/ /\ l \in ls /\ req[p].arg # "delete"
             /\ link'[l].row = link[l].row /\ link'[l].blocked = link[l].blocked
             /\ link'[l].expired = link[l].expired
             /\ link'[l].active = (req[p].arg = "enable")
  <2>1. ASSUME NEW l \in Links, l \in ls, link[l].row, link'[l] = Now(l)
        PROVE  \/ /\ req[p].arg = "delete"
                  /\ ~link'[l].row /\ link'[l].blocked = FALSE /\ ~link'[l].active
               \/ /\ req[p].arg # "delete"
                  /\ link'[l].row = link[l].row /\ link'[l].blocked = link[l].blocked
                  /\ link'[l].expired = link[l].expired
                  /\ link'[l].active = (req[p].arg = "enable")
    <3>1. CASE req[p].arg = "delete"
      <4>1. link'[l] = [NoRow(link[l].limit) EXCEPT !.born = TRUE]
        BY <2>1, <3>1
      <4>2. QED
        BY <3>1, <4>1 DEF NoRow
    <3>2. CASE req[p].arg # "delete"
      <4>1. link'[l] = [link[l] EXCEPT !.active = req[p].arg = "enable"]
        BY <2>1, <3>2
      <4>2. link[l] \in Link
        BY DEF IInv, Typing
      <4>3. QED
        BY <3>2, <4>1, <4>2 DEF Link
    <3>3. QED
      BY <3>1, <3>2
  <2>2. ASSUME NEW l \in Links
        PROVE  link'[l] = link[l] \/ (l \in ls /\ link[l].row /\ link'[l] = Now(l))
    <3> HIDE DEF Now
    <3>1. QED
      BY <1>1, <1>2
  <2> HIDE DEF Now, ls
  <2>3. QED
    BY <2>1, <2>2
<1>4. \A l \in Checked' : l \in Checked \/ (l \in ls /\ l \notin Active)
  BY <1>1, TallyChecks
<1>5. QuotaInv'
  <2>1. ASSUME NEW l \in Checked', l \notin Checked
        PROVE  l \in Due(req[p], link) /\ req[p].arg = "enable"
    <3>1. /\ l \in Links /\ l \in ls /\ l \notin Active
          /\ link'[l].row /\ link'[l].active /\ ~link'[l].expired /\ ~file'[l].trashed
      BY <1>4, <2>1 DEF Checked, Active
    <3>2. link'[l] # link[l]
      BY <1>1, <3>1 DEF Active
    <3>3. /\ link'[l].row = link[l].row /\ link'[l].expired = link[l].expired
          /\ link'[l].active = (req[p].arg = "enable")
      BY <1>3, <3>1, <3>2
    <3>4. ~link[l].active /\ ~link[l].expired
      BY <1>1, <3>1, <3>3 DEF Active
    <3>5. QED
      BY <3>1, <3>3, <3>4 DEF Due
  <2>2. CASE req[p].arg = "enable"
    <3>1. Holding(req[p]) /\ Checked' \subseteq Checked \cup Due(req[p], link)
      BY <1>1, <2>1, <2>2 DEF Holding
    <3>2. QED
      BY <1>1, <1>2, <3>1, EndIdle, QuotaAdd DEF OInv
  <2>3. CASE req[p].arg # "enable"
    <3>1. Checked' \subseteq Checked
      BY <2>1, <2>3
    <3>2. QED
      BY <1>1, <3>1, EndIdle, QuotaMove DEF OInv
  <2>4. QED
    BY <2>2, <2>3
<1>6. BlockInv'
  <2>1. ASSUME NEW k \in Links,
               k \in undone \/ Disposing(req[p], k) \/ Follows(link[k], file[k])
        PROVE  k \in undone' \/ Follows(link'[k], file'[k])
    <3>1. k \in undone \/ Follows(link[k], file[k])
      BY <1>1, <2>1 DEF Disposing
    <3>2. Follows(link[k], file[k]) => Follows(link'[k], file'[k])
      BY <1>1, <1>3 DEF Follows
    <3>3. QED
      BY <1>1, <3>1, <3>2
  <2>2. QED
    BY <1>1, <2>1, BlockEnd DEF OInv
<1>7. QED
  BY <1>1, <1>5, <1>6, EndIdle DEF OInv

LEMMA FlagOwner ==
    ASSUME IInv, OInv, NEW p \in Requests, FlagLinks(p)
    PROVE  OInv'
<1>1. PICK l \in Links : req[p].on = {l}
  BY DEF FlagLinks, At, OInv, Singles
<1>2. PICK r : r = [req[p] EXCEPT !.step = "review"]
  OBVIOUS
<1>3. r.step = "review" /\ r.on = {l} /\ r.arg = req[p].arg
  BY <1>1, <1>2 DEF IInv, Typing, Request
<1>4. /\ req[p].step = "flag" /\ ~Free(p) /\ Become(p, r) /\ UNCHANGED <<file, undone>>
      /\ link' = Flagged(l, req[p].arg) /\ Tally({})
  BY <1>1, <1>2 DEF FlagLinks, At, Free
<1>5. /\ \A k \in Links : k # l => link'[k] = link[k]
      /\ link'[l].blocked = (link'[l].row /\ req[p].arg = "blocked")
  <2>1. link' = [link EXCEPT ![l].blocked = link[l].row /\ req[p].arg = "blocked"]
    BY <1>4 DEF Flagged
  <2>2. QED
    BY <2>1 DEF IInv, Typing, Link
<1>6. Singles'
  BY <1>3, <1>4, SinglesMove DEF OInv, Become
<1>7. QuotaInv'
  BY <1>3, <1>4, TallyNothing, QuotaMove DEF OInv, Holding
<1>8. BlockInv'
  <2>1. \A q \in Requests : req'[q] = IF q = p THEN r ELSE req[q]
    BY <1>4, OneMoves DEF Become
  <2>2. alone' => alone /\ \A q \in Requests : q # p => req[q].step = "idle"
    BY <1>4, OthersFree DEF Become
  <2>3. ASSUME alone', NEW k \in Links
        PROVE  /\ k \in undone' \/ Disposing(r, k) \/ Follows(link'[k], file'[k])
               /\ k \in r.on => Knows(r, k, link'[k], file'[k], undone')
    <3>1. /\ k \in undone \/ Disposing(req[p], k) \/ Follows(link[k], file[k])
          /\ k \in req[p].on => Knows(req[p], k, link[k], file[k], undone)
      BY <2>2, <2>3, BlockBefore DEF OInv
    <3>2. CASE k = l
      <4>1. file[k].blocked = (req[p].arg = "blocked")
        BY <1>1, <1>4, <3>1, <3>2 DEF Knows
      <4>2. QED
        BY <1>3, <1>4, <1>5, <3>2, <4>1 DEF Disposing, Knows
    <3>3. CASE k # l
      <4>1. k \in undone \/ Follows(link[k], file[k])
        BY <1>1, <3>1, <3>3 DEF Disposing
      <4>2. QED
        BY <1>3, <1>4, <1>5, <3>3, <4>1
    <3>4. QED
      BY <3>2, <3>3
  <2>4. QED
    BY <2>1, <2>2, <2>3, BlockAfter
<1>9. QED
  BY <1>4, <1>6, <1>7, <1>8 DEF OInv

LEMMA ReviewOwner ==
    ASSUME IInv, OInv, NEW p \in Requests, ReviewFile(p)
    PROVE  OInv'
<1>1. PICK l \in Links : req[p].on = {l}
  BY DEF ReviewFile, At, OInv, Singles
<1>2. /\ req[p].step = "review" /\ ~Free(p) /\ Become(p, Idle) /\ link' = link
      /\ file' = [file EXCEPT ![l].approved = req[p].arg = "approved"]
      /\ undone' = undone \ {l} /\ Tally({})
  BY <1>1 DEF ReviewFile, At, Free
<1>3. /\ file' \in [Links -> File]
      /\ \A k \in Links : /\ k # l => file'[k] = file[k]
                          /\ file'[k].blocked = file[k].blocked
      /\ file'[l].approved = (req[p].arg = "approved")
  BY <1>2 DEF OInv, File
<1>4. QuotaInv'
  BY <1>2, EndIdle, TallyNothing, QuotaMove DEF OInv
<1>5. BlockInv'
  <2>1. ASSUME NEW k \in Links,
               k \in undone \/ Disposing(req[p], k) \/ Follows(link[k], file[k]),
               k \in req[p].on => Knows(req[p], k, link[k], file[k], undone)
        PROVE  k \in undone' \/ Follows(link'[k], file'[k])
    <3>1. CASE k = l
      <4>1. /\ file[k].blocked = (req[p].arg = "blocked")
            /\ link[k].blocked = (link[k].row /\ file[k].blocked)
        BY <1>1, <1>2, <2>1, <3>1 DEF Knows
      <4>2. QED
        BY <1>2, <1>3, <3>1, <4>1 DEF Follows
    <3>2. CASE k # l
      BY <1>1, <1>2, <1>3, <2>1, <3>2 DEF Disposing
    <3>3. QED
      BY <3>1, <3>2
  <2>2. QED
    BY <1>2, <2>1, BlockEnd DEF OInv
<1>6. QED
  BY <1>2, <1>3, <1>4, <1>5, EndIdle DEF OInv

LEMMA AbandonOwner ==
    ASSUME IInv, OInv, NEW p \in Requests, Abandon(p)
    PROVE  OInv'
<1>1. /\ ~Free(p) /\ Become(p, Idle) /\ UNCHANGED <<link, file, unchecked>>
      /\ undone' = IF req[p].step \in {"flag", "review"} THEN undone \cup req[p].on ELSE undone
  BY DEF Abandon, At, data
<1>2. QuotaInv'
  BY <1>1, EndIdle, CheckedStays, QuotaMove DEF OInv
<1>3. BlockInv'
  <2>1. ASSUME NEW k \in Links,
               k \in undone \/ Disposing(req[p], k) \/ Follows(link[k], file[k])
        PROVE  k \in undone' \/ Follows(link'[k], file'[k])
    BY <1>1, <2>1 DEF Disposing
  <2>2. QED
    BY <1>1, <2>1, BlockEnd DEF OInv
<1>4. QED
  BY <1>1, <1>2, <1>3, EndIdle DEF OInv

\* What happens at once, or by itself.
LEMMA OtherOwner ==
    ASSUME IInv, OInv,
           \/ \E l \in Links : \/ \E n \in Limits, extend \in BOOLEAN : UpdateDirectLink(l, n, extend)
                               \/ TrashFile(l) \/ Expire(l)
           \/ PlanExempt \/ NewDay
           \/ UNCHANGED vars
    PROVE  OInv'
<1>1. UNCHANGED <<req, undone>> /\ (alone' => alone)
  <2>1. CASE AtOnce /\ undone' = undone
    BY <2>1 DEF AtOnce, Arrive
  <2>2. CASE UNCHANGED <<req, undone, alone>>
    BY <2>2
  <2>3. QED
    BY <2>1, <2>2 DEF UpdateDirectLink, TrashFile, Expire, PlanExempt, NewDay, vars, history
<1>2. /\ file' \in [Links -> File]
      /\ \A k \in Links : /\ link'[k].row = link[k].row /\ link'[k].blocked = link[k].blocked
                          /\ file'[k].blocked = file[k].blocked
                          /\ file'[k].approved = file[k].approved
  <2>1. ASSUME NEW l \in Links, NEW n \in Limits, NEW extend \in BOOLEAN,
               UpdateDirectLink(l, n, extend)
        PROVE  /\ file' = file
               /\ \A k \in Links : link'[k].row = link[k].row /\ link'[k].blocked = link[k].blocked
    BY <2>1 DEF UpdateDirectLink, IInv, Typing, Link
  <2>2. ASSUME NEW l \in Links, TrashFile(l)
        PROVE  /\ link' = link /\ file' \in [Links -> File]
               /\ \A k \in Links : /\ file'[k].blocked = file[k].blocked
                                   /\ file'[k].approved = file[k].approved
    BY <2>2 DEF TrashFile, OInv, File
  <2>3. ASSUME NEW l \in Links, Expire(l)
        PROVE  /\ file' = file
               /\ \A k \in Links : link'[k].row = link[k].row /\ link'[k].blocked = link[k].blocked
    BY <2>3 DEF Expire, IInv, Typing, Link
  <2>4. CASE PlanExempt \/ NewDay \/ UNCHANGED vars
    BY <2>4 DEF PlanExempt, NewDay, vars, data, OInv
  <2>5. file \in [Links -> File]
    BY DEF OInv
  <2>6. QED
    BY <2>1, <2>2, <2>3, <2>4, <2>5
<1>3. Singles'
  BY <1>1 DEF OInv, Singles
<1>4. BlockInv'
  BY <1>1, <1>2, BlockCalm DEF OInv
<1>5. QuotaInv'
  <2>1. CASE AtOnce /\ Tally({})
    BY <2>1, TallyNothing, QuotaAtOnce DEF OInv
  <2>2. ASSUME NEW l \in Links, Expire(l)
        PROVE  QuotaInv'
    <3>1. \A k \in Links : /\ link'[k].active = link[k].active
                           /\ link[k].expired => link'[k].expired
      BY <2>2 DEF Expire, IInv, Typing, Link
    <3>2. Checked' \subseteq Checked /\ UNCHANGED <<req, alone>>
      BY <2>2, TallyNothing DEF Expire
    <3>3. QED
      BY <3>1, <3>2, QuotaQuiet DEF OInv
  <2>3. CASE NewDay \/ UNCHANGED vars
    <3>1. UNCHANGED <<link, file, unchecked, req, alone>>
      BY <2>3 DEF NewDay, vars, data, history
    <3>2. Checked' \subseteq Checked
      BY <3>1, CheckedStays
    <3>3. QED
      BY <3>1, <3>2, QuotaQuiet DEF OInv
  <2>4. CASE PlanExempt
    <3>1. Checked' \subseteq Checked
      BY <2>4, CheckedStays DEF PlanExempt, data
    <3>2. QED
      BY <2>4, <3>1, QuotaAtOnce DEF PlanExempt, OInv
  <2>5. QED
    BY <2>1, <2>2, <2>3, <2>4 DEF UpdateDirectLink, TrashFile
<1>6. QED
  BY <1>2, <1>3, <1>4, <1>5 DEF OInv

LEMMA OwnerStep == ASSUME IInv, IInv', OInv, [Next]_vars PROVE OInv'
<1>1. ASSUME NEW p \in Requests, NewRequest(p) PROVE OInv'
  BY <1>1, StartsOwner, CheckCreateOwner, StartBatchOwner, DisposeOwner DEF NewRequest
<1>2. ASSUME NEW p \in Requests, RequestStep(p) PROVE OInv'
  BY <1>2, DownloadsOwner, CompleteOwner, CreateOwner, BatchOwner, FlagOwner, ReviewOwner,
     AbandonOwner DEF RequestStep
<1>3. QED
  BY <1>1, <1>2, OtherOwner DEF Next

LEMMA InitOwner == Init => OInv
<1> SUFFICES ASSUME Init PROVE OInv
  OBVIOUS
<1>1. \A p \in Requests : req[p].step = "idle" /\ req[p].on = {}
  BY DEF Init, Idle, Slot
<1>2. file \in [Links -> File] /\ \A l \in Links : file[l].blocked = FALSE
  BY DEF Init, GoodFile, File
<1>3. \A l \in Links : link[l].blocked = FALSE
  <2>1. \A n \in Limits : NoRow(n).blocked = FALSE /\ NewLink(n).blocked = FALSE
    BY DEF NoRow, NewLink
  <2>2. \A l \in Links : \E n \in Limits : link[l] = NoRow(n) \/ link[l] = NewLink(n)
    BY DEF Init
  <2>3. QED
    BY <2>1, <2>2
<1>4. BlockInv
  BY <1>1, <1>2, <1>3 DEF BlockInv, Follows
<1>5. Singles
  BY <1>1 DEF Singles
<1>6. QuotaInv
  <2>1. \A p \in Requests : ~Holding(req[p]) /\ Brings(req[p]) = {}
    BY <1>1 DEF Holding, Brings
  <2>2. Places = {}
    BY <2>1 DEF Places
  <2>3. Checked = Active
    BY DEF Init, Checked
  <2>4. Cardinality(Checked) <= ActiveLimit
    BY <2>3 DEF Init
  <2>5. Cardinality({}) = 0 /\ MaxBatch \in Nat /\ 0 <= MaxBatch
    BY FS_EmptySet, DirectLinkAssumption
  <2>6. Cardinality(Checked) + Cardinality(Places) <= ActiveLimit + Cardinality(Requests) * MaxBatch
    <3> DEFINE bound == Cardinality(Requests) * MaxBatch
    <3>1. bound \in Nat
      BY PlacesFinite
    <3> HIDE DEF bound
    <3>2. Cardinality(Checked) + Cardinality(Places) <= ActiveLimit + bound
      BY <2>2, <2>4, <2>5, <3>1, CheckedFinite, DirectLinkAssumption
    <3>3. QED
      BY <3>2 DEF bound
  <2>7. QED
    BY <2>1, <2>4, <2>5, <2>6 DEF QuotaInv
<1>7. QED
  BY <1>2, <1>4, <1>5, <1>6 DEF OInv

\* What the last two theorems rest on.
LEMMA OwnerInvariant == Spec => []OInv
<1>1. IInv /\ IInv' /\ OInv /\ [Next]_vars => OInv'
  BY OwnerStep
<1>2. QED
  BY <1>1, InitOwner, DirectLinkInvariant, PTL DEF Spec

LEMMA ActiveFollows == OInv => ActiveWithinQuota
<1> SUFFICES ASSUME OInv PROVE ActiveWithinQuota
  OBVIOUS
<1> DEFINE bound == Cardinality(Requests) * MaxBatch
<1>1. /\ bound \in Nat /\ Cardinality(Places) \in Nat /\ Cardinality(Checked) \in Nat
      /\ ActiveLimit \in Nat
  BY PlacesFinite, CheckedFinite, DirectLinkAssumption
<1>2. /\ Cardinality(Checked) + Cardinality(Places) <= ActiveLimit + bound
      /\ alone => Cardinality(Checked) <= ActiveLimit
  BY DEF OInv, QuotaInv
<1> HIDE DEF bound
<1>3. /\ Cardinality(Checked) <= ActiveLimit + bound
      /\ alone => Cardinality(Checked) <= ActiveLimit + 0
  BY <1>1, <1>2
<1>4. QED
  BY <1>3 DEF ActiveWithinQuota, bound, Checked

\* The owner's active links are within the quota while requests run one after the
\* other, and never more than a batch for every request beyond it, of those that
\* became active by way of a count.
THEOREM ActiveHolds == Spec => []ActiveWithinQuota
<1>1. QED
  BY OwnerInvariant, ActiveFollows, PTL

\* While requests run one after the other, a link is as blocked as its file,
\* except during a disposition of it and after one that failed half-way.
THEOREM BlocksFollow == Spec => []BlockFollowsFile
<1>1. OInv => BlockFollowsFile
  BY DEF OInv, BlockInv, BlockFollowsFile, Disposing, Follows
<1>2. QED
  BY <1>1, OwnerInvariant, PTL
=============================================================================
