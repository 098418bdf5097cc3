---------------------------- MODULE SharingProofs ----------------------------
(***************************************************************************)
(* Proofs about Sharing, for any number of shares, codes and requests: the    *)
(* tables keep their shape, a code that is live leads to one share, and a     *)
(* share that is deleted takes no code, whatever a request read of it before. *)
(* While requests run one after the other, a      *)
(* share that is open has its code and keeps it, and the quota is held; when  *)
(* they run side by side, no more shares are counted than the quota and a     *)
(* batch for every request.                                                  *)
(***************************************************************************)
EXTENDS Sharing, FiniteSetTheorems, FunctionTheorems, TLAPS

\* A step gives no code to a share that is deleted before and after it.
DeletedSilent ==
    \A s \in Shares : share[s].deleted /\ share'[s].deleted /\ share'[s].live =>
        share[s].live /\ share'[s].code = share[s].code

\* What a step must do to the table of shares.
Sound == share' \in [Shares -> Share] /\ LiveCodesUnique' /\ DeletedSilent

\* ... and to everything else.
Rest ==
    /\ trashed' \subseteq Shares /\ req' \in [Requests -> Request]
    /\ made' \in 0..MaxRequests /\ lost' \subseteq Shares
    /\ unchecked' \subseteq Active' /\ alone' \in BOOLEAN

-----------------------------------------------------------------------------
(* The table of shares.                                                    *)

LEMMA RowTypes == NoShare \in Share /\ \A c \in Codes : NewShare(c) \in Share
  BY DEF NoShare, NewShare, Share

\* Rows that change give codes up at most.
LEMMA RowsChange ==
    ASSUME TypeOK, share' \in [Shares -> Share],
           \A s \in Shares :
               share'[s].live => share[s].live /\ share'[s].code = share[s].code
    PROVE  Sound
<1>1. LiveCodesUnique'
  BY DEF TypeOK, LiveCodesUnique
<1>2. DeletedSilent
  BY DEF DeletedSilent
<1>3. QED
  BY <1>1, <1>2 DEF Sound

LEMMA RowChanges ==
    ASSUME TypeOK, NEW s \in Shares, NEW x \in Share, share' = [share EXCEPT ![s] = x],
           x.live => share[s].live /\ x.code = share[s].code
    PROVE  Sound
<1>1. share' \in [Shares -> Share]
  BY DEF TypeOK
<1>2. \A t \in Shares : share'[t] = IF t = s THEN x ELSE share[t]
  BY DEF TypeOK
<1>3. QED
  BY <1>1, <1>2, RowsChange

\* A row that takes a code takes one that is free, or its own.
LEMMA RowTakes ==
    ASSUME TypeOK, NEW s \in Shares, NEW x \in Share, share' = [share EXCEPT ![s] = x],
           ~share[s].deleted,
           x.code \in FreeCodes \/ (share[s].live /\ x.code = share[s].code)
    PROVE  Sound
<1>1. share' \in [Shares -> Share]
  BY DEF TypeOK
<1>2. \A t \in Shares : share'[t] = IF t = s THEN x ELSE share[t]
  BY DEF TypeOK
<1>3. \A t \in Shares \ {s} : share[t].live => share[t].code # x.code
  BY DEF TypeOK, LiveCodesUnique, FreeCodes
<1>4. LiveCodesUnique'
  BY <1>2, <1>3 DEF TypeOK, LiveCodesUnique
<1>5. DeletedSilent
  BY <1>2 DEF DeletedSilent
<1>6. QED
  BY <1>1, <1>4, <1>5 DEF Sound

LEMMA RowsStay == ASSUME TypeOK, UNCHANGED share PROVE Sound
  BY RowsChange DEF TypeOK

-----------------------------------------------------------------------------
(* The rest.                                                               *)

ReqSteps == {"idle", "insert", "mark", "count", "write",
             "sync", "release", "occupy", "rotate", "decide"}
ReqArgs == {"", "new", "plain", "review", "enable", "disable", "delete",
            "approved", "rejected", "dropped"}

LEMMA SlotType ==
    ASSUME NEW step \in ReqSteps, NEW arg \in ReqArgs, NEW ss \in SUBSET Shares
    PROVE  Slot(step, arg, ss) \in Request
  BY DEF Slot, Request, ReqSteps, ReqArgs

LEMMA OneSlotType ==
    ASSUME NEW step \in ReqSteps, NEW arg \in ReqArgs, NEW s \in Shares
    PROVE  Slot(step, arg, {s}) \in Request
<1>1. {s} \in SUBSET Shares
  OBVIOUS
<1>2. QED
  BY <1>1, SlotType

LEMMA IdleType == Idle \in Request
  BY SlotType DEF Idle, ReqSteps, ReqArgs

LEMMA SyncType == \A ss \in SUBSET Shares : Sync(ss) \in Request
  BY SlotType, IdleType DEF Sync, ReqSteps, ReqArgs

LEMMA BecomeRest ==
    ASSUME TypeOK, NEW p \in Requests, NEW r \in Request, Become(p, r),
           trashed' = trashed, lost' \subseteq Shares, unchecked' \subseteq Active'
    PROVE  Rest
<1>1. req' \in [Requests -> Request]
  BY DEF Become, TypeOK
<1>2. made' \in 0..MaxRequests /\ alone' \in BOOLEAN
  BY DEF Become, TypeOK
<1>3. QED
  BY <1>1, <1>2 DEF TypeOK, Rest

LEMMA StartRest ==
    ASSUME TypeOK, NEW p \in Requests, NEW r \in Request, Start(p, r),
           trashed' = trashed, lost' = lost, unchecked' \subseteq Active'
    PROVE  Rest
<1>1. req' \in [Requests -> Request]
  BY DEF Start, TypeOK
<1>2. made' \in 0..MaxRequests
  BY SharingAssumption DEF Start, TypeOK
<1>3. alone' \in BOOLEAN
  BY Zenon DEF Start, TypeOK
<1>4. QED
  BY <1>1, <1>2, <1>3 DEF TypeOK, Rest

\* What counts against the quota, after a step that counts, or moves codes only.
LEMMA Tallied == ASSUME NEW counted, Tally(counted) PROVE unchecked' \subseteq Active'
  BY DEF Tally

LEMMA ActiveStays ==
    ASSUME TypeOK, UNCHANGED <<trashed, unchecked>>,
           \A s \in Shares :
               /\ share'[s].row = share[s].row /\ share'[s].active = share[s].active
               /\ share'[s].blocked = share[s].blocked /\ share'[s].deleted = share[s].deleted
               /\ share'[s].expired = share[s].expired
    PROVE  unchecked' \subseteq Active'
  BY DEF TypeOK, Active

-----------------------------------------------------------------------------
(* Requests of the owner.                                                  *)

LEMMA OwnerRequestStep ==
    ASSUME TypeOK, NEW p \in Requests, OwnerRequest(p)
    PROVE  Sound /\ Rest
<1>1. CASE CheckCreate(p)
  <2>1. Slot("insert", "", {}) \in Request
    BY SlotType DEF ReqSteps, ReqArgs
  <2>2. unchecked' \subseteq Active'
    BY <1>1, ActiveStays DEF CheckCreate
  <2>3. QED
    BY <1>1, <2>1, <2>2, RowsStay, StartRest DEF CheckCreate
<1>2. ASSUME NEW s \in Shares, NEW review \in BOOLEAN, NEW extend \in BOOLEAN,
             EditShare(p, s, review, extend)
      PROVE  Sound /\ Rest
  <2>1. Slot("mark", IF review THEN "review" ELSE "plain", {s}) \in Request
    BY OneSlotType DEF ReqSteps, ReqArgs
  <2> DEFINE e == share[s].expired /\ ~extend
  <2> DEFINE x == [share[s] EXCEPT !.expired = e]
  <2>2. share' = [share EXCEPT ![s] = x]
    BY <1>2 DEF EditShare
  <2>3. e \in BOOLEAN
    OBVIOUS
  <2> HIDE DEF e
  <2>4. /\ x \in Share /\ x.live = share[s].live /\ x.code = share[s].code
        /\ x.deleted = share[s].deleted
    <3>1. share[s] \in Share
      BY DEF TypeOK
    <3>2. QED
      BY <2>3, <3>1 DEF Share
  <2> HIDE DEF x
  <2>5. Sound
    BY <2>2, <2>4, RowChanges
  <2>6. QED
    BY <1>2, <2>1, <2>5, Tallied, StartRest DEF EditShare
<1>3. ASSUME NEW ss \in SUBSET Shares, NEW action \in {"enable", "disable", "delete"},
             StartBatch(p, ss, action)
      PROVE  Sound /\ Rest
  <2>1. Slot("count", action, ss) \in Request
    BY SlotType DEF ReqSteps, ReqArgs
  <2>2. unchecked' \subseteq Active'
    BY <1>3, ActiveStays DEF StartBatch
  <2>3. QED
    BY <1>3, <2>1, <2>2, RowsStay, StartRest DEF StartBatch
<1>4. QED
  BY <1>1, <1>2, <1>3 DEF OwnerRequest

LEMMA AdminRequestStep ==
    ASSUME TypeOK, NEW p \in Requests, AdminRequest(p)
    PROVE  Sound /\ Rest
<1>1. ASSUME NEW s \in Shares, NEW change \in {"extend", "enable", "disable", "unblock"},
             AdminUpdateShare(p, s, change)
      PROVE  Sound /\ Rest
  <2>1. Slot("sync", "", {s}) \in Request
    BY OneSlotType DEF ReqSteps, ReqArgs
  <2> DEFINE x == CASE change = "extend"  -> [share[s] EXCEPT !.expired = FALSE]
                    [] change = "enable"  -> [share[s] EXCEPT !.active = TRUE]
                    [] change = "disable" -> [share[s] EXCEPT !.active = FALSE]
                    [] change = "unblock" -> [share[s] EXCEPT !.blocked = FALSE, !.deleted = FALSE]
  <2>2. share' = [share EXCEPT ![s] = x] /\ ~share[s].deleted
    BY <1>1 DEF AdminUpdateShare, Deletable
  <2>3. x \in Share /\ x.live = share[s].live /\ x.code = share[s].code
    <3>1. share[s] \in Share
      BY DEF TypeOK
    <3>2. CASE change = "extend"
      BY <3>1, <3>2 DEF Share
    <3>3. CASE change = "enable"
      BY <3>1, <3>3 DEF Share
    <3>4. CASE change = "disable"
      BY <3>1, <3>4 DEF Share
    <3>5. CASE change = "unblock"
      BY <3>1, <3>5 DEF Share
    <3>6. QED
      BY <3>2, <3>3, <3>4, <3>5
  <2> HIDE DEF x
  <2>4. Sound
    BY <2>2, <2>3, RowChanges
  <2>5. QED
    BY <1>1, <2>1, <2>4, Tallied, StartRest DEF AdminUpdateShare
<1>2. ASSUME NEW s \in Shares, NEW verdict \in {"approved", "rejected", "dropped"},
             NEW blocked \in BOOLEAN, SetShareDisposition(p, s, verdict, blocked)
      PROVE  Sound /\ Rest
  <2>1. Slot("decide", verdict, {s}) \in Request
    BY OneSlotType DEF ReqSteps, ReqArgs
  <2> DEFINE d == share[s].deleted \/ verdict = "dropped"
  <2> DEFINE x == [share[s] EXCEPT !.deleted = d, !.blocked = blocked]
  <2>2. share' = [share EXCEPT ![s] = x]
    BY <1>2 DEF SetShareDisposition
  <2>3. d \in BOOLEAN /\ (share[s].deleted => d)
    BY DEF TypeOK, Share
  <2> HIDE DEF d
  <2>4. x \in Share /\ x.live = share[s].live /\ x.code = share[s].code /\ x.deleted = d
    <3>1. share[s] \in Share
      BY DEF TypeOK
    <3>2. QED
      BY <2>3, <3>1 DEF Share
  <2> HIDE DEF x
  <2>5. Sound
    BY <2>2, <2>3, <2>4, RowChanges
  <2>6. QED
    BY <1>2, <2>1, <2>5, Tallied, StartRest DEF SetShareDisposition
<1>3. QED
  BY <1>1, <1>2 DEF AdminRequest, Changes
-----------------------------------------------------------------------------
(* What a request goes on to do.                                           *)

LEMMA CreateStep ==
    ASSUME TypeOK, NEW p \in Requests, NEW s \in Shares, NEW c \in Codes,
           NEW review \in BOOLEAN, CreateShare(p, s, c, review)
    PROVE  Sound /\ Rest
<1>1. (IF review THEN Slot("mark", "new", {s}) ELSE Idle) \in Request
  BY OneSlotType, IdleType DEF ReqSteps, ReqArgs
<1>2. NewShare(c).code = c /\ ~share[s].deleted
  BY DEF CreateShare, NewShare, NoShare
<1>3. Sound
  BY <1>2, RowTypes, RowTakes DEF CreateShare
<1>4. lost' \subseteq Shares /\ trashed' = trashed
  BY DEF CreateShare, TypeOK
<1>5. QED
  BY <1>1, <1>3, <1>4, Tallied, BecomeRest DEF CreateShare

\* After a mark the code is put right, or there is nothing more to do.
LEMMA AfterMarkType ==
    ASSUME TypeOK, NEW p \in Requests
    PROVE  (IF req[p].arg = "new" THEN Idle ELSE Slot("sync", "", req[p].todo)) \in Request
<1>1. req[p].todo \in SUBSET Shares
  BY DEF TypeOK, Request
<1>2. QED
  BY <1>1, SlotType, IdleType DEF ReqSteps, ReqArgs

LEMMA MarkStep ==
    ASSUME TypeOK, NEW p \in Requests, MarkShare(p) \/ MarkFails(p)
    PROVE  Sound /\ Rest
<1>1. PICK s \in req[p].todo :
        \/ /\ AfterMark(p) /\ lost' = lost
           /\ \/ share' = share \/ share' = Pending(s) \/ share' = Cleared(s)
        \/ /\ Become(p, Idle) /\ lost' = lost \cup {s}
           /\ \/ share' = share \/ share' = [share EXCEPT ![s].active = FALSE]
  BY Zenon DEF MarkShare, MarkFails
<1>2. trashed' = trashed /\ Tally({})
  BY DEF MarkShare, MarkFails
<1>3. s \in Shares /\ share[s] \in Share
  BY DEF TypeOK, Request
<1>4. Sound
  <2> DEFINE a == [share[s] EXCEPT !.review = "pending"]
  <2> DEFINE b == [share[s] EXCEPT !.review = "none", !.drop = FALSE]
  <2> DEFINE c == [share[s] EXCEPT !.active = FALSE]
  <2>1. \/ share' = share \/ share' = [share EXCEPT ![s] = a]
        \/ share' = [share EXCEPT ![s] = b] \/ share' = [share EXCEPT ![s] = c]
    BY <1>1 DEF Pending, Cleared
  <2>2. /\ a \in Share /\ a.live = share[s].live /\ a.code = share[s].code
        /\ a.deleted = share[s].deleted
    BY <1>3 DEF Share
  <2>3. /\ b \in Share /\ b.live = share[s].live /\ b.code = share[s].code
        /\ b.deleted = share[s].deleted
    BY <1>3 DEF Share
  <2>4. /\ c \in Share /\ c.live = share[s].live /\ c.code = share[s].code
        /\ c.deleted = share[s].deleted
    BY <1>3 DEF Share
  <2> HIDE DEF a, b, c
  <2>5. CASE share' = share
    BY <2>5, RowsStay
  <2>6. CASE share' = [share EXCEPT ![s] = a]
    BY <1>3, <2>2, <2>6, RowChanges
  <2>7. CASE share' = [share EXCEPT ![s] = b]
    BY <1>3, <2>3, <2>7, RowChanges
  <2>8. CASE share' = [share EXCEPT ![s] = c]
    BY <1>3, <2>4, <2>8, RowChanges
  <2>9. QED
    BY <2>1, <2>5, <2>6, <2>7, <2>8
<1>5. lost' \subseteq Shares
  BY <1>1, <1>3 DEF TypeOK
<1>6. unchecked' \subseteq Active'
  BY <1>2, Tallied
<1>7. Rest
  BY <1>1, <1>2, <1>5, <1>6, AfterMarkType, IdleType, BecomeRest DEF AfterMark
<1>8. QED
  BY <1>4, <1>7

LEMMA BatchStep ==
    ASSUME TypeOK, NEW p \in Requests, CountBatch(p) \/ WriteBatch(p)
    PROVE  Sound /\ Rest
<1>1. CASE CountBatch(p)
  <2>1. [req[p] EXCEPT !.step = "write"] \in Request
    BY DEF TypeOK, Request
  <2>2. unchecked' \subseteq Active'
    BY <1>1, ActiveStays DEF CountBatch
  <2>3. lost' \subseteq Shares
    BY <1>1 DEF CountBatch, TypeOK
  <2>4. QED
    BY <1>1, <2>1, <2>2, <2>3, IdleType, RowsStay, BecomeRest DEF CountBatch
<1>2. CASE WriteBatch(p)
  <2> DEFINE ss == {s \in req[p].todo : share[s].row}
  <2> DEFINE After(s) == IF req[p].arg = "delete" THEN NoShare
                         ELSE [share[s] EXCEPT !.active = req[p].arg = "enable"]
  <2>1. share' = [s \in Shares |-> IF s \in ss THEN After(s) ELSE share[s]]
    BY <1>2 DEF WriteBatch
  <2>2. \A s \in Shares :
          /\ After(s) \in Share
          /\ After(s).live => share[s].live /\ After(s).code = share[s].code
          /\ share[s].deleted => After(s).deleted \/ ~After(s).row
    <3> SUFFICES ASSUME NEW s \in Shares
                 PROVE  /\ After(s) \in Share
                        /\ After(s).live => share[s].live /\ After(s).code = share[s].code
                        /\ share[s].deleted => After(s).deleted \/ ~After(s).row
      OBVIOUS
    <3>1. share[s] \in Share
      BY DEF TypeOK
    <3> DEFINE on == req[p].arg = "enable"
    <3>2. on \in BOOLEAN
      OBVIOUS
    <3> HIDE DEF on
    <3> DEFINE x == [share[s] EXCEPT !.active = on]
    <3>3. /\ x \in Share /\ x.live = share[s].live /\ x.code = share[s].code
          /\ x.deleted = share[s].deleted
      BY <3>1, <3>2 DEF Share
    <3>4. ~NoShare.live /\ ~NoShare.row
      BY DEF NoShare
    <3>5. After(s) = IF req[p].arg = "delete" THEN NoShare ELSE x
      BY DEF on
    <3> HIDE DEF x, After
    <3>6. QED
      BY <3>3, <3>4, <3>5, RowTypes
  <2> HIDE DEF After, ss
  <2>3. Sound
    <3>1. share' \in [Shares -> Share]
      BY <2>1, <2>2 DEF TypeOK
    <3>2. \A s \in Shares : share'[s] = IF s \in ss THEN After(s) ELSE share[s]
      BY <2>1
    <3>3. QED
      BY <2>2, <3>1, <3>2, RowsChange
  <2>4. (IF req[p].arg = "delete" THEN Idle ELSE Slot("sync", "", req[p].todo)) \in Request
    <3>1. req[p].todo \in SUBSET Shares
      BY DEF TypeOK, Request
    <3>2. QED
      BY <3>1, SlotType, IdleType DEF ReqSteps, ReqArgs
  <2>5. unchecked' \subseteq Active'
    BY <1>2 DEF WriteBatch, Tally
  <2>6. lost' \subseteq Shares /\ trashed' = trashed
    BY <1>2 DEF WriteBatch, TypeOK
  <2>7. Rest
    BY <1>2, <2>4, <2>5, <2>6, BecomeRest DEF WriteBatch
  <2>8. QED
    BY <2>3, <2>7
<1>3. QED
  BY <1>1, <1>2

\* The code of a share is as it should be, and the next one follows.
LEMMA SyncedRest ==
    ASSUME TypeOK, NEW p \in Requests, NEW s, Synced(p, s), trashed' = trashed,
           unchecked' \subseteq Active'
    PROVE  Rest
<1>1. Sync(req[p].todo \ {s}) \in Request
  <2>1. req[p].todo \ {s} \in SUBSET Shares
    BY DEF TypeOK, Request
  <2>2. QED
    BY <2>1, SyncType
<1>2. lost' \subseteq Shares
  BY DEF Synced, TypeOK
<1>3. QED
  BY <1>1, <1>2, BecomeRest DEF Synced

\* A step that changes the code of at most one share, and nothing else of it.
LEMMA CodeRow ==
    ASSUME TypeOK, NEW s \in Shares, NEW c \in Codes \cup {NoCode}, NEW l \in BOOLEAN,
           share' = [share EXCEPT ![s].code = c, ![s].live = l],
           UNCHANGED <<trashed, unchecked>>,
           l => /\ ~share[s].deleted
                /\ c \in FreeCodes \/ (share[s].live /\ c = share[s].code)
    PROVE  Sound /\ unchecked' \subseteq Active'
<1> DEFINE x == [share[s] EXCEPT !.code = c, !.live = l]
<1>1. share' = [share EXCEPT ![s] = x]
  OBVIOUS
<1>2. /\ x \in Share /\ x.live = l /\ x.code = c /\ x.row = share[s].row
      /\ x.active = share[s].active /\ x.blocked = share[s].blocked
      /\ x.deleted = share[s].deleted /\ x.expired = share[s].expired
  BY DEF TypeOK, Share
<1> HIDE DEF x
<1>3. Sound
  <2>1. CASE l
    BY <1>1, <1>2, <2>1, RowTakes
  <2>2. CASE ~l
    BY <1>1, <1>2, <2>2, RowChanges
  <2>3. QED
    BY <2>1, <2>2
<1>4. unchecked' \subseteq Active'
  <2>1. \A t \in Shares : share'[t] = IF t = s THEN x ELSE share[t]
    BY <1>1 DEF TypeOK
  <2>2. QED
    BY <1>2, <2>1, ActiveStays
<1>5. QED
  BY <1>3, <1>4

LEMMA SyncStep ==
    ASSUME TypeOK, NEW p \in Requests,
           \/ \E s \in Shares : ReadState(p, s)
           \/ ReleaseCode(p) \/ OccupyCode(p) \/ CodesExhausted(p)
           \/ \E c \in Codes : RotateCode(p, c)
    PROVE  Sound /\ Rest
<1> DEFINE on == req[p].on
<1>0. /\ on \in Shares \cup {NoOne} /\ req[p].todo \subseteq Shares
      /\ \A step \in ReqSteps : [req[p] EXCEPT !.step = step] \in Request
      /\ req[p].code \in Codes \cup {NoCode}
  BY DEF TypeOK, Request, ReqSteps
<1>1. ASSUME NEW s \in Shares, ReadState(p, s)
      PROVE  Sound /\ Rest
  <2>1. UNCHANGED <<share, trashed, unchecked>>
    BY <1>1 DEF ReadState
  <2>2. Sound /\ unchecked' \subseteq Active'
    BY <2>1, RowsStay, ActiveStays
  <2> DEFINE next == [req[p] EXCEPT !.step = IF Usable(s) THEN "occupy" ELSE "release",
                                    !.on = s, !.code = share[s].code]
  <2>3. next \in Request
    <3>1. share[s].code \in Codes \cup {NoCode}
      BY DEF TypeOK, Share
    <3>2. QED
      BY <3>1 DEF TypeOK, Request
  <2>4. Synced(p, s) \/ (Become(p, next) /\ lost' = lost)
    BY <1>1 DEF ReadState
  <2> HIDE DEF next
  <2>5. CASE Synced(p, s)
    BY <2>1, <2>2, <2>5, SyncedRest
  <2>6. CASE Become(p, next) /\ lost' = lost
    <3>1. lost' \subseteq Shares
      BY <2>6 DEF TypeOK
    <3>2. QED
      BY <2>1, <2>2, <2>3, <2>6, <3>1, BecomeRest
  <2>7. QED
    BY <2>4, <2>5, <2>6
<1>2. CASE ReleaseCode(p)
  <2>1. /\ share' = [share EXCEPT ![on].live = FALSE] /\ Synced(p, on)
        /\ UNCHANGED <<trashed, unchecked>>
    BY <1>2 DEF ReleaseCode
  <2>2. CASE on \in Shares
    <3>1. share' = [share EXCEPT ![on].code = share[on].code, ![on].live = FALSE]
      BY <2>1, <2>2 DEF TypeOK, Share
    <3>2. share[on].code \in Codes \cup {NoCode}
      BY <2>2 DEF TypeOK, Share
    <3> HIDE DEF on
    <3>3. Sound /\ unchecked' \subseteq Active'
      BY <2>1, <2>2, <3>1, <3>2, CodeRow
    <3>4. QED
      BY <2>1, <3>3, SyncedRest
  <2>3. CASE on \notin Shares
    <3>1. share' = share
      BY <2>1, <2>3 DEF TypeOK
    <3>2. Sound /\ unchecked' \subseteq Active'
      BY <2>1, <3>1, RowsStay, ActiveStays
    <3>3. QED
      BY <2>1, <3>2, SyncedRest
  <2>4. QED
    BY <2>2, <2>3
\* A code is taken.
<1>6. ASSUME NEW c \in Codes \cup {NoCode}, Synced(p, on), Occupies(on, c),
             share' = [share EXCEPT ![on].code = c, ![on].live = TRUE],
             UNCHANGED <<trashed, unchecked>>
      PROVE  Sound /\ Rest
  <2>1. ~share[on].deleted /\ (c \in FreeCodes \/ (share[on].live /\ c = share[on].code))
    BY <1>6 DEF Occupies
  <2> HIDE DEF on
  <2>2. CASE on \in Shares
    <3>1. Sound /\ unchecked' \subseteq Active'
      BY <1>6, <2>1, <2>2, CodeRow
    <3>2. QED
      BY <1>6, <3>1, SyncedRest
  <2>3. CASE on \notin Shares
    <3>1. share' = share
      BY <1>6, <2>3 DEF TypeOK
    <3>2. Sound /\ unchecked' \subseteq Active'
      BY <1>6, <3>1, RowsStay, ActiveStays
    <3>3. QED
      BY <1>6, <3>2, SyncedRest
  <2>4. QED
    BY <2>2, <2>3
<1>3. CASE OccupyCode(p)
  <2> DEFINE c == req[p].code
  <2>1. CASE Occupies(on, c)
    BY <1>0, <1>3, <1>6, <2>1 DEF OccupyCode
  <2>2. CASE ~Occupies(on, c)
    <3>1. /\ UNCHANGED <<share, lost, trashed, unchecked>>
          /\ Become(p, [req[p] EXCEPT !.step = "rotate"])
      BY <1>3, <2>2 DEF OccupyCode
    <3>2. [req[p] EXCEPT !.step = "rotate"] \in Request
      BY <1>0 DEF ReqSteps
    <3>3. Sound /\ unchecked' \subseteq Active' /\ lost' \subseteq Shares
      BY <3>1, RowsStay, ActiveStays DEF TypeOK
    <3>4. QED
      BY <3>1, <3>2, <3>3, BecomeRest
  <2>3. QED
    BY <2>1, <2>2
<1>4. CASE CodesExhausted(p)
  <2>1. UNCHANGED <<share, trashed, unchecked>> /\ lost' = lost \cup ({on} \ {NoOne})
    BY <1>4 DEF CodesExhausted
  <2>2. Sound /\ unchecked' \subseteq Active' /\ lost' \subseteq Shares
    BY <1>0, <2>1, RowsStay, ActiveStays DEF TypeOK
  <2>3. Sync(req[p].todo \ {on}) \in Request
    <3>1. req[p].todo \ {on} \in SUBSET Shares
      BY <1>0
    <3>2. QED
      BY <3>1, SyncType
  <2>4. QED
    BY <1>4, <2>1, <2>2, <2>3, IdleType, BecomeRest DEF CodesExhausted
<1>5. ASSUME NEW c \in Codes, RotateCode(p, c)
      PROVE  Sound /\ Rest
  BY <1>5, <1>6 DEF RotateCode
<1>7. QED
  BY <1>1, <1>2, <1>3, <1>4, <1>5

LEMMA ReviewStep ==
    ASSUME TypeOK, NEW p \in Requests, ReviewShare(p)
    PROVE  Sound /\ Rest
<1>1. PICK s \in req[p].todo :
        /\ Become(p, Idle)
        /\ share' = IF ~share[s].row THEN share
                    ELSE [share EXCEPT
                            ![s].review = IF req[p].arg = "approved" THEN "approved"
                                          ELSE "rejected",
                            ![s].drop = req[p].arg = "dropped"]
        /\ UNCHANGED <<trashed, lost>> /\ Tally({})
  BY DEF ReviewShare
<1>2. s \in Shares /\ share[s] \in Share
  BY DEF TypeOK, Request
<1> DEFINE v == IF req[p].arg = "approved" THEN "approved" ELSE "rejected"
<1> DEFINE d == req[p].arg = "dropped"
<1> DEFINE x == [share[s] EXCEPT !.review = v, !.drop = d]
<1>3. share' = share \/ share' = [share EXCEPT ![s] = x]
  BY <1>1
<1>4. v \in {"approved", "rejected"} /\ d \in BOOLEAN
  OBVIOUS
<1> HIDE DEF v, d
<1>5. /\ x \in Share /\ x.live = share[s].live /\ x.code = share[s].code
      /\ x.deleted = share[s].deleted
  BY <1>2, <1>4 DEF Share
<1> HIDE DEF x
<1>6. Sound
  BY <1>2, <1>3, <1>5, RowsStay, RowChanges
<1>7. lost' \subseteq Shares /\ unchecked' \subseteq Active'
  BY <1>1, Tallied DEF TypeOK
<1>8. QED
  BY <1>1, <1>6, <1>7, IdleType, BecomeRest

LEMMA AbandonStep ==
    ASSUME TypeOK, NEW p \in Requests, Abandon(p)
    PROVE  Sound /\ Rest
<1>1. Sound /\ unchecked' \subseteq Active'
  BY RowsStay, ActiveStays DEF Abandon
<1>2. lost' \subseteq Shares
  BY DEF Abandon, TypeOK, Request
<1>3. QED
  BY <1>1, <1>2, IdleType, BecomeRest DEF Abandon

-----------------------------------------------------------------------------
(* Time, the trash, administrators and the hourly release.                 *)

LEMMA OtherStep ==
    ASSUME TypeOK,
           \/ \E s \in Shares : AdminDeleteShare(s) \/ Expire(s) \/ TrashRoot(s)
           \/ \E s \in Shares, change \in Changes : AdminUpdateRefused(s, change)
           \/ ReleaseDeadPickupCodes
    PROVE  Sound /\ Rest
<1>1. ASSUME NEW s \in Shares, AdminDeleteShare(s)
      PROVE  Sound /\ Rest
  <2> DEFINE x == [share[s] EXCEPT !.deleted = TRUE, !.live = FALSE]
  <2>1. share' = [share EXCEPT ![s] = x]
    BY <1>1 DEF AdminDeleteShare
  <2>2. x \in Share /\ ~x.live /\ x.deleted
    BY DEF TypeOK, Share
  <2> HIDE DEF x
  <2>3. Sound
    BY <2>1, <2>2, RowChanges
  <2>4. made' \in 0..MaxRequests
    BY <1>1, SharingAssumption DEF AdminDeleteShare, TypeOK
  <2>5. QED
    BY <1>1, <2>3, <2>4, Tallied DEF AdminDeleteShare, TypeOK, Rest
<1>2. ASSUME NEW s \in Shares, Expire(s)
      PROVE  Sound /\ Rest
  <2> DEFINE x == [share[s] EXCEPT !.expired = TRUE]
  <2>1. share' = [share EXCEPT ![s] = x]
    BY <1>2 DEF Expire
  <2>2. /\ x \in Share /\ x.live = share[s].live /\ x.code = share[s].code
        /\ x.deleted = share[s].deleted
    BY DEF TypeOK, Share
  <2> HIDE DEF x
  <2>3. Sound
    BY <2>1, <2>2, RowChanges
  <2>4. QED
    BY <1>2, <2>3, Tallied DEF Expire, TypeOK, Rest
<1>3. ASSUME NEW s \in Shares, TrashRoot(s)
      PROVE  Sound /\ Rest
  <2>1. Sound
    BY <1>3, RowsStay DEF TrashRoot
  <2>2. made' \in 0..MaxRequests /\ trashed' \subseteq Shares
    BY <1>3, SharingAssumption DEF TrashRoot, TypeOK
  <2>3. QED
    BY <1>3, <2>1, <2>2, Tallied DEF TrashRoot, TypeOK, Rest
<1>4. CASE ReleaseDeadPickupCodes
  <2> DEFINE x(s) == [share[s] EXCEPT !.live = share[s].live /\ s \notin Dead]
  <2> DEFINE table == [s \in Shares |-> x(s)]
  <2>1. share' = table
    BY <1>4 DEF ReleaseDeadPickupCodes
  <2>2. \A s \in Shares :
          /\ x(s) \in Share /\ (x(s).live => share[s].live)
          /\ x(s).code = share[s].code /\ x(s).row = share[s].row
          /\ x(s).active = share[s].active /\ x(s).blocked = share[s].blocked
          /\ x(s).deleted = share[s].deleted /\ x(s).expired = share[s].expired
    <3> SUFFICES ASSUME NEW s \in Shares
                 PROVE  /\ x(s) \in Share /\ (x(s).live => share[s].live)
                        /\ x(s).code = share[s].code /\ x(s).row = share[s].row
                        /\ x(s).active = share[s].active /\ x(s).blocked = share[s].blocked
                        /\ x(s).deleted = share[s].deleted /\ x(s).expired = share[s].expired
      OBVIOUS
    <3>1. share[s] \in Share
      BY DEF TypeOK
    <3> DEFINE l == share[s].live /\ s \notin Dead
    <3>2. l \in BOOLEAN /\ (l => share[s].live)
      OBVIOUS
    <3>3. x(s) = [share[s] EXCEPT !.live = l]
      OBVIOUS
    <3> HIDE DEF l, x
    <3>4. QED
      BY <3>1, <3>2, <3>3 DEF Share
  <2>3. \A s \in Shares : share'[s] = x(s)
    BY <2>1
  <2> HIDE DEF x
  <2>4. Sound
    <3>1. \A s \in Shares : x(s) \in Share
      BY <2>2
    <3>2. table \in [Shares -> Share]
      BY <3>1, Zenon
    <3>3. share' \in [Shares -> Share]
      BY <2>1, <3>2
    <3>4. QED
      BY <2>2, <2>3, <3>3, RowsChange
  <2>5. unchecked' \subseteq Active'
    BY <1>4, <2>2, <2>3, ActiveStays DEF ReleaseDeadPickupCodes
  <2>6. QED
    BY <1>4, <2>4, <2>5 DEF ReleaseDeadPickupCodes, TypeOK, Rest
<1>5. ASSUME NEW s \in Shares, NEW change \in Changes, AdminUpdateRefused(s, change)
      PROVE  Sound /\ Rest
  <2>1. Sound /\ unchecked' \subseteq Active'
    BY <1>5, RowsStay, ActiveStays DEF AdminUpdateRefused
  <2>2. made' \in 0..MaxRequests
    BY <1>5, SharingAssumption DEF AdminUpdateRefused, TypeOK
  <2>3. QED
    BY <1>5, <2>1, <2>2 DEF AdminUpdateRefused, TypeOK, Rest
<1>6. QED
  BY <1>1, <1>2, <1>3, <1>4, <1>5

-----------------------------------------------------------------------------
(* Requests that run alone: what they read is still so when they write.     *)

\* Usable, of a row.
Fit(x) ==
    /\ x.row /\ ~x.deleted /\ x.active /\ ~x.expired
    /\ ~(x.review = "rejected" /\ x.drop)

\* What a request that runs alone knows of the table.
Ready(r, table) ==
    /\ r.step \in {"idle", "insert"} => r.todo = {}
    /\ r.step = "mark" => \E s \in Shares :
           /\ r.todo = {s}
           /\ r.arg = "new" => /\ table[s].review # "rejected"
                               /\ Fit(table[s]) => table[s].live
    /\ r.step = "release" => r.on \in Shares /\ ~Fit(table[r.on])
    /\ r.step \in {"occupy", "rotate"} => r.on \in Shares /\ ~table[r.on].live
    /\ r.step = "decide" /\ r.arg = "dropped" => \A s \in r.todo : table[s].row => table[s].deleted

\* A share that a review drops is deleted before the verdict is written.
DroppedGone(table) ==
    \A s \in Shares :
        table[s].row /\ table[s].review = "rejected" /\ table[s].drop => table[s].deleted

Owes(r, s) == s \in r.todo /\ r.step \notin {"count", "decide"}

LoneInv ==
    alone =>
        /\ \A p, q \in Requests : Free(p) \/ Free(q) \/ p = q
        /\ \A p \in Requests : Ready(req[p], share)
        /\ DroppedGone(share)
        /\ UsableIsLive

\* A step that runs alone takes no code from a share that stays open.
KeepsCodes ==
    alone' => \A s \in Shares :
        Usable(s) /\ share[s].live /\ Usable(s)' =>
            share[s].live' /\ share'[s].code = share[s].code

-----------------------------------------------------------------------------
(* The quota: what was counted, and what requests that counted may add.     *)

Counted == Active \ unchecked

Enabling(r) == r.step \in {"count", "write"} /\ r.arg = "enable"

\* It could be enabled.
Off(x) == x.row /\ ~x.blocked /\ ~x.deleted /\ ~x.active /\ ~x.expired

\* A new share has no identifier yet.
Bringing(r) == IF r.step = "insert" THEN {NoOne} ELSE IF Enabling(r) THEN r.todo ELSE {}

Room == {x \in Requests \X (Shares \cup {NoOne}) : x[2] \in Bringing(req[x[1]])}

QuotaInv ==
    /\ \A p \in Requests : Cardinality(Bringing(req[p])) <= MaxBatch
    /\ Cardinality(Counted) + Cardinality(Room) <= ShareLimit + Cardinality(Requests) * MaxBatch
    /\ alone =>
        /\ Cardinality(Counted) <= ShareLimit
        /\ \A p \in Requests :
              /\ req[p].step = "insert" => Cardinality(Counted) < ShareLimit
              /\ Enabling(req[p]) => Cardinality(Counted \cup ToEnable(req[p].todo)) <= ShareLimit

-----------------------------------------------------------------------------
(* Steps of requests that run alone.                                        *)

LEMMA SlotFields ==
    \A step, arg, ss : LET r == Slot(step, arg, ss)
                       IN  r.step = step /\ r.arg = arg /\ r.todo = ss /\ r.on = NoOne
  BY DEF Slot

LEMMA IdleFields == Idle.step = "idle" /\ Idle.todo = {}
  BY SlotFields DEF Idle

LEMMA IdleReady == \A table : Ready(Idle, table)
  BY IdleFields DEF Ready

LEMMA UsableFits == \A s \in Shares : Usable(s) <=> Fit(share[s])
  BY DEF Usable, Fit

LEMMA UsableFitsNext == ASSUME NEW s \in Shares PROVE Usable(s)' <=> Fit(share'[s])
  BY DEF Usable, Fit

LEMMA RequestMoves ==
    ASSUME TypeOK, NEW p \in Requests, NEW r, req' = [req EXCEPT ![p] = r]
    PROVE  \A q \in Requests : req'[q] = IF q = p THEN r ELSE req[q]
  BY DEF TypeOK

LEMMA RowMoves ==
    ASSUME TypeOK, NEW s \in Shares, NEW x, share' = [share EXCEPT ![s] = x]
    PROVE  \A t \in Shares : share'[t] = IF t = s THEN x ELSE share[t]
  BY DEF TypeOK

\* What holds of every table follows when the step is not alone.
LEMMA NotAlone == ASSUME ~alone' PROVE LoneInv' /\ KeepsCodes
  BY DEF LoneInv, KeepsCodes

\* The one request there is, or nobody, owes the code of an open share.
LEMMA OwedByOne ==
    ASSUME TypeOK, LoneInv, alone, NEW p \in Requests, ~Free(p),
           NEW s \in Shares, Fit(share[s]), ~share[s].live
    PROVE  s \in lost \/ Owes(req[p], s)
<1>1. CodeOwed(s)
  BY UsableFits DEF LoneInv, UsableIsLive
<1>2. ASSUME NEW q \in Requests, s \in req[q].todo, req[q].step \notin {"count", "decide"}
      PROVE  Owes(req[p], s)
  <2>1. CASE q = p
    BY <1>2, <2>1 DEF Owes
  <2>2. CASE q # p
    <3>1. req[q].step = "idle"
      BY <2>2 DEF LoneInv, Free
    <3>2. req[q].todo = {}
      BY <3>1 DEF LoneInv, Ready
    <3>3. QED
      BY <1>2, <3>2
  <2>3. QED
    BY <2>1, <2>2
<1>3. QED
  BY <1>1, <1>2 DEF CodeOwed

LEMMA OwedByNone ==
    ASSUME TypeOK, LoneInv, alone, \A q \in Requests : Free(q),
           NEW s \in Shares, Fit(share[s]), ~share[s].live
    PROVE  s \in lost
<1>1. CodeOwed(s)
  BY UsableFits DEF LoneInv, UsableIsLive
<1>2. \A q \in Requests : req[q].todo = {}
  BY DEF LoneInv, Ready, Free
<1>3. QED
  BY <1>1, <1>2 DEF CodeOwed

\* What LoneInv asks after a step, with the table in one place.
LEMMA LoneAfter ==
    ASSUME \A p, q \in Requests : Free(p)' \/ Free(q)' \/ p = q,
           \A p \in Requests : Ready(req'[p], share'),
           DroppedGone(share'),
           \A s \in Shares : Fit(share'[s]) /\ ~share'[s].live =>
               s \in lost' \/ \E p \in Requests : Owes(req'[p], s)
    PROVE  LoneInv'
<1>1. UsableIsLive'
  <2>1. \A s \in Shares : Usable(s)' <=> Fit(share'[s])
    BY UsableFitsNext
  <2>2. QED
    BY <2>1 DEF UsableIsLive, CodeOwed, Owes
<1>2. QED
  BY <1>1 DEF LoneInv

LEMMA CodesAfter ==
    ASSUME \A s \in Shares : Fit(share[s]) /\ share[s].live /\ Fit(share'[s]) =>
               share'[s].live /\ share'[s].code = share[s].code
    PROVE  KeepsCodes
  BY UsableFits, UsableFitsNext DEF KeepsCodes

\* A request starts while no other is in progress.
LEMMA LoneStart ==
    ASSUME TypeOK, LoneInv, NEW p \in Requests, NEW r, Start(p, r), lost' = lost,
           alone => Ready(r, share') /\ DroppedGone(share'),
           \A s \in Shares :
               /\ share'[s].live = share[s].live /\ share'[s].code = share[s].code
               /\ Owes(r, s) \/ (Fit(share'[s]) => Fit(share[s]))
    PROVE  LoneInv' /\ KeepsCodes
<1> SUFFICES ASSUME alone'
             PROVE  LoneInv' /\ KeepsCodes
  BY NotAlone
<1>1. alone /\ \A q \in Requests : Free(q)
  BY DEF Start
<1>2. \A q \in Requests : req'[q] = IF q = p THEN r ELSE req[q]
  <2>1. req' = [req EXCEPT ![p] = r]
    BY DEF Start
  <2>2. QED
    BY <2>1, RequestMoves
<1>3. \A q \in Requests \ {p} : req'[q].step = "idle" /\ req'[q].todo = {}
  BY <1>1, <1>2 DEF LoneInv, Ready, Free
<1>4. \A q \in Requests : Ready(req'[q], share')
  BY <1>1, <1>2, <1>3 DEF Ready
<1>5. ASSUME NEW s \in Shares, Fit(share'[s]), ~share'[s].live
      PROVE  s \in lost' \/ \E q \in Requests : Owes(req'[q], s)
  <2>1. CASE Owes(r, s)
    BY <1>2, <2>1
  <2>2. CASE Fit(share[s])
    BY <1>1, <1>5, <2>2, OwedByNone
  <2>3. QED
    BY <1>5, <2>1, <2>2
<1>6. LoneInv'
  BY <1>1, <1>3, <1>4, <1>5, LoneAfter DEF Free
<1>7. QED
  BY <1>6, CodesAfter

\* The one request in progress goes on.
LEMMA LoneMove ==
    ASSUME TypeOK, LoneInv, alone, NEW p \in Requests, NEW r, ~Free(p), Become(p, r),
           Ready(r, share'), DroppedGone(share'),
           \A s \in Shares : Fit(share'[s]) /\ ~share'[s].live => s \in lost' \/ Owes(r, s),
           \A s \in Shares : Fit(share[s]) /\ share[s].live /\ Fit(share'[s]) =>
               share'[s].live /\ share'[s].code = share[s].code
    PROVE  LoneInv' /\ KeepsCodes
<1>1. \A q \in Requests : req'[q] = IF q = p THEN r ELSE req[q]
  BY RequestMoves DEF Become
<1>2. \A q \in Requests \ {p} : req'[q].step = "idle" /\ req'[q].todo = {}
  BY <1>1 DEF LoneInv, Ready, Free
<1>3. \A q \in Requests : Ready(req'[q], share')
  BY <1>1, <1>2 DEF Ready
<1>4. \A s \in Shares : Fit(share'[s]) /\ ~share'[s].live =>
          s \in lost' \/ \E q \in Requests : Owes(req'[q], s)
  BY <1>1
<1>5. LoneInv'
  BY <1>2, <1>3, <1>4, LoneAfter DEF Free
<1>6. QED
  BY <1>5, CodesAfter

\* No request moves, and no share is opened.
LEMMA LoneQuiet ==
    ASSUME TypeOK, LoneInv, req' = req, alone' = alone, lost' = lost,
           \A s \in Shares :
               /\ share'[s].row = share[s].row /\ share'[s].active = share[s].active
               /\ share'[s].review = share[s].review /\ share'[s].drop = share[s].drop
               /\ share[s].deleted => share'[s].deleted
               /\ share[s].expired => share'[s].expired
               /\ share'[s].live => share[s].live
               /\ share'[s].code = share[s].code
               /\ share[s].live /\ Fit(share'[s]) => share'[s].live
    PROVE  LoneInv' /\ KeepsCodes
<1> SUFFICES ASSUME alone'
             PROVE  LoneInv' /\ KeepsCodes
  BY NotAlone
<1>1. \A s \in Shares : Fit(share'[s]) => Fit(share[s])
  BY DEF Fit
<1>2. \A p \in Requests : Ready(req'[p], share')
  <2> SUFFICES ASSUME NEW p \in Requests
               PROVE  Ready(req[p], share')
    OBVIOUS
  <2>1. Ready(req[p], share)
    BY DEF LoneInv
  <2>2. req[p].todo \subseteq Shares
    BY DEF TypeOK, Request
  <2>3. req[p].step = "mark" => \E s \in Shares :
            /\ req[p].todo = {s}
            /\ req[p].arg = "new" => /\ share'[s].review # "rejected"
                                     /\ Fit(share'[s]) => share'[s].live
    BY <1>1, <2>1 DEF Ready
  <2>4. QED
    BY <1>1, <2>1, <2>2, <2>3 DEF Ready
<1>3. DroppedGone(share')
  BY DEF LoneInv, DroppedGone
<1>4. ASSUME NEW s \in Shares, Fit(share'[s]), ~share'[s].live
      PROVE  s \in lost' \/ \E p \in Requests : Owes(req'[p], s)
  <2>1. Usable(s) /\ ~share[s].live
    BY <1>1, <1>4, UsableFits
  <2>2. QED
    BY <2>1 DEF LoneInv, UsableIsLive, CodeOwed, Owes
<1>5. LoneInv'
  BY <1>2, <1>3, <1>4, LoneAfter DEF LoneInv, Free
<1>6. QED
  BY <1>5, CodesAfter

LEMMA LoneOwner ==
    ASSUME TypeOK, LoneInv, NEW p \in Requests, OwnerRequest(p) \/ AdminRequest(p)
    PROVE  LoneInv' /\ KeepsCodes
<1>1. ASSUME NEW r, Start(p, r), lost' = lost, share' = share,
             r.step \in {"insert", "count"}, r.step = "insert" => r.todo = {}
      PROVE  LoneInv' /\ KeepsCodes
  <2>1. Ready(r, share')
    BY <1>1 DEF Ready
  <2>2. alone => DroppedGone(share')
    BY <1>1 DEF LoneInv
  <2>3. QED
    BY <1>1, <2>1, <2>2, LoneStart
<1>2. CASE CheckCreate(p)
  <2>1. PICK r : r = Slot("insert", "", {})
    OBVIOUS
  <2>2. QED
    BY <1>1, <1>2, <2>1 DEF CheckCreate, Slot
<1>3. ASSUME NEW ss \in SUBSET Shares, NEW action, StartBatch(p, ss, action)
      PROVE  LoneInv' /\ KeepsCodes
  <2>1. PICK r : r = Slot("count", action, ss)
    OBVIOUS
  <2>2. QED
    BY <1>1, <1>3, <2>1, SlotFields DEF StartBatch
\* One row changes, and its codes are seen to, or it is not opened.
<1>4. ASSUME NEW r, NEW s \in Shares, NEW x, Start(p, r), lost' = lost,
             share' = [share EXCEPT ![s] = x],
             x.live = share[s].live, x.code = share[s].code, x.row = share[s].row,
             x.review = share[s].review, x.drop = share[s].drop,
             share[s].deleted => x.deleted,
             Owes(r, s) \/ (Fit(x) => Fit(share[s])),
             Ready(r, share')
      PROVE  LoneInv' /\ KeepsCodes
  <2>1. \A t \in Shares : share'[t] = IF t = s THEN x ELSE share[t]
    BY <1>4, RowMoves
  <2>2. alone => DroppedGone(share')
    BY <1>4, <2>1 DEF LoneInv, DroppedGone
  <2>3. \A t \in Shares :
          /\ share'[t].live = share[t].live /\ share'[t].code = share[t].code
          /\ Owes(r, t) \/ (Fit(share'[t]) => Fit(share[t]))
    BY <1>4, <2>1
  <2>4. QED
    BY <1>4, <2>2, <2>3, LoneStart
<1>5. ASSUME NEW s \in Shares, NEW review \in BOOLEAN, NEW extend \in BOOLEAN,
             EditShare(p, s, review, extend)
      PROVE  LoneInv' /\ KeepsCodes
  <2>1. PICK r : r = Slot("mark", IF review THEN "review" ELSE "plain", {s})
    OBVIOUS
  <2>2. /\ r.step = "mark" /\ r.todo = {s} /\ r.arg # "new"
        /\ Start(p, r) /\ lost' = lost
    BY <1>5, <2>1, SlotFields DEF EditShare
  <2> DEFINE e == share[s].expired /\ ~extend
  <2> DEFINE x == [share[s] EXCEPT !.expired = e]
  <2>3. share' = [share EXCEPT ![s] = x]
    BY <1>5 DEF EditShare
  <2> HIDE DEF e
  <2>4. /\ x.live = share[s].live /\ x.code = share[s].code /\ x.row = share[s].row
        /\ x.review = share[s].review /\ x.drop = share[s].drop /\ x.deleted = share[s].deleted
    <3>1. share[s] \in Share
      BY DEF TypeOK
    <3>2. QED
      BY <3>1 DEF Share
  <2> HIDE DEF x
  <2>5. Owes(r, s) /\ Ready(r, share')
    BY <2>2 DEF Owes, Ready
  <2>6. QED
    BY <1>4, <2>2, <2>3, <2>4, <2>5
<1>6. ASSUME NEW s \in Shares, NEW change \in {"extend", "enable", "disable", "unblock"},
             AdminUpdateShare(p, s, change)
      PROVE  LoneInv' /\ KeepsCodes
  <2>1. PICK r : r = Slot("sync", "", {s})
    OBVIOUS
  <2>2. r.step = "sync" /\ r.todo = {s} /\ Start(p, r) /\ lost' = lost
    BY <1>6, <2>1 DEF AdminUpdateShare, Slot
  <2> DEFINE x == CASE change = "extend"  -> [share[s] EXCEPT !.expired = FALSE]
                    [] change = "enable"  -> [share[s] EXCEPT !.active = TRUE]
                    [] change = "disable" -> [share[s] EXCEPT !.active = FALSE]
                    [] change = "unblock" -> [share[s] EXCEPT !.blocked = FALSE, !.deleted = FALSE]
  <2>3. share' = [share EXCEPT ![s] = x] /\ ~share[s].deleted
    BY <1>6 DEF AdminUpdateShare, Deletable
  <2>4. /\ x.live = share[s].live /\ x.code = share[s].code /\ x.row = share[s].row
        /\ x.review = share[s].review /\ x.drop = share[s].drop
    <3>1. share[s] \in Share
      BY DEF TypeOK
    <3>2. CASE change = "extend"
      BY <3>1, <3>2 DEF Share
    <3>3. CASE change = "enable"
      BY <3>1, <3>3 DEF Share
    <3>4. CASE change = "disable"
      BY <3>1, <3>4 DEF Share
    <3>5. CASE change = "unblock"
      BY <3>1, <3>5 DEF Share
    <3>6. QED
      BY <3>2, <3>3, <3>4, <3>5
  <2> HIDE DEF x
  <2>5. Owes(r, s) /\ Ready(r, share')
    BY <2>2 DEF Owes, Ready
  <2>6. QED
    BY <1>4, <2>2, <2>3, <2>4, <2>5
<1>7. ASSUME NEW s \in Shares, NEW verdict \in {"approved", "rejected", "dropped"},
             NEW blocked \in BOOLEAN, SetShareDisposition(p, s, verdict, blocked)
      PROVE  LoneInv' /\ KeepsCodes
  <2>1. PICK r : r = Slot("decide", verdict, {s})
    OBVIOUS
  <2>2. /\ r.step = "decide" /\ r.todo = {s} /\ r.arg = verdict
        /\ Start(p, r) /\ lost' = lost
    BY <1>7, <2>1, SlotFields DEF SetShareDisposition
  <2> DEFINE d == share[s].deleted \/ verdict = "dropped"
  <2> DEFINE x == [share[s] EXCEPT !.deleted = d, !.blocked = blocked]
  <2>3. share' = [share EXCEPT ![s] = x]
    BY <1>7 DEF SetShareDisposition
  <2>4. (share[s].deleted => d) /\ (verdict = "dropped" => d)
    OBVIOUS
  <2> HIDE DEF d
  <2>5. /\ x.live = share[s].live /\ x.code = share[s].code /\ x.row = share[s].row
        /\ x.review = share[s].review /\ x.drop = share[s].drop /\ x.deleted = d
        /\ x.active = share[s].active /\ x.expired = share[s].expired
    <3>1. share[s] \in Share
      BY DEF TypeOK
    <3>2. QED
      BY <3>1 DEF Share
  <2> HIDE DEF x
  <2>6. Fit(x) => Fit(share[s])
    BY <2>4, <2>5 DEF Fit
  <2>7. share'[s] = x
    BY <2>3 DEF TypeOK
  <2>8. Ready(r, share')
    BY <2>2, <2>4, <2>5, <2>7 DEF Ready
  <2>9. QED
    BY <1>4, <2>2, <2>3, <2>4, <2>5, <2>6, <2>8
<1>8. QED
  BY <1>2, <1>3, <1>5, <1>6, <1>7 DEF OwnerRequest, AdminRequest, Changes

LEMMA LoneCreate ==
    ASSUME TypeOK, LoneInv, NEW p \in Requests, NEW s \in Shares, NEW c \in Codes,
           NEW review \in BOOLEAN, CreateShare(p, s, c, review)
    PROVE  LoneInv' /\ KeepsCodes
<1> SUFFICES ASSUME alone'
             PROVE  LoneInv' /\ KeepsCodes
  BY NotAlone
<1>1. PICK r : r = IF review THEN Slot("mark", "new", {s}) ELSE Idle
  OBVIOUS
<1>2. alone /\ ~Free(p) /\ Become(p, r) /\ lost' = lost /\ req[p].todo = {}
  BY <1>1 DEF CreateShare, Become, At, Free, LoneInv, Ready
<1>3. \A t \in Shares : share'[t] = IF t = s THEN NewShare(c) ELSE share[t]
  BY RowMoves DEF CreateShare
<1>4. NewShare(c).live /\ NewShare(c).review = "none" /\ ~Fit(share[s])
  BY DEF CreateShare, NewShare, NoShare, Fit
<1>5. Ready(r, share')
  <2>1. CASE review
    BY <1>1, <1>3, <1>4, <2>1, SlotFields DEF Ready
  <2>2. CASE ~review
    BY <1>1, <2>2, IdleReady
  <2>3. QED
    BY <2>1, <2>2
<1>6. DroppedGone(share')
  BY <1>2, <1>3, <1>4 DEF LoneInv, DroppedGone
<1>7. \A t \in Shares : Fit(share'[t]) /\ ~share'[t].live => t \in lost'
  BY <1>2, <1>3, <1>4, OwedByOne DEF Owes
<1>8. \A t \in Shares : Fit(share[t]) => share'[t] = share[t]
  BY <1>3, <1>4
<1>9. QED
  BY <1>2, <1>5, <1>6, <1>7, <1>8, LoneMove

LEMMA LoneMark ==
    ASSUME TypeOK, LoneInv, NEW p \in Requests, MarkShare(p) \/ MarkFails(p)
    PROVE  LoneInv' /\ KeepsCodes
<1> SUFFICES ASSUME alone'
             PROVE  LoneInv' /\ KeepsCodes
  BY NotAlone
<1>1. alone /\ ~Free(p) /\ req[p].step = "mark"
  BY DEF MarkShare, MarkFails, AfterMark, Become, At, Free
<1>2. PICK s \in Shares :
        /\ req[p].todo = {s}
        /\ req[p].arg = "new" => share[s].review # "rejected" /\ (Fit(share[s]) => share[s].live)
  BY <1>1 DEF LoneInv, Ready
<1>3. share[s] \in Share
  BY DEF TypeOK
\* A row that changes in these ways keeps its code.
<1>4. ASSUME NEW r, NEW x, Become(p, r), Ready(r, share'),
             share' = [share EXCEPT ![s] = x],
             x.live = share[s].live, x.code = share[s].code, x.row = share[s].row,
             x.deleted = share[s].deleted,
             x.review = "rejected" => share[s].review = "rejected" /\ x.drop = share[s].drop,
             \/ Owes(r, s) /\ lost' = lost
             \/ s \in lost' /\ lost \subseteq lost'
             \/ (Fit(x) => x.live) /\ lost' = lost
      PROVE  LoneInv' /\ KeepsCodes
  <2>1. \A t \in Shares : share'[t] = IF t = s THEN x ELSE share[t]
    BY <1>4, RowMoves
  <2>2. DroppedGone(share')
    BY <1>1, <1>4, <2>1 DEF LoneInv, DroppedGone
  <2>3. \A t \in Shares \ {s} : ~Owes(req[p], t)
    BY <1>2 DEF Owes
  <2>4. \A t \in Shares : Fit(share'[t]) /\ ~share'[t].live => t \in lost' \/ Owes(r, t)
    BY <1>1, <1>4, <2>1, <2>3, OwedByOne
  <2>5. QED
    BY <1>1, <1>4, <2>1, <2>2, <2>4, LoneMove
<1>5. CASE MarkShare(p)
  <2>1. PICK r : r = IF req[p].arg = "new" THEN Idle ELSE Slot("sync", "", req[p].todo)
    OBVIOUS
  <2>2. /\ Become(p, r) /\ lost' = lost
        /\ share' = IF req[p].arg = "plain" THEN Cleared(s)
                    ELSE IF share[s].row THEN Pending(s) ELSE share
    BY <1>2, <1>5, <2>1 DEF MarkShare, AfterMark
  <2>3. Ready(r, share') /\ (req[p].arg = "new" \/ Owes(r, s))
    <3>1. CASE req[p].arg = "new"
      BY <2>1, <3>1, IdleReady
    <3>2. CASE req[p].arg # "new"
      BY <1>2, <2>1, <3>2 DEF Ready, Owes, Slot
    <3>3. QED
      BY <3>1, <3>2
  <2> DEFINE a == [share[s] EXCEPT !.review = "pending"]
  <2> DEFINE b == [share[s] EXCEPT !.review = "none", !.drop = FALSE]
  <2>4. \/ share' = [share EXCEPT ![s] = share[s]]
        \/ share' = [share EXCEPT ![s] = a]
        \/ share' = [share EXCEPT ![s] = b]
    BY <2>2 DEF Pending, Cleared, TypeOK
  <2>5. /\ a.live = share[s].live /\ a.code = share[s].code /\ a.row = share[s].row
        /\ a.deleted = share[s].deleted /\ a.review = "pending"
        /\ a.active = share[s].active /\ a.expired = share[s].expired
    BY <1>3 DEF Share
  <2>6. /\ b.live = share[s].live /\ b.code = share[s].code /\ b.row = share[s].row
        /\ b.deleted = share[s].deleted /\ b.review = "none"
        /\ b.active = share[s].active /\ b.expired = share[s].expired
    BY <1>3 DEF Share
  <2> HIDE DEF a, b
  <2>7. req[p].arg = "new" => (Fit(a) => a.live) /\ (Fit(b) => b.live)
    BY <1>2, <2>5, <2>6 DEF Fit
  <2>8. CASE share' = [share EXCEPT ![s] = share[s]]
    <3>1. PICK x : x = share[s]
      OBVIOUS
    <3>2. QED
      BY <1>2, <1>4, <2>2, <2>3, <2>8, <3>1
  <2>9. CASE share' = [share EXCEPT ![s] = a]
    BY <1>4, <2>2, <2>3, <2>5, <2>7, <2>9
  <2>10. CASE share' = [share EXCEPT ![s] = b]
    BY <1>4, <2>2, <2>3, <2>6, <2>7, <2>10
  <2>11. QED
    BY <2>4, <2>8, <2>9, <2>10
<1>6. CASE MarkFails(p)
  <2>1. /\ Become(p, Idle) /\ lost' = lost \cup {s}
        /\ share' = IF Own(s) THEN [share EXCEPT ![s].active = FALSE] ELSE share
    BY <1>2, <1>6 DEF MarkFails
  <2>2. Ready(Idle, share')
    BY IdleReady
  <2> DEFINE c == [share[s] EXCEPT !.active = FALSE]
  <2>3. share' = [share EXCEPT ![s] = share[s]] \/ share' = [share EXCEPT ![s] = c]
    BY <2>1 DEF TypeOK
  <2>4. /\ c.live = share[s].live /\ c.code = share[s].code /\ c.row = share[s].row
        /\ c.deleted = share[s].deleted /\ c.review = share[s].review
        /\ c.drop = share[s].drop
    BY <1>3 DEF Share
  <2> HIDE DEF c
  <2>5. CASE share' = [share EXCEPT ![s] = share[s]]
    <3>1. PICK x : x = share[s]
      OBVIOUS
    <3>2. QED
      BY <1>4, <2>1, <2>2, <2>5, <3>1
  <2>6. CASE share' = [share EXCEPT ![s] = c]
    BY <1>4, <2>1, <2>2, <2>4, <2>6
  <2>7. QED
    BY <2>3, <2>5, <2>6
<1>7. QED
  BY <1>5, <1>6

LEMMA LoneBatch ==
    ASSUME TypeOK, LoneInv, NEW p \in Requests, CountBatch(p) \/ WriteBatch(p)
    PROVE  LoneInv' /\ KeepsCodes
<1> SUFFICES ASSUME alone'
             PROVE  LoneInv' /\ KeepsCodes
  BY NotAlone
<1>1. alone /\ ~Free(p)
  BY DEF CountBatch, WriteBatch, Become, At, Free
<1>2. CASE CountBatch(p)
  <2> DEFINE w == [req[p] EXCEPT !.step = "write"]
  <2>1. w.step = "write" /\ w.todo = req[p].todo
    BY DEF TypeOK, Request
  <2>2. PICK r : r = IF \A s \in req[p].todo : Own(s) THEN w ELSE Idle
    OBVIOUS
  <2>3. /\ req[p].step = "count" /\ Become(p, r) /\ lost' = lost /\ share' = share
    BY <1>2, <2>2 DEF CountBatch, At
  <2> HIDE DEF w
  <2>4. Ready(r, share')
    BY <2>1, <2>2, IdleReady DEF Ready
  <2>5. DroppedGone(share')
    BY <1>1, <2>3 DEF LoneInv
  <2>6. \A t \in Shares : Fit(share'[t]) /\ ~share'[t].live => t \in lost'
    BY <1>1, <2>3, OwedByOne DEF Owes
  <2>7. QED
    BY <1>1, <2>3, <2>4, <2>5, <2>6, LoneMove
<1>3. CASE WriteBatch(p)
  <2> DEFINE on == req[p].arg = "enable"
  <2> DEFINE after(s) == IF req[p].arg = "delete" THEN NoShare ELSE [share[s] EXCEPT !.active = on]
  <2> DEFINE ss == {s \in req[p].todo : share[s].row}
  <2>1. PICK r : r = IF req[p].arg = "delete" THEN Idle ELSE Slot("sync", "", req[p].todo)
    OBVIOUS
  <2>2. req[p].step = "write" /\ Become(p, r) /\ lost' = lost
    BY <1>3, <2>1 DEF WriteBatch, At
  <2>3. \A s \in Shares : share'[s] = IF s \in ss THEN after(s) ELSE share[s]
    BY <1>3 DEF WriteBatch
  <2>4. ASSUME NEW s \in Shares
        PROVE  /\ req[p].arg = "delete" => ~after(s).row
               /\ req[p].arg # "delete" =>
                     /\ after(s).live = share[s].live /\ after(s).code = share[s].code
                     /\ after(s).row = share[s].row /\ after(s).deleted = share[s].deleted
                     /\ after(s).review = share[s].review /\ after(s).drop = share[s].drop
    <3> HIDE DEF on
    <3>1. share[s] \in Share
      BY DEF TypeOK
    <3>2. QED
      BY <3>1 DEF NoShare, Share
  <2> HIDE DEF on, after
  <2>5. Ready(r, share')
    BY <2>1, IdleReady DEF Ready, Slot
  <2>6. DroppedGone(share')
    BY <1>1, <2>3, <2>4 DEF LoneInv, DroppedGone
  <2>7. ASSUME NEW t \in Shares, Fit(share'[t]), ~share'[t].live
        PROVE  t \in lost' \/ Owes(r, t)
    <3>1. CASE t \notin req[p].todo
      <4>1. share'[t] = share[t] /\ ~Owes(req[p], t)
        BY <2>3, <3>1 DEF Owes
      <4>2. QED
        BY <1>1, <2>2, <2>7, <4>1, OwedByOne
    <3>2. CASE t \in req[p].todo
      <4>1. CASE req[p].arg = "delete"
        <5>1. ~share'[t].row
          BY <2>3, <2>4, <3>2, <4>1
        <5>2. QED
          BY <2>7, <5>1 DEF Fit
      <4>2. CASE req[p].arg # "delete"
        BY <2>1, <3>2, <4>2 DEF Owes, Slot
      <4>3. QED
        BY <4>1, <4>2
    <3>3. QED
      BY <3>1, <3>2
  <2>8. \A t \in Shares : Fit(share[t]) /\ share[t].live /\ Fit(share'[t]) =>
            share'[t].live /\ share'[t].code = share[t].code
    BY <2>3, <2>4 DEF Fit
  <2>9. QED
    BY <1>1, <2>2, <2>5, <2>6, <2>7, <2>8, LoneMove
<1>4. QED
  BY <1>2, <1>3

\* The code of s is as it should be, and the rest is still to do.
LEMMA LoneSynced ==
    ASSUME TypeOK, LoneInv, alone, NEW p \in Requests, ~Free(p), NEW s \in Shares,
           Become(p, Sync(req[p].todo \ {s})), lost \ {s} \subseteq lost',
           NEW x, share' = [share EXCEPT ![s] = x],
           x.row = share[s].row, x.deleted = share[s].deleted,
           x.review = share[s].review, x.drop = share[s].drop,
           (Fit(x) => x.live) \/ s \in lost',
           Fit(share[s]) /\ share[s].live => x.live /\ x.code = share[s].code
    PROVE  LoneInv' /\ KeepsCodes
<1>1. PICK r : r = Sync(req[p].todo \ {s})
  OBVIOUS
<1>2. /\ Ready(r, share')
      /\ \A t \in Shares \ {s} : Owes(req[p], t) => Owes(r, t)
  <2>1. CASE req[p].todo \ {s} = {}
    BY <1>1, <2>1, IdleReady DEF Sync, Owes
  <2>2. CASE req[p].todo \ {s} # {}
    <3>1. r = Slot("sync", "", req[p].todo \ {s})
      BY <1>1, <2>2 DEF Sync
    <3>2. r.step = "sync" /\ r.todo = req[p].todo \ {s}
      BY <3>1 DEF Slot
    <3>3. QED
      BY <3>2 DEF Ready, Owes
  <2>3. QED
    BY <2>1, <2>2
<1>3. \A t \in Shares : share'[t] = IF t = s THEN x ELSE share[t]
  BY RowMoves
<1>4. DroppedGone(share')
  BY <1>3 DEF LoneInv, DroppedGone
<1>5. \A t \in Shares : Fit(share'[t]) /\ ~share'[t].live => t \in lost' \/ Owes(r, t)
  BY <1>2, <1>3, OwedByOne
<1>6. Become(p, r)
  BY <1>1
<1>7. \A t \in Shares : Fit(share[t]) /\ share[t].live /\ Fit(share'[t]) =>
          share'[t].live /\ share'[t].code = share[t].code
  BY <1>3
<1>8. QED
  BY <1>2, <1>4, <1>5, <1>6, <1>7, LoneMove

LEMMA LoneSync ==
    ASSUME TypeOK, LoneInv, NEW p \in Requests,
           \/ \E s \in Shares : ReadState(p, s)
           \/ ReleaseCode(p) \/ OccupyCode(p) \/ CodesExhausted(p)
           \/ \E c \in Codes : RotateCode(p, c)
    PROVE  LoneInv' /\ KeepsCodes
<1> SUFFICES ASSUME alone'
             PROVE  LoneInv' /\ KeepsCodes
  BY NotAlone
<1>1. alone /\ ~Free(p) /\ Ready(req[p], share)
  BY DEF ReadState, ReleaseCode, OccupyCode, CodesExhausted, RotateCode, Synced, Become, At, Free,
         LoneInv
<1> DEFINE on == req[p].on
\* One more step of the same request for the same shares, of which one was read.
<1>2. ASSUME NEW r, Become(p, r), Ready(r, share), share' = share, lost' = lost,
             r.todo = req[p].todo, r.step \notin {"count", "decide"}
      PROVE  LoneInv' /\ KeepsCodes
  <2>1. Ready(r, share') /\ DroppedGone(share')
    BY <1>1, <1>2 DEF LoneInv
  <2>2. \A t \in Shares : Fit(share'[t]) /\ ~share'[t].live => t \in lost' \/ Owes(r, t)
    BY <1>1, <1>2, OwedByOne DEF Owes
  <2>3. QED
    BY <1>1, <1>2, <2>1, <2>2, LoneMove
<1>3. ASSUME NEW s \in Shares, ReadState(p, s)
      PROVE  LoneInv' /\ KeepsCodes
  <2>1. share' = share
    BY <1>3 DEF ReadState
  <2>2. CASE share[s].row /\ Usable(s) # share[s].live
    <3> DEFINE step == IF Usable(s) THEN "occupy" ELSE "release"
    <3>1. PICK r : r = [req[p] EXCEPT !.step = step, !.on = s, !.code = share[s].code]
      OBVIOUS
    <3>2. Become(p, r) /\ lost' = lost
      BY <1>3, <2>2, <3>1 DEF ReadState
    <3>3. step \in {"occupy", "release"}
      OBVIOUS
    <3>4. (step = "occupy" => ~share[s].live) /\ (step = "release" => ~Fit(share[s]))
      <4>1. Usable(s) \in BOOLEAN /\ share[s].live \in BOOLEAN
        BY DEF Usable, TypeOK, Share
      <4>2. QED
        BY <2>2, <4>1, UsableFits
    <3> HIDE DEF step
    <3>5. r.step = step /\ r.on = s /\ r.todo = req[p].todo
      BY <3>1 DEF TypeOK, Request
    <3>6. Ready(r, share)
      BY <3>3, <3>4, <3>5 DEF Ready
    <3>7. QED
      BY <1>2, <2>1, <3>2, <3>3, <3>5, <3>6
  <2>3. CASE ~(share[s].row /\ Usable(s) # share[s].live)
    <3>1. Synced(p, s)
      BY <1>3, <2>3 DEF ReadState
    <3>2. Fit(share[s]) => share[s].live
      <4>1. Usable(s) \in BOOLEAN /\ share[s].live \in BOOLEAN
        BY DEF Usable, TypeOK, Share
      <4>2. QED
        BY <2>3, <4>1, UsableFits DEF Fit
    <3>3. PICK x : x = share[s]
      OBVIOUS
    <3>4. share' = [share EXCEPT ![s] = x]
      BY <2>1, <3>3 DEF TypeOK
    <3>5. QED
      BY <1>1, <3>1, <3>2, <3>3, <3>4, LoneSynced DEF Synced
  <2>4. QED
    BY <2>2, <2>3
<1>4. CASE ReleaseCode(p)
  <2>1. /\ on \in Shares /\ ~Fit(share[on]) /\ Synced(p, on)
        /\ share' = [share EXCEPT ![on].live = FALSE]
    BY <1>1, <1>4 DEF ReleaseCode, At, Ready
  <2> HIDE DEF on
  <2> DEFINE x == [share[on] EXCEPT !.live = FALSE]
  <2>2. share' = [share EXCEPT ![on] = x]
    BY <2>1
  <2>3. /\ x.row = share[on].row /\ x.deleted = share[on].deleted /\ x.active = share[on].active
        /\ x.review = share[on].review /\ x.drop = share[on].drop
        /\ x.expired = share[on].expired
    BY <2>1 DEF TypeOK, Share
  <2> HIDE DEF x
  <2>4. ~Fit(x)
    BY <2>1, <2>3 DEF Fit
  <2>5. QED
    BY <1>1, <2>1, <2>2, <2>3, <2>4, LoneSynced DEF Synced
\* A code is taken.
<1>5. ASSUME on \in Shares, ~share[on].live, NEW c, Synced(p, on),
             share' = [share EXCEPT ![on].code = c, ![on].live = TRUE]
      PROVE  LoneInv' /\ KeepsCodes
  <2> HIDE DEF on
  <2> DEFINE x == [share[on] EXCEPT !.code = c, !.live = TRUE]
  <2>2. share' = [share EXCEPT ![on] = x]
    BY <1>5
  <2>3. /\ x.row = share[on].row /\ x.deleted = share[on].deleted /\ x.live
        /\ x.review = share[on].review /\ x.drop = share[on].drop
    BY <1>5 DEF TypeOK, Share
  <2> HIDE DEF x
  <2>4. QED
    BY <1>1, <1>5, <2>2, <2>3, LoneSynced DEF Synced
<1>6. CASE OccupyCode(p)
  <2>0. on \in Shares /\ ~share[on].live /\ req[p].step = "occupy"
    BY <1>1, <1>6 DEF OccupyCode, At, Ready
  <2>1. CASE Occupies(on, req[p].code)
    <3>1. PICK c : c = req[p].code
      OBVIOUS
    <3>2. share' = [share EXCEPT ![on].code = c, ![on].live = TRUE] /\ Synced(p, on)
      BY <1>6, <2>1, <3>1 DEF OccupyCode
    <3>3. QED
      BY <1>5, <2>0, <3>2
  <2>2. CASE ~Occupies(on, req[p].code)
    <3>1. PICK r : r = [req[p] EXCEPT !.step = "rotate"]
      OBVIOUS
    <3>2. Become(p, r) /\ share' = share /\ lost' = lost
      BY <1>6, <2>2, <3>1 DEF OccupyCode
    <3>3. r.step = "rotate" /\ r.todo = req[p].todo /\ r.on = on
      BY <3>1 DEF TypeOK, Request
    <3>4. Ready(r, share)
      BY <2>0, <3>3 DEF Ready
    <3>5. QED
      BY <1>2, <3>2, <3>3, <3>4
  <2>3. QED
    BY <2>1, <2>2
<1>7. ASSUME NEW c \in Codes, RotateCode(p, c)
      PROVE  LoneInv' /\ KeepsCodes
  <2>1. /\ on \in Shares /\ ~share[on].live /\ Synced(p, on)
        /\ share' = [share EXCEPT ![on].code = c, ![on].live = TRUE]
    BY <1>1, <1>7 DEF RotateCode, At, Ready
  <2>2. QED
    BY <1>5, <2>1
<1>8. CASE CodesExhausted(p)
  <2>1. share' = share /\ lost' = lost \cup ({on} \ {NoOne})
    BY <1>8 DEF CodesExhausted
  <2>2. CASE At(p, "rotate") /\ Become(p, Sync(req[p].todo \ {on}))
    <3>1. on \in Shares
      BY <1>1, <2>2 DEF At, Ready
    <3>2. on \in lost' /\ lost \subseteq lost'
      BY <2>1, <3>1, SharingAssumption
    <3>3. PICK x : x = share[on]
      OBVIOUS
    <3>4. share' = [share EXCEPT ![on] = x]
      BY <2>1, <3>1, <3>3 DEF TypeOK
    <3> HIDE DEF on
    <3>5. QED
      BY <1>1, <2>2, <3>1, <3>2, <3>3, <3>4, LoneSynced
  <2>3. CASE At(p, "insert") /\ Become(p, Idle)
    <3>1. req[p].todo = {}
      BY <1>1, <2>3 DEF At, Ready
    <3>2. Ready(Idle, share') /\ DroppedGone(share')
      BY <1>1, <2>1, IdleReady DEF LoneInv
    <3>3. \A t \in Shares : Fit(share'[t]) /\ ~share'[t].live => t \in lost'
      BY <1>1, <2>1, <3>1, OwedByOne DEF Owes
    <3>4. QED
      BY <1>1, <2>1, <2>3, <3>2, <3>3, LoneMove
  <2>4. QED
    BY <1>8, <2>2, <2>3 DEF CodesExhausted
<1>9. QED
  BY <1>3, <1>4, <1>6, <1>7, <1>8

LEMMA LoneReview ==
    ASSUME TypeOK, LoneInv, NEW p \in Requests, ReviewShare(p) \/ Abandon(p)
    PROVE  LoneInv' /\ KeepsCodes
<1> SUFFICES ASSUME alone'
             PROVE  LoneInv' /\ KeepsCodes
  BY NotAlone
<1>1. alone /\ ~Free(p) /\ Become(p, Idle) /\ Ready(Idle, share')
  BY IdleReady DEF ReviewShare, Abandon, Become, At, Free
<1>2. CASE ReviewShare(p)
  <2>1. PICK s \in req[p].todo :
          share' = IF ~share[s].row THEN share
                   ELSE [share EXCEPT
                           ![s].review = IF req[p].arg = "approved" THEN "approved"
                                         ELSE "rejected",
                           ![s].drop = req[p].arg = "dropped"]
    BY <1>2 DEF ReviewShare
  <2>2. s \in Shares /\ share[s] \in Share
    BY DEF TypeOK, Request
  <2>3. req[p].step = "decide" /\ lost' = lost
    BY <1>2 DEF ReviewShare, At
  <2>4. req[p].arg = "dropped" => (share[s].row => share[s].deleted)
    BY <1>1, <2>1, <2>3 DEF LoneInv, Ready
  <2> DEFINE v == IF req[p].arg = "approved" THEN "approved" ELSE "rejected"
  <2> DEFINE d == req[p].arg = "dropped"
  <2> DEFINE y == [share[s] EXCEPT !.review = v, !.drop = d]
  <2>5. PICK x : x = IF ~share[s].row THEN share[s] ELSE y
    OBVIOUS
  <2>6. share' = [share EXCEPT ![s] = x]
    <3>1. CASE ~share[s].row
      BY <2>1, <2>2, <2>5, <3>1 DEF TypeOK
    <3>2. CASE share[s].row
      BY <2>1, <2>5, <3>2
    <3>3. QED
      BY <3>1, <3>2
  <2>7. d => (share[s].row => share[s].deleted)
    BY <2>4
  <2> HIDE DEF v, d
  <2>8. /\ y.live = share[s].live /\ y.code = share[s].code /\ y.row = share[s].row
        /\ y.deleted = share[s].deleted /\ y.active = share[s].active
        /\ y.expired = share[s].expired /\ y.drop = d
    BY <2>2 DEF Share
  <2> HIDE DEF y
  <2>9. /\ x.live = share[s].live /\ x.code = share[s].code /\ x.row = share[s].row
        /\ x.deleted = share[s].deleted /\ (Fit(x) => Fit(share[s]))
        /\ x.row /\ x.drop /\ x.review = "rejected" => x.deleted
    <3>1. share[s].row /\ share[s].review = "rejected" /\ share[s].drop => share[s].deleted
      BY <1>1, <2>2 DEF LoneInv, DroppedGone
    <3>2. CASE ~share[s].row
      BY <2>5, <3>2
    <3>3. CASE share[s].row
      BY <2>5, <2>7, <2>8, <3>1, <3>3 DEF Fit
    <3>4. QED
      BY <3>2, <3>3
  <2>10. \A t \in Shares : share'[t] = IF t = s THEN x ELSE share[t]
    BY <2>2, <2>6, RowMoves
  <2>11. DroppedGone(share')
    BY <1>1, <2>9, <2>10 DEF LoneInv, DroppedGone
  <2>12. \A t \in Shares : Fit(share'[t]) /\ ~share'[t].live => t \in lost'
    BY <1>1, <2>3, <2>9, <2>10, OwedByOne DEF Owes
  <2>13. QED
    BY <1>1, <2>9, <2>10, <2>11, <2>12, LoneMove
<1>3. CASE Abandon(p)
  <2>1. share' = share /\ lost' = lost \cup req[p].todo
    BY <1>3 DEF Abandon
  <2>2. DroppedGone(share')
    BY <1>1, <2>1 DEF LoneInv
  <2>3. \A t \in Shares : Fit(share'[t]) /\ ~share'[t].live => t \in lost'
    BY <1>1, <2>1, OwedByOne DEF Owes
  <2>4. QED
    BY <1>1, <2>1, <2>2, <2>3, LoneMove
<1>4. QED
  BY <1>2, <1>3

LEMMA LoneOther ==
    ASSUME TypeOK, LoneInv,
           \/ \E s \in Shares : AdminDeleteShare(s) \/ Expire(s) \/ TrashRoot(s)
           \/ \E s \in Shares, change \in Changes : AdminUpdateRefused(s, change)
           \/ ReleaseDeadPickupCodes
           \/ UNCHANGED vars
    PROVE  LoneInv' /\ KeepsCodes
<1>1. ASSUME NEW s \in Shares, NEW x, share' = [share EXCEPT ![s] = x],
             req' = req, alone' = alone, lost' = lost,
             x.row = share[s].row, x.active = share[s].active, x.code = share[s].code,
             x.review = share[s].review, x.drop = share[s].drop,
             share[s].deleted => x.deleted, share[s].expired => x.expired,
             x.live => share[s].live, share[s].live /\ Fit(x) => x.live
      PROVE  LoneInv' /\ KeepsCodes
  <2>1. \A t \in Shares : share'[t] = IF t = s THEN x ELSE share[t]
    BY <1>1, RowMoves
  <2>2. QED
    BY <1>1, <2>1, LoneQuiet
<1>2. ASSUME NEW s \in Shares, AdminDeleteShare(s)
      PROVE  LoneInv' /\ KeepsCodes
  <2> DEFINE x == [share[s] EXCEPT !.deleted = TRUE, !.live = FALSE]
  <2>1. share' = [share EXCEPT ![s] = x] /\ req' = req /\ alone' = alone /\ lost' = lost
    BY <1>2 DEF AdminDeleteShare
  <2>2. /\ x.row = share[s].row /\ x.active = share[s].active /\ x.code = share[s].code
        /\ x.review = share[s].review /\ x.drop = share[s].drop /\ x.deleted /\ ~x.live
        /\ x.expired = share[s].expired
    BY DEF TypeOK, Share
  <2> HIDE DEF x
  <2>3. ~Fit(x)
    BY <2>2 DEF Fit
  <2>4. QED
    BY <1>1, <2>1, <2>2, <2>3
<1>3. ASSUME NEW s \in Shares, Expire(s)
      PROVE  LoneInv' /\ KeepsCodes
  <2> DEFINE x == [share[s] EXCEPT !.expired = TRUE]
  <2>1. share' = [share EXCEPT ![s] = x] /\ req' = req /\ alone' = alone /\ lost' = lost
    BY <1>3 DEF Expire
  <2>2. /\ x.row = share[s].row /\ x.active = share[s].active /\ x.code = share[s].code
        /\ x.review = share[s].review /\ x.drop = share[s].drop
        /\ x.deleted = share[s].deleted /\ x.live = share[s].live /\ x.expired
    BY DEF TypeOK, Share
  <2> HIDE DEF x
  <2>3. QED
    BY <1>1, <2>1, <2>2
<1>4. ASSUME UNCHANGED <<share, req, alone, lost>>
      PROVE  LoneInv' /\ KeepsCodes
  BY <1>4, LoneQuiet
<1>5. CASE ReleaseDeadPickupCodes
  <2> DEFINE x(s) == [share[s] EXCEPT !.live = share[s].live /\ s \notin Dead]
  <2>1. \A s \in Shares : share'[s] = x(s)
    BY <1>5 DEF ReleaseDeadPickupCodes
  <2>2. ASSUME NEW s \in Shares
        PROVE  /\ x(s).row = share[s].row /\ x(s).active = share[s].active
               /\ x(s).review = share[s].review /\ x(s).drop = share[s].drop
               /\ x(s).deleted = share[s].deleted /\ x(s).expired = share[s].expired
               /\ x(s).code = share[s].code
               /\ x(s).live => share[s].live
               /\ share[s].live /\ s \notin Dead => x(s).live
    <3>1. share[s] \in Share
      BY DEF TypeOK
    <3> DEFINE l == share[s].live /\ s \notin Dead
    <3>2. x(s) = [share[s] EXCEPT !.live = l] /\ (l <=> share[s].live /\ s \notin Dead)
      OBVIOUS
    <3> HIDE DEF l, x
    <3>3. QED
      BY <3>1, <3>2 DEF Share
  <2> HIDE DEF x
  <2>3. \A s \in Shares : Fit(x(s)) => s \notin Dead
    BY <2>2, UsableFits DEF Fit, Dead
  <2>4. req' = req /\ alone' = alone /\ lost' = lost
    BY <1>5 DEF ReleaseDeadPickupCodes
  <2>5. QED
    BY <2>1, <2>2, <2>3, <2>4, LoneQuiet
<1>6. QED
  BY <1>2, <1>3, <1>4, <1>5 DEF TrashRoot, AdminUpdateRefused, vars

LEMMA LoneStep == ASSUME TypeOK, LoneInv, [Next]_vars PROVE LoneInv' /\ KeepsCodes
<1>1. ASSUME NEW p \in Requests, RequestStep(p)
      PROVE  LoneInv' /\ KeepsCodes
  BY <1>1, LoneCreate, LoneMark, LoneBatch, LoneSync, LoneReview DEF RequestStep
<1>2. QED
  BY <1>1, LoneOwner, LoneOther DEF Next

-----------------------------------------------------------------------------
(* Counting.                                                                *)

LEMMA SharesFinite ==
    ASSUME NEW S \in SUBSET Shares
    PROVE  IsFiniteSet(S) /\ Cardinality(S) \in Nat
  BY SharingAssumption, FS_Subset, FS_CardinalityType

LEMMA CountedFinite ==
    Counted \in SUBSET Shares /\ IsFiniteSet(Counted) /\ Cardinality(Counted) \in Nat
<1>1. Counted \in SUBSET Shares
  BY DEF Counted, Active
<1>2. QED
  BY <1>1, SharesFinite

LEMMA CountedFiniteNext ==
    Counted' \in SUBSET Shares /\ IsFiniteSet(Counted') /\ Cardinality(Counted') \in Nat
<1>1. Counted' \in SUBSET Shares
  BY DEF Counted, Active
<1>2. QED
  BY <1>1, SharesFinite

LEMMA RoomFinite ==
    /\ IsFiniteSet(Requests \X (Shares \cup {NoOne}))
    /\ IsFiniteSet(Room) /\ Cardinality(Room) \in Nat
    /\ IsFiniteSet(Room') /\ Cardinality(Room') \in Nat
    /\ Cardinality(Requests) * MaxBatch \in Nat
<1>1. IsFiniteSet(Shares \cup {NoOne})
  BY SharingAssumption, FS_AddElement
<1>2. IsFiniteSet(Requests \X (Shares \cup {NoOne}))
  BY <1>1, SharingAssumption, FS_Product
<1>3. /\ Room \in SUBSET (Requests \X (Shares \cup {NoOne}))
      /\ Room' \in SUBSET (Requests \X (Shares \cup {NoOne}))
  BY DEF Room
<1>4. Cardinality(Requests) \in Nat /\ MaxBatch \in Nat
  BY SharingAssumption, FS_CardinalityType
<1>5. Cardinality(Requests) * MaxBatch \in Nat
  BY <1>4
<1>6. QED
  BY <1>2, <1>3, <1>5, FS_Subset, FS_CardinalityType

\* As many boxes as requests, none with more than n things in it.
LEMMA Boxes ==
    ASSUME NEW P, IsFiniteSet(P), NEW X, IsFiniteSet(X), NEW n \in Nat,
           NEW box, \A p \in P : box[p] \in SUBSET X /\ Cardinality(box[p]) <= n
    PROVE  Cardinality({z \in P \X X : z[2] \in box[z[1]]}) <= Cardinality(P) * n
<1> DEFINE Z == {z \in P \X X : z[2] \in box[z[1]]}
<1> DEFINE number == [p \in P |-> CHOOSE f : f \in Injection(box[p], 1..n)]
<1> DEFINE place == [z \in Z |-> <<z[1], number[z[1]][z[2]]>>]
<1>1. \A p \in P : number[p] \in Injection(box[p], 1..n)
  <2> SUFFICES ASSUME NEW p \in P
               PROVE  \E f : f \in Injection(box[p], 1..n)
    OBVIOUS
  <2> DEFINE k == Cardinality(box[p])
  <2>1. IsFiniteSet(box[p]) /\ k \in Nat /\ k <= n
    BY FS_Subset, FS_CardinalityType
  <2>2. ExistsBijection(1..k, box[p])
    BY <2>1, FS_CardinalityType
  <2>3. ExistsBijection(box[p], 1..k)
    BY <2>2, Fun_ExistsBijSymmetric
  <2>4. PICK f : f \in Bijection(box[p], 1..k)
    BY <2>3 DEF ExistsBijection
  <2>5. 1..k \subseteq 1..n
    BY <2>1
  <2>6. f \in Injection(box[p], 1..n)
    BY <2>4, <2>5 DEF Bijection, Injection, IsInjective
  <2>7. QED
    BY <2>6
<1>2. \A z \in Z : z[1] \in P /\ z[2] \in box[z[1]] /\ z = <<z[1], z[2]>>
  OBVIOUS
<1> HIDE DEF Z, number
<1>3. \A z \in Z : number[z[1]][z[2]] \in 1..n
  BY <1>1, <1>2 DEF Injection
<1>4. place \in [Z -> P \X (1..n)]
  BY <1>2, <1>3
<1>5. ASSUME NEW y \in Z, NEW z \in Z, place[y] = place[z]
      PROVE  y = z
  <2>1. y[1] = z[1] /\ number[y[1]][y[2]] = number[z[1]][z[2]]
    BY <1>5
  <2>2. number[y[1]] \in Injection(box[y[1]], 1..n) /\ y[2] \in box[y[1]] /\ z[2] \in box[y[1]]
    BY <1>1, <1>2, <2>1
  <2>3. y[2] = z[2]
    BY <2>1, <2>2 DEF Injection, IsInjective
  <2>4. QED
    BY <1>2, <2>1, <2>3
<1>6. place \in Injection(Z, P \X (1..n))
  BY <1>4, <1>5 DEF Injection, IsInjective
<1>7. IsFiniteSet(1..n) /\ Cardinality(1..n) = n
  BY FS_Interval
<1>8. IsFiniteSet(P \X (1..n)) /\ Cardinality(P \X (1..n)) = Cardinality(P) * n
  BY <1>7, FS_Product
<1> HIDE DEF place
<1>9. Cardinality(Z) <= Cardinality(P) * n
  BY <1>6, <1>8, FS_Injection
<1>10. QED
  BY <1>9 DEF Z

\* What is put aside for k things is enough for k.
LEMMA Swap ==
    ASSUME NEW C, NEW D, NEW E, NEW R, NEW Q, NEW K, NEW bound \in Nat,
           IsFiniteSet(C), IsFiniteSet(E), IsFiniteSet(R),
           Cardinality(C) + Cardinality(R) <= bound,
           D \subseteq C \cup E, Cardinality(E) <= Cardinality(K),
           K \subseteq R, Q \subseteq R \ K
    PROVE  Cardinality(D) + Cardinality(Q) <= bound
<1>1. IsFiniteSet(K)
  BY FS_Subset
<1>2. /\ Cardinality(C) \in Nat /\ Cardinality(R) \in Nat /\ Cardinality(K) \in Nat
      /\ Cardinality(E) \in Nat
  BY <1>1, FS_CardinalityType
<1>3. IsFiniteSet(C \cup E) /\ Cardinality(C \cup E) <= Cardinality(C) + Cardinality(E)
  <2>1. /\ IsFiniteSet(C \cup E)
        /\ Cardinality(C \cup E) = Cardinality(C) + Cardinality(E) - Cardinality(C \cap E)
    BY FS_Union
  <2>2. Cardinality(C \cap E) \in Nat
    BY FS_Intersection, FS_CardinalityType
  <2>3. QED
    BY <1>2, <2>1, <2>2
<1>4. /\ IsFiniteSet(R \ K)
      /\ Cardinality(R \ K) = Cardinality(R) - Cardinality(K)
  <2>1. R \cap K = K
    OBVIOUS
  <2>2. IsFiniteSet(R \ K) /\ Cardinality(R \ K) = Cardinality(R) - Cardinality(R \cap K)
    BY FS_Difference
  <2>3. QED
    BY <2>1, <2>2
<1>5. Cardinality(D) <= Cardinality(C \cup E) /\ Cardinality(D) \in Nat
  <2>1. D \in SUBSET (C \cup E)
    OBVIOUS
  <2>2. QED
    BY <1>3, <2>1, FS_Subset, FS_CardinalityType
<1>6. Cardinality(Q) <= Cardinality(R) - Cardinality(K) /\ Cardinality(Q) \in Nat
  <2>1. Q \in SUBSET (R \ K)
    OBVIOUS
  <2>2. QED
    BY <1>4, <2>1, FS_Subset, FS_CardinalityType
<1>7. Cardinality(C \cup E) \in Nat
  BY <1>3, FS_CardinalityType
<1>8. QED
  BY <1>2, <1>3, <1>5, <1>6, <1>7

\* Requests that counted can never add more than a batch each.
LEMMA RoomBound ==
    ASSUME TypeOK', \A p \in Requests : Cardinality(Bringing(req'[p])) <= MaxBatch
    PROVE  Cardinality(Room') <= Cardinality(Requests) * MaxBatch
<1> DEFINE X == Shares \cup {NoOne}
<1> DEFINE box == [p \in Requests |-> Bringing(req'[p])]
<1>1. \A p \in Requests : box[p] \in SUBSET X /\ Cardinality(box[p]) <= MaxBatch
  BY DEF Bringing, TypeOK, Request
<1>2. IsFiniteSet(X) /\ IsFiniteSet(Requests) /\ MaxBatch \in Nat
  BY SharingAssumption, FS_AddElement
<1>3. Room' = {z \in Requests \X X : z[2] \in box[z[1]]}
  BY DEF Room
<1> HIDE DEF box, X
<1>4. QED
  BY <1>1, <1>2, <1>3, Boxes

\* What is counted after a step was counted before or is counted by it.
LEMMA TallyCounts ==
    ASSUME NEW ss, Tally(ss)
    PROVE  \A s \in Counted' : s \in Counted \/ (s \in ss /\ s \notin Active)
  BY DEF Tally, Counted

LEMMA SameActive ==
    ASSUME trashed' = trashed,
           \A s \in Shares :
               /\ share'[s].row = share[s].row /\ share'[s].active = share[s].active
               /\ share'[s].blocked = share[s].blocked /\ share'[s].deleted = share[s].deleted
               /\ share'[s].expired = share[s].expired
    PROVE  Active' = Active
  BY DEF Active

-----------------------------------------------------------------------------
(* Steps against the quota.                                                 *)

LEMMA OffToEnable == \A ss : ToEnable(ss) = {s \in ss : Off(share[s])}
  BY DEF ToEnable, Own, Off

LEMMA OffToEnableNext ==
    ASSUME NEW p \in Requests
    PROVE  ToEnable(req[p].todo)' = {s \in req'[p].todo : Off(share'[s])}
  BY DEF ToEnable, Own, Off

\* Nothing is added, and whoever has counted had counted already.
LEMMA QuotaFrame ==
    ASSUME TypeOK, QuotaInv, Counted' \subseteq Counted,
           \A p \in Requests : Bringing(req'[p]) = Bringing(req[p]) \/ Bringing(req'[p]) = {},
           alone' => alone,
           alone' => \A p \in Requests :
               /\ req'[p].step = "insert" => req[p].step = "insert"
               /\ Enabling(req'[p]) =>
                     /\ Enabling(req[p]) /\ req'[p].todo = req[p].todo
                     /\ \A s \in Shares : Off(share'[s]) => Off(share[s])
    PROVE  QuotaInv'
<1>1. \A p \in Requests : Cardinality(Bringing(req'[p])) <= MaxBatch
  <2>1. Cardinality({}) = 0 /\ 0 <= MaxBatch
    BY SharingAssumption, FS_EmptySet
  <2>2. QED
    BY <2>1 DEF QuotaInv
<1>2. Cardinality(Counted') <= Cardinality(Counted)
  <2>1. Counted' \in SUBSET Counted
    OBVIOUS
  <2>2. QED
    BY <2>1, CountedFinite, FS_Subset
<1>3. Cardinality(Room') <= Cardinality(Room)
  <2>1. Room' \in SUBSET Room
    BY DEF Room
  <2>2. QED
    BY <2>1, RoomFinite, FS_Subset
<1>4. /\ Cardinality(Counted) \in Nat /\ Cardinality(Counted') \in Nat
      /\ Cardinality(Room) \in Nat /\ Cardinality(Room') \in Nat
      /\ ShareLimit \in Nat /\ Cardinality(Requests) * MaxBatch \in Nat
  BY CountedFinite, CountedFiniteNext, RoomFinite, SharingAssumption
<1>5. Cardinality(Counted') + Cardinality(Room') <= ShareLimit + Cardinality(Requests) * MaxBatch
  <2> DEFINE bound == Cardinality(Requests) * MaxBatch
  <2>1. Cardinality(Counted) + Cardinality(Room) <= ShareLimit + bound /\ bound \in Nat
    BY <1>4 DEF QuotaInv
  <2> HIDE DEF bound
  <2>2. Cardinality(Counted') + Cardinality(Room') <= ShareLimit + bound
    BY <1>2, <1>3, <1>4, <2>1
  <2>3. QED
    BY <2>2 DEF bound
<1>6. ASSUME alone'
      PROVE  /\ Cardinality(Counted') <= ShareLimit
             /\ \A p \in Requests :
                  /\ req'[p].step = "insert" => Cardinality(Counted') < ShareLimit
                  /\ Enabling(req'[p]) =>
                       Cardinality(Counted' \cup ToEnable(req[p].todo)') <= ShareLimit
  <2>1. Cardinality(Counted') <= ShareLimit
    BY <1>2, <1>4, <1>6 DEF QuotaInv
  <2>2. ASSUME NEW p \in Requests, req'[p].step = "insert"
        PROVE  Cardinality(Counted') < ShareLimit
    <3>1. Cardinality(Counted) < ShareLimit
      BY <1>6, <2>2 DEF QuotaInv
    <3>2. QED
      BY <1>2, <1>4, <3>1
  <2>3. ASSUME NEW p \in Requests, Enabling(req'[p])
        PROVE  Cardinality(Counted' \cup ToEnable(req[p].todo)') <= ShareLimit
    <3> DEFINE big == Counted \cup ToEnable(req[p].todo)
    <3> DEFINE small == Counted' \cup ToEnable(req[p].todo)'
    <3>1. Enabling(req[p]) /\ req'[p].todo = req[p].todo
      BY <1>6, <2>3
    <3>2. Cardinality(big) <= ShareLimit
      BY <1>6, <3>1 DEF QuotaInv
    <3>3. big \in SUBSET Shares
      BY CountedFinite DEF ToEnable, TypeOK, Request
    <3>4. small \in SUBSET big
      <4>1. \A s \in Shares : Off(share'[s]) => Off(share[s])
        BY <1>6, <2>3
      <4>2. ToEnable(req[p].todo)' = {s \in req[p].todo : Off(share'[s])}
        BY <3>1, OffToEnableNext
      <4>3. ToEnable(req[p].todo) = {s \in req[p].todo : Off(share[s])}
        BY OffToEnable
      <4>4. req[p].todo \subseteq Shares
        BY DEF TypeOK, Request
      <4>5. ToEnable(req[p].todo)' \subseteq ToEnable(req[p].todo)
        BY <4>1, <4>2, <4>3, <4>4
      <4>6. QED
        BY <4>5
    <3>5. IsFiniteSet(big) /\ Cardinality(big) \in Nat
      BY <3>3, SharesFinite
    <3> HIDE DEF big
    <3>6. Cardinality(small) <= Cardinality(big) /\ Cardinality(small) \in Nat
      <4> HIDE DEF small
      <4>1. QED
        BY <3>4, <3>5, FS_Subset, FS_CardinalityType
    <3>7. Cardinality(small) <= ShareLimit
      <4> HIDE DEF small
      <4>1. QED
        BY <1>4, <3>2, <3>5, <3>6
    <3>8. QED
      BY <3>7
  <2>4. QED
    BY <2>1, <2>2, <2>3
<1>7. QED
  BY <1>1, <1>5, <1>6 DEF QuotaInv

\* A request goes on, holding nothing any more.
LEMMA QuotaMove ==
    ASSUME TypeOK, LoneInv, QuotaInv, NEW p \in Requests, ~Free(p), NEW r, Become(p, r),
           r.step \notin {"insert", "count", "write"}, Counted' \subseteq Counted
    PROVE  QuotaInv'
<1>1. \A q \in Requests : req'[q] = IF q = p THEN r ELSE req[q]
  BY RequestMoves DEF Become
<1>2. ~Enabling(r) /\ Bringing(r) = {}
  BY DEF Enabling, Bringing
<1>3. \A q \in Requests : Bringing(req'[q]) = Bringing(req[q]) \/ Bringing(req'[q]) = {}
  BY <1>1, <1>2
<1>4. alone' => alone
  BY DEF Become
<1>5. alone => \A q \in Requests : q # p => req[q].step = "idle"
  BY DEF LoneInv, Free
<1>6. alone => \A q \in Requests : q # p => ~Enabling(req[q])
  BY <1>5 DEF Enabling
<1>7. alone' => \A q \in Requests : req'[q].step # "insert" /\ ~Enabling(req'[q])
  BY <1>1, <1>2, <1>4, <1>5, <1>6
<1>8. QED
  BY <1>3, <1>4, <1>7, QuotaFrame

\* A request starts that takes no place.
LEMMA QuotaStart ==
    ASSUME TypeOK, LoneInv, QuotaInv, NEW p \in Requests, NEW r, Start(p, r),
           r.step # "insert", ~Enabling(r), Counted' \subseteq Counted
    PROVE  QuotaInv'
<1>1. \A q \in Requests : req'[q] = IF q = p THEN r ELSE req[q]
  BY RequestMoves DEF Start
<1>2. Bringing(r) = {}
  BY DEF Bringing
<1>3. \A q \in Requests : Bringing(req'[q]) = Bringing(req[q]) \/ Bringing(req'[q]) = {}
  BY <1>1, <1>2
<1>4. alone' => alone /\ \A q \in Requests : req[q].step = "idle"
  BY DEF Start, Free
<1>5. alone' => \A q \in Requests : req[q].step # "insert" /\ ~Enabling(req[q])
  BY <1>4 DEF Enabling
<1>6. alone' => \A q \in Requests : req'[q].step # "insert" /\ ~Enabling(req'[q])
  BY <1>1, <1>5
<1>7. QED
  BY <1>3, <1>4, <1>6, QuotaFrame

\* A request starts with a count that finds room.
LEMMA QuotaCount ==
    ASSUME TypeOK, TypeOK', LoneInv, QuotaInv, NEW p \in Requests, NEW r, Start(p, r),
           UNCHANGED <<share, trashed, unchecked>>,
           Cardinality(Bringing(r)) <= MaxBatch,
           Cardinality(Counted) <= ShareLimit,
           r.step = "insert" => Cardinality(Counted) < ShareLimit,
           Enabling(r) => Cardinality(Counted \cup ToEnable(r.todo)) <= ShareLimit
    PROVE  QuotaInv'
<1>1. \A q \in Requests : req'[q] = IF q = p THEN r ELSE req[q]
  BY RequestMoves DEF Start
<1>2. Counted' = Counted
  BY DEF Counted, Active
<1>3. \A q \in Requests : Cardinality(Bringing(req'[q])) <= MaxBatch
  BY <1>1 DEF QuotaInv
<1>4. Cardinality(Counted) + Cardinality(Room') <= ShareLimit + Cardinality(Requests) * MaxBatch
  <2> DEFINE bound == Cardinality(Requests) * MaxBatch
  <2>1. Cardinality(Room') <= bound
    BY <1>3, RoomBound
  <2>2. Cardinality(Counted) \in Nat /\ Cardinality(Room') \in Nat /\ ShareLimit \in Nat
        /\ bound \in Nat
    BY CountedFinite, RoomFinite, SharingAssumption
  <2> HIDE DEF bound
  <2>3. Cardinality(Counted) + Cardinality(Room') <= ShareLimit + bound
    BY <2>1, <2>2
  <2>4. QED
    BY <2>3 DEF bound
<1>5. ASSUME alone', NEW q \in Requests
      PROVE  /\ req'[q].step = "insert" => Cardinality(Counted') < ShareLimit
             /\ Enabling(req'[q]) =>
                  Cardinality(Counted' \cup ToEnable(req[q].todo)') <= ShareLimit
  <2>1. CASE q = p
    <3>1. req'[q] = r
      BY <1>1, <2>1
    <3>2. ToEnable(req[q].todo)' = ToEnable(r.todo)
      BY <3>1 DEF ToEnable, Own
    <3>3. QED
      BY <1>2, <3>1, <3>2
  <2>2. CASE q # p
    <3>1. req'[q].step = "idle"
      BY <1>1, <1>5, <2>2 DEF Start, Free
    <3>2. QED
      BY <3>1 DEF Enabling
  <2>3. QED
    BY <2>1, <2>2
<1>6. QED
  BY <1>2, <1>3, <1>4, <1>5 DEF QuotaInv

\* A request writes what it has counted.
LEMMA QuotaAdd ==
    ASSUME TypeOK, LoneInv, QuotaInv, NEW p \in Requests, ~Free(p), NEW r, Become(p, r),
           r.step \notin {"insert", "count", "write"},
           NEW added, IsFiniteSet(added), Counted' \subseteq Counted \cup added,
           Cardinality(added) <= Cardinality(Bringing(req[p])),
           alone => Cardinality(Counted') <= ShareLimit
    PROVE  QuotaInv'
<1>1. \A q \in Requests : req'[q] = IF q = p THEN r ELSE req[q]
  BY RequestMoves DEF Become
<1>2. ~Enabling(r) /\ Bringing(r) = {}
  BY DEF Enabling, Bringing
<1>3. \A q \in Requests : Cardinality(Bringing(req'[q])) <= MaxBatch
  <2>1. Cardinality({}) = 0 /\ 0 <= MaxBatch
    BY SharingAssumption, FS_EmptySet
  <2>2. QED
    BY <1>1, <1>2, <2>1 DEF QuotaInv
<1>4. Cardinality(Counted') + Cardinality(Room') <= ShareLimit + Cardinality(Requests) * MaxBatch
  <2> DEFINE bound == ShareLimit + Cardinality(Requests) * MaxBatch
  <2> DEFINE T == Bringing(req[p])
  <2>1. bound \in Nat
    BY RoomFinite, SharingAssumption
  <2>2. Cardinality(Counted) + Cardinality(Room) <= bound
    BY DEF QuotaInv
  <2>3. T \subseteq Shares \cup {NoOne}
    BY DEF Bringing, TypeOK, Request
  <2>4. IsFiniteSet(T)
    BY <2>3, SharingAssumption, FS_AddElement, FS_Subset
  <2>5. {p} \X T \subseteq Room
    BY <2>3 DEF Room
  <2>6. Room' \subseteq Room \ ({p} \X T)
    BY <1>1, <1>2 DEF Room
  <2>7. Cardinality(added) <= Cardinality({p} \X T)
    <3>1. IsFiniteSet({p}) /\ Cardinality({p}) = 1
      BY FS_Singleton
    <3>2. Cardinality({p} \X T) = 1 * Cardinality(T)
      BY <2>4, <3>1, FS_Product
    <3>3. Cardinality(T) \in Nat
      BY <2>4, FS_CardinalityType
    <3>4. Cardinality({p} \X T) = Cardinality(T)
      BY <3>2, <3>3
    <3>5. QED
      BY <3>4
  <2>8. IsFiniteSet(Counted) /\ IsFiniteSet(Room)
    BY CountedFinite, RoomFinite
  <2> DEFINE K == {p} \X T
  <2> HIDE DEF bound, T, K
  <2>9. Cardinality(Counted') + Cardinality(Room') <= bound
    <3>1. K \subseteq Room /\ Room' \subseteq Room \ K /\ Cardinality(added) <= Cardinality(K)
      BY <2>5, <2>6, <2>7 DEF K
    <3>2. QED
      BY <2>1, <2>2, <2>8, <3>1, Swap
  <2>10. QED
    BY <2>9 DEF bound
<1>5. ASSUME alone', NEW q \in Requests
      PROVE  req'[q].step # "insert" /\ ~Enabling(req'[q])
  <2>1. CASE q = p
    BY <1>1, <1>2, <2>1
  <2>2. CASE q # p
    <3>1. req'[q].step = "idle"
      BY <1>1, <1>5, <2>2 DEF Become, LoneInv, Free
    <3>2. QED
      BY <3>1 DEF Enabling
  <2>3. QED
    BY <2>1, <2>2
<1>6. alone' => Cardinality(Counted') <= ShareLimit
  BY DEF Become
<1>7. QED
  BY <1>3, <1>4, <1>5, <1>6 DEF QuotaInv

\* Nobody moves.
LEMMA QuotaQuiet ==
    ASSUME TypeOK, QuotaInv, req' = req, alone' = alone, Counted' \subseteq Counted,
           \A s \in Shares : Off(share'[s]) => Off(share[s])
    PROVE  QuotaInv'
  BY QuotaFrame

\* A step that counts nothing lets nothing become counted.
LEMMA TallyNothing == ASSUME Tally({}) PROVE Counted' \subseteq Counted
  BY TallyCounts

LEMMA CountedStays ==
    ASSUME unchecked' = unchecked, Active' \subseteq Active PROVE Counted' \subseteq Counted
  BY DEF Counted

-----------------------------------------------------------------------------
(* ... one after the other.                                                 *)

LEMMA QuotaOwner ==
    ASSUME TypeOK, TypeOK', LoneInv, QuotaInv, NEW p \in Requests, OwnerRequest(p)
    PROVE  QuotaInv'
<1>1. CASE CheckCreate(p)
  <2>1. PICK r : r = Slot("insert", "", {})
    OBVIOUS
  <2>2. r.step = "insert"
    BY <2>1 DEF Slot
  <2>3. Cardinality(Active) < ShareLimit /\ Start(p, r) /\ UNCHANGED <<share, trashed, unchecked>>
    BY <1>1, <2>1 DEF CheckCreate, WithinActiveShareQuota
  <2>4. Cardinality(Counted) <= Cardinality(Active) /\ Cardinality(Active) \in Nat
    <3>1. Active \in SUBSET Shares /\ Counted \in SUBSET Active
      BY DEF Active, Counted
    <3>2. QED
      BY <3>1, SharesFinite, FS_Subset
  <2>5. Cardinality(Counted) < ShareLimit /\ Cardinality(Counted) <= ShareLimit
    BY <2>3, <2>4, CountedFinite, SharingAssumption
  <2>6. Cardinality(Bringing(r)) <= MaxBatch
    <3>1. Cardinality({NoOne}) = 1
      BY FS_Singleton
    <3>2. QED
      BY <2>2, <3>1, SharingAssumption DEF Bringing
  <2>7. ~Enabling(r)
    BY <2>2 DEF Enabling
  <2>8. QED
    BY <2>3, <2>5, <2>6, <2>7, QuotaCount
<1>2. ASSUME NEW s \in Shares, NEW review \in BOOLEAN, NEW extend \in BOOLEAN,
             EditShare(p, s, review, extend)
      PROVE  QuotaInv'
  <2>1. PICK r : r = Slot("mark", IF review THEN "review" ELSE "plain", {s})
    OBVIOUS
  <2>2. r.step = "mark"
    BY <2>1 DEF Slot
  <2>3. Start(p, r) /\ Tally({})
    BY <1>2, <2>1 DEF EditShare
  <2>4. QED
    BY <2>2, <2>3, TallyNothing, QuotaStart DEF Enabling
<1>3. ASSUME NEW ss \in SUBSET Shares, NEW action \in {"enable", "disable", "delete"},
             Cardinality(ss) <= MaxBatch, StartBatch(p, ss, action)
      PROVE  QuotaInv'
  <2>1. PICK r : r = Slot("count", action, ss)
    OBVIOUS
  <2>2. r.step = "count" /\ r.arg = action /\ r.todo = ss
    BY <2>1 DEF Slot
  <2>3. Start(p, r) /\ UNCHANGED <<share, trashed, unchecked>>
    BY <1>3, <2>1 DEF StartBatch
  <2>4. CASE action # "enable"
    <3>1. Active' = Active
      BY <2>3 DEF Active
    <3>2. Counted' \subseteq Counted
      BY <2>3, <3>1, CountedStays
    <3>3. QED
      BY <2>2, <2>3, <2>4, <3>2, QuotaStart DEF Enabling
  <2>5. CASE action = "enable"
    <3>1. Cardinality(Active) + Cardinality(ToEnable(ss)) <= ShareLimit
      BY <1>3, <2>5 DEF StartBatch
    <3> DEFINE T == ToEnable(ss)
    <3> DEFINE both == Counted \cup T
    <3>2. Active \in SUBSET Shares /\ T \in SUBSET Shares /\ Counted \in SUBSET Active
      BY DEF Active, Counted, ToEnable
    <3>3. /\ IsFiniteSet(Active) /\ Cardinality(Active) \in Nat
          /\ IsFiniteSet(T) /\ Cardinality(T) \in Nat
      BY <3>2, SharesFinite
    <3>4. Cardinality(Active) + Cardinality(T) <= ShareLimit
      BY <3>1
    <3> HIDE DEF T
    <3>5. /\ Cardinality(Active \cup T) <= ShareLimit /\ IsFiniteSet(Active \cup T)
          /\ Cardinality(Active \cup T) \in Nat
      <4>1. /\ IsFiniteSet(Active \cup T)
            /\ Cardinality(Active \cup T)
                 = Cardinality(Active) + Cardinality(T) - Cardinality(Active \cap T)
        BY <3>3, FS_Union
      <4>2. Cardinality(Active \cap T) \in Nat /\ Cardinality(Active \cup T) \in Nat
        BY <3>3, <4>1, FS_Intersection, FS_CardinalityType
      <4>3. QED
        BY <3>3, <3>4, <4>1, <4>2, SharingAssumption
    <3>6. both \in SUBSET (Active \cup T) /\ Counted \in SUBSET (Active \cup T)
      BY <3>2
    <3>7. Cardinality(both) <= Cardinality(Active \cup T)
          /\ Cardinality(Counted) <= Cardinality(Active \cup T)
          /\ Cardinality(both) \in Nat /\ Cardinality(Counted) \in Nat
      <4> HIDE DEF both
      <4>1. QED
        BY <3>5, <3>6, FS_Subset, FS_CardinalityType
    <3>8. Cardinality(both) <= ShareLimit /\ Cardinality(Counted) <= ShareLimit
      <4> HIDE DEF both
      <4>1. QED
        BY <3>5, <3>7, SharingAssumption
    <3>9. Bringing(r) = ss /\ r.step # "insert"
      BY <2>2, <2>5 DEF Bringing, Enabling
    <3>10. Cardinality(Counted \cup ToEnable(r.todo)) <= ShareLimit
      BY <2>2, <3>8 DEF T
    <3>11. Cardinality(Bringing(r)) <= MaxBatch
      BY <1>3, <3>9
    <3>12. QED
      BY <2>3, <3>8, <3>9, <3>10, <3>11, QuotaCount
  <2>6. QED
    BY <2>4, <2>5
<1>4. QED
  BY <1>1, <1>2, <1>3 DEF OwnerRequest

LEMMA QuotaAdmin ==
    ASSUME TypeOK, LoneInv, QuotaInv, NEW p \in Requests, AdminRequest(p)
    PROVE  QuotaInv'
<1>1. ASSUME NEW s \in Shares, NEW step \in {"sync", "decide"}, NEW arg,
             Start(p, Slot(step, arg, {s})), Tally({})
      PROVE  QuotaInv'
  <2>1. PICK r : r = Slot(step, arg, {s})
    OBVIOUS
  <2>2. r.step = step
    BY <2>1 DEF Slot
  <2>3. Start(p, r)
    BY <1>1, <2>1
  <2>4. QED
    BY <1>1, <2>2, <2>3, TallyNothing, QuotaStart DEF Enabling
<1>2. QED
  BY <1>1 DEF AdminRequest, AdminUpdateShare, SetShareDisposition

LEMMA QuotaCreate ==
    ASSUME TypeOK, LoneInv, QuotaInv, NEW p \in Requests, NEW s \in Shares, NEW c \in Codes,
           NEW review \in BOOLEAN, CreateShare(p, s, c, review)
    PROVE  QuotaInv'
<1>1. PICK r : r = IF review THEN Slot("mark", "new", {s}) ELSE Idle
  OBVIOUS
<1>2. r.step \in {"mark", "idle"}
  BY <1>1 DEF Slot, Idle
<1>3. Become(p, r) /\ ~Free(p) /\ req[p].step = "insert" /\ Tally({s})
  BY <1>1 DEF CreateShare, At, Free
<1>4. Counted' \subseteq Counted \cup {s}
  BY <1>3, TallyCounts
<1>5. IsFiniteSet({s}) /\ Cardinality({s}) = 1
  BY FS_Singleton
<1>6. Cardinality(Bringing(req[p])) = 1
  <2>1. Bringing(req[p]) = {NoOne}
    BY <1>3 DEF Bringing
  <2>2. QED
    BY <2>1, FS_Singleton
<1>7. alone => Cardinality(Counted') <= ShareLimit
  <2> SUFFICES ASSUME alone
               PROVE  Cardinality(Counted') <= ShareLimit
    OBVIOUS
  <2>1. Cardinality(Counted) < ShareLimit
    BY <1>3 DEF QuotaInv
  <2>2. /\ IsFiniteSet(Counted \cup {s})
        /\ Cardinality(Counted \cup {s}) <= Cardinality(Counted) + 1
        /\ Cardinality(Counted \cup {s}) \in Nat
    <3>1. /\ IsFiniteSet(Counted \cup {s})
          /\ Cardinality(Counted \cup {s})
               = IF s \in Counted THEN Cardinality(Counted) ELSE Cardinality(Counted) + 1
      BY CountedFinite, FS_AddElement
    <3>2. QED
      BY <3>1, CountedFinite, FS_CardinalityType
  <2>3. Counted' \in SUBSET (Counted \cup {s})
    BY <1>4
  <2>4. Cardinality(Counted') <= Cardinality(Counted \cup {s})
    BY <2>2, <2>3, FS_Subset
  <2>5. QED
    BY <2>1, <2>2, <2>4, CountedFinite, CountedFiniteNext, SharingAssumption
<1>8. Cardinality({s}) <= Cardinality(Bringing(req[p]))
  BY <1>5, <1>6
<1>9. QED
  BY <1>2, <1>3, <1>4, <1>5, <1>7, <1>8, QuotaAdd

LEMMA SyncFields == \A ss : Slot("sync", "", ss).step = "sync" /\ Sync(ss).step \in {"idle", "sync"}
  BY IdleFields DEF Slot, Sync

LEMMA QuotaMark ==
    ASSUME TypeOK, LoneInv, QuotaInv, NEW p \in Requests,
           MarkShare(p) \/ MarkFails(p) \/ ReviewShare(p)
    PROVE  QuotaInv'
<1>1. PICK r : /\ Become(p, r) /\ ~Free(p) /\ Tally({})
               /\ (r = Idle \/ r = Slot("sync", "", req[p].todo))
  <2>1. CASE MarkShare(p)
    BY <2>1 DEF MarkShare, AfterMark, At, Free
  <2>2. CASE MarkFails(p) \/ ReviewShare(p)
    BY <2>2 DEF MarkFails, ReviewShare, At, Free
  <2>3. QED
    BY <2>1, <2>2
<1>2. r.step \in {"idle", "sync"}
  BY <1>1, IdleFields, SyncFields
<1>3. QED
  BY <1>1, <1>2, TallyNothing, QuotaMove

LEMMA QuotaBatch ==
    ASSUME TypeOK, LoneInv, QuotaInv, NEW p \in Requests, WriteBatch(p)
    PROVE  QuotaInv'
<1> DEFINE ss == {s \in req[p].todo : share[s].row}
<1>1. PICK r : /\ Become(p, r) /\ ~Free(p) /\ req[p].step = "write" /\ Tally(ss)
               /\ (r = Idle \/ r = Slot("sync", "", req[p].todo))
  BY DEF WriteBatch, At, Free
<1>2. r.step \in {"idle", "sync"}
  BY <1>1, IdleFields, SyncFields
<1>3. req[p].todo \in SUBSET Shares
  BY DEF TypeOK, Request
<1>4. \A s \in Counted' : s \in Counted \/ (s \in ss /\ s \notin Active)
  BY <1>1, TallyCounts
<1>5. CASE req[p].arg # "enable"
  <2>1. \A s \in ss : ~share'[s].active
    <3>1. \A s \in ss : share'[s] = IF req[p].arg = "delete" THEN NoShare
                                    ELSE [share[s] EXCEPT !.active = FALSE]
      BY <1>3, <1>5 DEF WriteBatch
    <3>2. ~NoShare.active /\ \A s \in Shares : ~[share[s] EXCEPT !.active = FALSE].active
      BY DEF TypeOK, Share, NoShare
    <3>3. QED
      BY <1>3, <3>1, <3>2
  <2>2. Counted' \subseteq Active'
    BY DEF Counted
  <2>3. Counted' \subseteq Counted
    BY <1>4, <2>1, <2>2 DEF Active
  <2>4. QED
    BY <1>1, <1>2, <2>3, QuotaMove
<1>6. CASE req[p].arg = "enable"
  <2>1. Bringing(req[p]) = req[p].todo /\ Enabling(req[p])
    BY <1>1, <1>6 DEF Bringing, Enabling
  <2>2. Counted' \subseteq Counted \cup ToEnable(req[p].todo)
    <3>1. \A s \in ss : share'[s] = [share[s] EXCEPT !.active = TRUE]
      BY <1>3, <1>6 DEF WriteBatch
    <3>2. \A s \in ss : /\ share'[s].blocked = share[s].blocked
                        /\ share'[s].deleted = share[s].deleted
                        /\ share'[s].expired = share[s].expired
      <4>1. \A s \in Shares : share[s] \in Share
        BY DEF TypeOK
      <4>2. QED
        BY <1>3, <3>1, <4>1 DEF Share
    <3>3. trashed' = trashed
      BY DEF WriteBatch
    <3>4. ASSUME NEW s \in Counted', s \in ss, s \notin Active
          PROVE  s \in ToEnable(req[p].todo)
      <4>1. s \in Active' /\ s \in Shares
        BY <3>4 DEF Counted, Active
      <4>2. /\ ~share[s].blocked /\ ~share[s].deleted /\ ~share[s].expired
            /\ s \notin trashed /\ share[s].row
        BY <3>2, <3>3, <3>4, <4>1 DEF Active
      <4>3. ~share[s].active
        BY <3>4, <4>1, <4>2 DEF Active
      <4>4. QED
        BY <3>4, <4>2, <4>3 DEF ToEnable, Own
    <3>5. QED
      BY <1>4, <3>4
  <2> DEFINE added == ToEnable(req[p].todo)
  <2>3. added \in SUBSET req[p].todo /\ added \in SUBSET Shares
    BY <1>3 DEF ToEnable
  <2>4. alone => Cardinality(Counted \cup added) <= ShareLimit
    BY <2>1 DEF QuotaInv
  <2>5. Counted' \subseteq Counted \cup added
    BY <2>2
  <2> HIDE DEF added
  <2>6. IsFiniteSet(added)
    BY <2>3, SharesFinite
  <2>7. Cardinality(added) <= Cardinality(Bringing(req[p]))
    BY <1>3, <2>1, <2>3, SharesFinite, FS_Subset
  <2>8. alone => Cardinality(Counted') <= ShareLimit
    <3>1. Counted \cup added \in SUBSET Shares
      BY <2>3, CountedFinite
    <3>2. IsFiniteSet(Counted \cup added) /\ Cardinality(Counted \cup added) \in Nat
      BY <3>1, SharesFinite
    <3>3. Cardinality(Counted') <= Cardinality(Counted \cup added)
      BY <2>5, <3>2, FS_Subset
    <3>4. QED
      BY <2>4, <3>2, <3>3, CountedFiniteNext, SharingAssumption
  <2>9. QED
    BY <1>1, <1>2, <2>5, <2>6, <2>7, <2>8, QuotaAdd
<1>7. QED
  BY <1>5, <1>6

LEMMA QuotaCountBatch ==
    ASSUME TypeOK, QuotaInv, NEW p \in Requests, CountBatch(p)
    PROVE  QuotaInv'
<1>1. PICK r : /\ (r = [req[p] EXCEPT !.step = "write"] \/ r = Idle)
               /\ req' = [req EXCEPT ![p] = r]
               /\ req[p].step = "count" /\ UNCHANGED <<share, trashed, unchecked, alone>>
  BY DEF CountBatch, Become, At
<1>2. \A q \in Requests : req'[q] = IF q = p THEN r ELSE req[q]
  BY <1>1, RequestMoves
<1>3. \/ r.step = "write" /\ r.arg = req[p].arg /\ r.todo = req[p].todo
      \/ r.step = "idle"
  <2>1. LET x == [req[p] EXCEPT !.step = "write"]
        IN  x.step = "write" /\ x.arg = req[p].arg /\ x.todo = req[p].todo
    BY DEF TypeOK, Request
  <2>2. QED
    BY <1>1, <2>1, IdleFields
<1>4. /\ Bringing(r) = Bringing(req[p]) \/ Bringing(r) = {}
      /\ r.step # "insert"
      /\ Enabling(r) => Enabling(req[p]) /\ r.todo = req[p].todo
  BY <1>1, <1>3 DEF Bringing, Enabling
<1>5. Counted' \subseteq Counted
  BY <1>1 DEF Counted, Active
<1>6. QED
  BY <1>1, <1>2, <1>4, <1>5, QuotaFrame

\* What puts a code right changes nothing that is counted.
LEMMA QuotaSync ==
    ASSUME TypeOK, LoneInv, QuotaInv, NEW p \in Requests,
           \/ \E s \in Shares : ReadState(p, s)
           \/ ReleaseCode(p) \/ OccupyCode(p) \/ CodesExhausted(p)
           \/ \E c \in Codes : RotateCode(p, c)
           \/ Abandon(p)
    PROVE  QuotaInv'
<1>1. PICK r : Become(p, r) /\ ~Free(p) /\ r.step \in {"idle", "sync", "release", "occupy", "rotate"}
  <2>0. /\ \A ss : Sync(ss).step \in {"idle", "sync"}
        /\ Idle.step = "idle"
    BY SyncFields, IdleFields
  <2>1. ASSUME NEW s \in Shares, ReadState(p, s)
        PROVE  \E r : Become(p, r) /\ ~Free(p)
                      /\ r.step \in {"idle", "sync", "release", "occupy", "rotate"}
    <3>1. ~Free(p)
      BY <2>1 DEF ReadState, At, Free
    <3>2. CASE share[s].row /\ Usable(s) # share[s].live
      <4>1. PICK step \in {"occupy", "release"} :
              Become(p, [req[p] EXCEPT !.step = step, !.on = s, !.code = share[s].code])
        BY <2>1, <3>2 DEF ReadState
      <4>2. PICK r : r = [req[p] EXCEPT !.step = step, !.on = s, !.code = share[s].code]
        OBVIOUS
      <4>3. r.step = step
        BY <4>2 DEF TypeOK, Request
      <4>4. QED
        BY <3>1, <4>1, <4>2, <4>3
    <3>3. CASE ~(share[s].row /\ Usable(s) # share[s].live)
      <4>1. Become(p, Sync(req[p].todo \ {s}))
        BY <2>1, <3>3 DEF ReadState, Synced
      <4>2. QED
        BY <2>0, <3>1, <4>1
    <3>4. QED
      BY <3>2, <3>3
  <2>2. CASE ReleaseCode(p)
    BY <2>0, <2>2 DEF ReleaseCode, Synced, At, Free
  <2>3. CASE OccupyCode(p)
    <3>1. ~Free(p)
      BY <2>3 DEF OccupyCode, At, Free
    <3>2. CASE Become(p, Sync(req[p].todo \ {req[p].on}))
      BY <2>0, <3>1, <3>2
    <3>3. CASE Become(p, [req[p] EXCEPT !.step = "rotate"])
      <4>1. PICK r : r = [req[p] EXCEPT !.step = "rotate"]
        OBVIOUS
      <4>2. r.step = "rotate"
        BY <4>1 DEF TypeOK, Request
      <4>3. QED
        BY <3>1, <3>3, <4>1, <4>2
    <3>4. QED
      BY <2>3, <3>2, <3>3 DEF OccupyCode, Synced
  <2>4. CASE CodesExhausted(p)
    BY <2>0, <2>4 DEF CodesExhausted, At, Free
  <2>5. ASSUME NEW c \in Codes, RotateCode(p, c)
        PROVE  \E r : Become(p, r) /\ ~Free(p)
                      /\ r.step \in {"idle", "sync", "release", "occupy", "rotate"}
    BY <2>0, <2>5 DEF RotateCode, Synced, At, Free
  <2>6. CASE Abandon(p)
    BY <2>0, <2>6 DEF Abandon
  <2>7. QED
    BY <2>1, <2>2, <2>3, <2>4, <2>5, <2>6
<1>2. UNCHANGED <<trashed, unchecked>>
  BY DEF ReadState, ReleaseCode, OccupyCode, CodesExhausted, RotateCode, Abandon
<1> DEFINE Alike ==
        \A s \in Shares :
            /\ share'[s].row = share[s].row /\ share'[s].active = share[s].active
            /\ share'[s].blocked = share[s].blocked /\ share'[s].deleted = share[s].deleted
            /\ share'[s].expired = share[s].expired
<1>3. Alike
  <2>1. ASSUME NEW s, NEW code, NEW live, share' = [share EXCEPT ![s].code = code, ![s].live = live]
        PROVE  Alike
    BY <2>1 DEF TypeOK, Share
  <2>2. ASSUME NEW s, NEW live, share' = [share EXCEPT ![s].live = live]
        PROVE  Alike
    BY <2>2 DEF TypeOK, Share
  <2>3. CASE share' = share
    BY <2>3
  <2>4. QED
    BY <2>1, <2>2, <2>3 DEF ReadState, ReleaseCode, OccupyCode, CodesExhausted, RotateCode, Abandon
<1>4. Counted' \subseteq Counted
  BY <1>2, <1>3, SameActive, CountedStays
<1>5. QED
  BY <1>1, <1>4, QuotaMove

LEMMA QuotaOther ==
    ASSUME TypeOK, QuotaInv,
           \/ \E s \in Shares : AdminDeleteShare(s) \/ Expire(s) \/ TrashRoot(s)
           \/ \E s \in Shares, change \in Changes : AdminUpdateRefused(s, change)
           \/ ReleaseDeadPickupCodes
           \/ UNCHANGED vars
    PROVE  QuotaInv'
<1>1. ASSUME NEW s \in Shares, AdminDeleteShare(s)
      PROVE  QuotaInv'
  <2>1. \A t \in Shares : Off(share'[t]) => Off(share[t])
    BY <1>1 DEF AdminDeleteShare, TypeOK, Share, Off
  <2>2. QED
    BY <1>1, <2>1, TallyNothing, QuotaQuiet DEF AdminDeleteShare
<1>2. ASSUME NEW s \in Shares, Expire(s)
      PROVE  QuotaInv'
  <2>1. \A t \in Shares : Off(share'[t]) => Off(share[t])
    BY <1>2 DEF Expire, TypeOK, Share, Off
  <2>2. QED
    BY <1>2, <2>1, TallyNothing, QuotaQuiet DEF Expire
<1>3. ASSUME NEW s \in Shares, TrashRoot(s)
      PROVE  QuotaInv'
  BY <1>3, TallyNothing, QuotaQuiet DEF TrashRoot
<1>4. CASE ReleaseDeadPickupCodes
  <2>1. \A t \in Shares : /\ share'[t].row = share[t].row /\ share'[t].active = share[t].active
                          /\ share'[t].blocked = share[t].blocked
                          /\ share'[t].deleted = share[t].deleted
                          /\ share'[t].expired = share[t].expired
    <3>1. \A t \in Shares : share[t] \in Share
      BY DEF TypeOK
    <3>2. \A t \in Shares : share'[t] = [share[t] EXCEPT !.live = @ /\ t \notin Dead]
      BY <1>4 DEF ReleaseDeadPickupCodes
    <3>3. QED
      BY <3>1, <3>2 DEF Share
  <2>2. UNCHANGED <<trashed, unchecked, req, alone>>
    BY <1>4 DEF ReleaseDeadPickupCodes
  <2>3. Counted' \subseteq Counted
    BY <2>1, <2>2, SameActive, CountedStays
  <2>4. QED
    BY <2>1, <2>2, <2>3, QuotaQuiet DEF Off
<1>5. CASE UNCHANGED vars
  <2>1. Counted' \subseteq Counted
    BY <1>5 DEF vars, Counted, Active
  <2>2. QED
    BY <1>5, <2>1, QuotaQuiet DEF vars
<1>6. ASSUME NEW s \in Shares, NEW change \in Changes, AdminUpdateRefused(s, change)
      PROVE  QuotaInv'
  <2>1. Counted' \subseteq Counted
    BY <1>6 DEF AdminUpdateRefused, Counted, Active
  <2>2. QED
    BY <1>6, <2>1, QuotaQuiet DEF AdminUpdateRefused
<1>7. QED
  BY <1>1, <1>2, <1>3, <1>4, <1>5, <1>6

LEMMA QuotaStep ==
    ASSUME TypeOK, TypeOK', LoneInv, QuotaInv, [Next]_vars
    PROVE  QuotaInv'
<1>1. ASSUME NEW p \in Requests, RequestStep(p)
      PROVE  QuotaInv'
  BY <1>1, QuotaCreate, QuotaMark, QuotaBatch, QuotaCountBatch, QuotaSync DEF RequestStep
<1>2. QED
  BY <1>1, QuotaOwner, QuotaAdmin, QuotaOther DEF Next

LEMMA InitAlone == Init => LoneInv /\ QuotaInv
<1> SUFFICES ASSUME Init
             PROVE  LoneInv /\ QuotaInv
  OBVIOUS
<1>1. \A p \in Requests : req[p] = Idle
  BY DEF Init
<1>2. \A s \in Shares : share[s] = NoShare \/ \E c \in Codes : share[s] = NewShare(c)
  BY DEF Init
<1>3. LoneInv
  <2>1. \A p \in Requests : Free(p) /\ Ready(req[p], share)
    BY <1>1, IdleReady, IdleFields DEF Free
  <2>2. /\ NoShare.review = "none" /\ ~NoShare.row
        /\ \A c \in Codes : NewShare(c).review = "none" /\ NewShare(c).live
    BY DEF NoShare, NewShare
  <2>3. DroppedGone(share)
    BY <1>2, <2>2 DEF DroppedGone
  <2>4. UsableIsLive
    BY <1>2, <2>2 DEF UsableIsLive, Usable
  <2>5. QED
    BY <2>1, <2>3, <2>4 DEF LoneInv
<1>4. QuotaInv
  <2>1. \A p \in Requests : Bringing(req[p]) = {} /\ req[p].step # "insert" /\ ~Enabling(req[p])
    BY <1>1, IdleFields DEF Bringing, Enabling
  <2>2. Room = {}
    BY <2>1 DEF Room
  <2>3. Counted = Active
    BY DEF Init, Counted
  <2>4. Cardinality(Counted) <= ShareLimit
    BY <2>3 DEF Init
  <2>5. Cardinality({}) = 0 /\ MaxBatch \in Nat /\ 0 <= MaxBatch
    BY FS_EmptySet, SharingAssumption
  <2>6. Cardinality(Counted) + Cardinality(Room) <= ShareLimit + Cardinality(Requests) * MaxBatch
    <3> DEFINE bound == Cardinality(Requests) * MaxBatch
    <3>1. bound \in Nat
      BY RoomFinite
    <3> HIDE DEF bound
    <3>2. Cardinality(Counted) + Cardinality(Room) <= ShareLimit + bound
      BY <2>2, <2>4, <2>5, <3>1, CountedFinite, SharingAssumption
    <3>3. QED
      BY <3>2 DEF bound
  <2>7. QED
    BY <2>1, <2>4, <2>5, <2>6 DEF QuotaInv
<1>5. QED
  BY <1>3, <1>4

\* Counted together.
LEMMA QuotaInvHolds == QuotaInv => QuotaHeld
<1> SUFFICES ASSUME QuotaInv
             PROVE  QuotaHeld
  OBVIOUS
<1> DEFINE bound == Cardinality(Requests) * MaxBatch
<1>1. /\ bound \in Nat /\ Cardinality(Room) \in Nat /\ Cardinality(Counted) \in Nat
      /\ ShareLimit \in Nat
  BY RoomFinite, CountedFinite, SharingAssumption
<1>2. /\ Cardinality(Counted) + Cardinality(Room) <= ShareLimit + bound
      /\ alone => Cardinality(Counted) <= ShareLimit
  BY DEF QuotaInv
<1> HIDE DEF bound
<1>3. /\ Cardinality(Counted) <= ShareLimit + bound
      /\ alone => Cardinality(Counted) <= ShareLimit + 0
  BY <1>1, <1>2
<1>4. QED
  BY <1>3 DEF QuotaHeld, bound, Counted
-----------------------------------------------------------------------------
(* The theorems.                                                           *)

LEMMA NextStep == ASSUME TypeOK, Next PROVE TypeOK' /\ DeletedSilent
<1>1. ASSUME NEW p \in Requests, OwnerRequest(p) \/ AdminRequest(p) \/ RequestStep(p)
      PROVE  Sound /\ Rest
  <2>1. CASE OwnerRequest(p) \/ AdminRequest(p)
    BY <2>1, OwnerRequestStep, AdminRequestStep
  <2>2. CASE RequestStep(p)
    BY <2>2, CreateStep, MarkStep, BatchStep, SyncStep, ReviewStep, AbandonStep DEF RequestStep
  <2>3. QED
    BY <1>1, <2>1, <2>2
<1>2. Sound /\ Rest
  BY <1>1, OtherStep DEF Next
<1>3. QED
  BY <1>2 DEF Sound, Rest, TypeOK

LEMMA StutterStep == ASSUME TypeOK, UNCHANGED vars PROVE TypeOK' /\ DeletedSilent
<1>1. TypeOK'
  BY DEF TypeOK, vars, LiveCodesUnique, Active
<1>2. QED
  BY <1>1 DEF vars, DeletedSilent

LEMMA InitType == Init => TypeOK
<1> SUFFICES ASSUME Init
             PROVE  TypeOK
  OBVIOUS
<1>1. share \in [Shares -> Share]
  BY RowTypes DEF Init
<1>2. LiveCodesUnique
  <2>1. ~NoShare.live /\ \A c \in Codes : NewShare(c).row
    BY DEF NoShare, NewShare
  <2>2. \A s \in Shares : share[s] = NoShare \/ \E c \in Codes : share[s] = NewShare(c)
    BY DEF Init
  <2>3. \A s \in Shares : share[s].live => share[s].row
    BY <2>1, <2>2
  <2>4. QED
    BY <2>3 DEF Init, LiveCodesUnique
<1>3. req \in [Requests -> Request]
  BY IdleType DEF Init
<1>4. made \in 0..MaxRequests
  BY SharingAssumption DEF Init
<1>5. QED
  BY <1>1, <1>2, <1>3, <1>4 DEF Init, TypeOK

\* The tables keep their shape; above all no two live shares have one code, for
\* any number of requests between the statements of SyncPickupCodeLive.
THEOREM TypeCorrect == Spec => []TypeOK
<1>1. TypeOK /\ [Next]_vars => TypeOK'
  BY NextStep, StutterStep
<1>2. QED
  BY <1>1, InitType, PTL DEF Spec

\* A request that read a share before it was deleted gives it no code after, for
\* any number of requests that do: the code it gave up may be another's by then.
THEOREM DeletedStaysSilent == Spec => DeletedTakesNoCode
<1>1. TypeOK /\ [Next]_vars => DeletedSilent
  BY NextStep, StutterStep
<1>2. TypeOK /\ [Next]_vars => [DeletedSilent]_vars
  BY <1>1
<1>3. Spec => [][DeletedSilent]_vars
  BY <1>2, TypeCorrect, PTL DEF Spec
<1>4. QED
  BY <1>3 DEF DeletedTakesNoCode, DeletedSilent

\* What the last three theorems rest on.
LEMMA AloneAlways == Spec => [](LoneInv /\ QuotaInv) /\ [][KeepsCodes]_vars
<1>1. TypeOK /\ TypeOK' /\ LoneInv /\ QuotaInv /\ [Next]_vars =>
          LoneInv' /\ QuotaInv' /\ [KeepsCodes]_vars
  BY LoneStep, QuotaStep
<1>2. QED
  BY <1>1, InitAlone, TypeCorrect, PTL DEF Spec

\* While requests run one after the other, whatever a visitor may open has its
\* code, except where a request still has to put it right or failed to.
THEOREM UsableStaysLive == Spec => []UsableIsLiveAlone
<1>1. LoneInv => UsableIsLiveAlone
  BY DEF LoneInv, UsableIsLiveAlone
<1>2. QED
  BY <1>1, AloneAlways, PTL

\* ... and the code that opened it opens it still.
THEOREM CodesAreKept == Spec => CodeKept
<1>1. Spec => [][KeepsCodes]_vars
  BY AloneAlways
<1>2. QED
  BY <1>1 DEF CodeKept, KeepsCodes

\* The quota holds while requests run one after the other, and is never passed
\* by more than a batch for every request that can be in progress.
THEOREM QuotaIsHeld == Spec => []QuotaHeld
  BY QuotaInvHolds, AloneAlways, PTL
=============================================================================
