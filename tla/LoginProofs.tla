----------------------------- MODULE LoginProofs -----------------------------
(***************************************************************************)
(* Proofs about Login: the number of wrong codes a challenge gives away, the*)
(* session that a reset or a disabling ends, and that no code and no pass of*)
(* grace lets a user in twice, for any number of requests and challenges.  *)
(***************************************************************************)
EXTENDS Login, TLAPS

-----------------------------------------------------------------------------
(* The strengthening.                                                       *)

Verifying(p) == req[p].step = "verify"

\* A challenge being verified belongs to one request, which read it as it is.
LockHeld ==
    \A p \in Requests : Verifying(p) =>
        /\ req[p].chal \in Challenges
        /\ chal[req[p].chal].row /\ req[p].tries = chal[req[p].chal].tries
        /\ \A q \in Requests : Verifying(q) /\ req[q].chal = req[p].chal => q = p

\* A challenge counts the wrong codes it was given, and goes with the last.
TriesCounted ==
    \A c \in Challenges :
        /\ wrong[c] <= MaxAttempts
        /\ chal[c].row => wrong[c] = chal[c].tries /\ wrong[c] < MaxAttempts

\* What a login carries on from is the password of today, or it was overtaken;
\* after the password or the code the user was not disabled either.
Current(r, u) ==
    /\ r.step \in {"decide", "session", "mark", "verify", "lookup"} =>
           r.straddled \/ r.read.pwd = u.pwd
    /\ r.step \in {"decide", "session", "mark"} => r.straddled \/ ~u.disabled

LoginsCurrent == \A p \in Requests : Current(req[p], user)

ChallengesCurrent ==
    \A c \in Challenges : chal[c].row => chal[c].straddled \/ chal[c].pwd = user.pwd

IInv ==
    /\ TypeOK /\ LockHeld /\ TriesCounted
    /\ LoginsCurrent /\ ChallengesCurrent /\ SessionIsCurrent

-----------------------------------------------------------------------------
(* Types.                                                                  *)

ReqSteps == {"idle", "decide", "session", "mark", "verify", "lookup", "save"}

LEMMA IdleType == Idle \in Request /\ Idle.step = "idle"
  BY LoginAssumption DEF Idle, Request, NewUser, User, Steps

LEMMA ReadingType ==
    ASSUME TypeOK, NEW step \in ReqSteps
    PROVE  Reading(step) \in Request
  BY DEF Reading, Request, ReqSteps, TypeOK

LEMMA BecomeType ==
    ASSUME TypeOK, NEW p \in Requests, NEW r \in Request, Become(p, r)
    PROVE  req' \in [Requests -> Request] /\ made' = made
  BY DEF Become, TypeOK

LEMMA StartType ==
    ASSUME TypeOK, NEW p \in Requests, NEW r \in Request, Start(p, r)
    PROVE  req' \in [Requests -> Request] /\ made' \in 0..MaxRequests
  BY LoginAssumption DEF Start, TypeOK

LEMMA StraddleType ==
    ASSUME TypeOK, Straddle
    PROVE  req' \in [Requests -> Request]
<1>1. \A p \in Requests : [req[p] EXCEPT !.straddled = TRUE] \in Request
  BY DEF TypeOK, Request
<1>2. QED
  BY <1>1, IdleType DEF Straddle

LEMMA TypeStep == TypeOK /\ [Next]_vars => TypeOK'
<1> SUFFICES ASSUME TypeOK, [Next]_vars
             PROVE  TypeOK'
  OBVIOUS
<1> USE LoginAssumption DEF TypeOK, data, history
<1>1. ASSUME NEW p \in Requests, Authenticate(p)
      PROVE  TypeOK'
  <2>1. Reading("decide") \in Request
    BY ReadingType DEF ReqSteps
  <2>2. req' \in [Requests -> Request] /\ made' \in 0..MaxRequests
    BY <1>1, <2>1, StartType DEF Authenticate
  <2>3. QED
    BY <1>1, <2>2 DEF Authenticate
<1>2. ASSUME NEW p \in Requests, NEW c \in Challenges, CreateTOTPChallenge(p, c)
      PROVE  TypeOK'
  <2>1. req' \in [Requests -> Request] /\ made' = made
    BY <1>2, IdleType, BecomeType DEF CreateTOTPChallenge
  <2>2. req[p].read.pwd \in Nat /\ req[p].straddled \in BOOLEAN
    BY DEF Request, User
  <2>3. QED
    BY <1>2, <2>1, <2>2 DEF CreateTOTPChallenge, Challenge
<1>3. ASSUME NEW p \in Requests, Decide(p)
      PROVE  TypeOK'
  <2> DEFINE u == req[p].read
  <2> DEFINE r == [req[p] EXCEPT !.step = "session", !.warn = NeedsGrace(u)]
  <2>1. r \in Request
    <3>1. NeedsGrace(u) \in BOOLEAN
      BY DEF NeedsGrace, Request, User
    <3> DEFINE w == NeedsGrace(u)
    <3> HIDE DEF w
    <3>2. [req[p] EXCEPT !.step = "session", !.warn = w] \in Request
      BY <3>1 DEF Request, w
    <3>3. QED
      BY <3>2 DEF w
  <2>2. req' \in [Requests -> Request] /\ made' = made
    <3>1. Become(p, IF Refused(u) THEN Idle ELSE r)
      BY <1>3 DEF Decide
    <3> HIDE DEF r
    <3>2. QED
      BY <2>1, <3>1, IdleType, BecomeType
  <2>3. QED
    BY <1>3, <2>2 DEF Decide
<1>4. ASSUME NEW p \in Requests, CreateSession(p)
      PROVE  TypeOK'
  <2>1. [req[p] EXCEPT !.step = "mark"] \in Request
    BY DEF Request
  <2>2. req' \in [Requests -> Request] /\ made' = made
    BY <1>4, <2>1, IdleType, BecomeType DEF CreateSession
  <2>3. req[p].read.pwd \in Nat /\ req[p].straddled \in BOOLEAN
    BY DEF Request, User
  <2>4. QED
    BY <1>4, <2>2, <2>3 DEF CreateSession, Session
<1>5. ASSUME NEW p \in Requests, MarkTOTPGraceUsed(p)
      PROVE  TypeOK'
  <2>1. req' \in [Requests -> Request] /\ made' = made
    BY <1>5, IdleType, BecomeType DEF MarkTOTPGraceUsed
  <2>2. QED
    BY <1>5, <2>1 DEF MarkTOTPGraceUsed, User
<1>6. ASSUME NEW p \in Requests, NEW c \in Challenges, LoadChallenge(p, c)
      PROVE  TypeOK'
  <2> DEFINE r == [step |-> "verify", read |-> [user EXCEPT !.pwd = chal[c].pwd], chal |-> c,
                   tries |-> chal[c].tries, straddled |-> chal[c].straddled, warn |-> FALSE]
  <2>1. chal[c].tries \in Nat /\ chal[c].pwd \in Nat /\ chal[c].straddled \in BOOLEAN
    BY DEF Challenge
  <2>2. [user EXCEPT !.pwd = chal[c].pwd] \in User
    BY <2>1 DEF User
  <2>3. r \in Request
    BY <2>1, <2>2 DEF Request
  <2>4. Start(p, r)
    BY <1>6 DEF LoadChallenge
  <2> HIDE DEF r
  <2>5. req' \in [Requests -> Request] /\ made' \in 0..MaxRequests
    BY <2>3, <2>4, StartType
  <2>6. QED
    BY <1>6, <2>5 DEF LoadChallenge
<1>7. ASSUME NEW p \in Requests, NEW secret \in Secrets, NEW step \in Steps,
             AcceptCode(p, secret, step)
      PROVE  TypeOK'
  <2>1. [req[p] EXCEPT !.step = "lookup", !.chal = NoChallenge, !.tries = 0] \in Request
    BY DEF Request
  <2>2. req' \in [Requests -> Request] /\ made' = made
    BY <1>7, <2>1, BecomeType DEF AcceptCode
  <2>3. user' \in User /\ policy' = policy /\ sessions' = sessions /\ now' = now
    BY <1>7 DEF AcceptCode, User
  <2>4. chal' \in [Challenges -> Challenge]
    BY <1>7 DEF AcceptCode, NoRow, Challenge
  <2>5. used' \subseteq Secrets \X Steps /\ twice' \in BOOLEAN
    BY <1>7 DEF AcceptCode
  <2>6. QED
    BY <1>7, <2>2, <2>3, <2>4, <2>5 DEF AcceptCode
<1>8. ASSUME NEW p \in Requests, RejectCode(p)
      PROVE  TypeOK'
  <2>1. req' \in [Requests -> Request] /\ made' = made
    BY <1>8, IdleType, BecomeType DEF RejectCode
  <2>2. req[p].tries + 1 \in Nat
    BY DEF Request
  <2>3. \A c \in Challenges : [chal[c] EXCEPT !.tries = req[p].tries + 1] \in Challenge
    BY <2>2 DEF Challenge
  <2>4. chal' \in [Challenges -> Challenge]
    BY <1>8, <2>3 DEF RejectCode, NoRow, Challenge
  <2>5. wrong' \in [Challenges -> Nat]
    <3> DEFINE c == req[p].chal
    <3>1. wrong' = [wrong EXCEPT ![c] = wrong[c] + 1]
      BY <1>8 DEF RejectCode
    <3> HIDE DEF c
    <3>2. CASE c \in Challenges
      <4>1. wrong[c] + 1 \in Nat
        BY <3>2
      <4>2. QED
        BY <3>1, <4>1
    <3>3. CASE c \notin Challenges
      <4>1. wrong' = wrong
        BY <3>1, <3>3
      <4>2. QED
        BY <4>1
    <3>4. QED
      BY <3>2, <3>3
  <2>6. QED
    BY <1>8, <2>1, <2>4, <2>5 DEF RejectCode
<1>9. ASSUME NEW p \in Requests, LookupUser(p)
      PROVE  TypeOK'
  <2>1. [req[p] EXCEPT !.step = "session"] \in Request
    BY DEF Request
  <2>2. req' \in [Requests -> Request] /\ made' = made
    BY <1>9, <2>1, IdleType, BecomeType DEF LookupUser
  <2>3. QED
    BY <1>9, <2>2 DEF LookupUser
<1>10. ASSUME NEW p \in Requests, NEW step \in Steps, ConfirmTOTP(p, step)
       PROVE  TypeOK'
  <2>1. Reading("save") \in Request
    BY ReadingType DEF ReqSteps
  <2>2. req' \in [Requests -> Request] /\ made' \in 0..MaxRequests
    BY <1>10, <2>1, StartType DEF ConfirmTOTP
  <2>3. QED
    BY <1>10, <2>2 DEF ConfirmTOTP
<1>11. ASSUME NEW p \in Requests, NEW secret \in Secrets, SaveTOTP(p, secret)
       PROVE  TypeOK'
  <2>1. req' \in [Requests -> Request] /\ made' = made
    BY <1>11, IdleType, BecomeType DEF SaveTOTP
  <2>2. QED
    BY <1>11, <2>1 DEF SaveTOTP, User
<1>12. ASSUME NEW p \in Requests, Abandon(p)
       PROVE  TypeOK'
  <2>1. req' \in [Requests -> Request] /\ made' = made
    BY <1>12, IdleType, BecomeType DEF Abandon
  <2>2. QED
    BY <1>12, <2>1 DEF Abandon
<1>13. ASSUME NEW c \in Challenges, ExpireChallenge(c)
       PROVE  TypeOK'
  BY <1>13 DEF ExpireChallenge, NoRow, Challenge
<1>14. CASE EndSession
  BY <1>14 DEF EndSession
<1>15. CASE Tick
  BY <1>15 DEF Tick
<1>16. CASE ResetUserPassword
  <2>1. req' \in [Requests -> Request]
    BY <1>16, StraddleType DEF ResetUserPassword
  <2>2. user' \in User
    <3> DEFINE n == user.pwd + 1
    <3>1. user' = [user EXCEPT !.pwd = n, !.secret = NoSecret, !.grace = FALSE]
      BY <1>16 DEF ResetUserPassword
    <3>2. n \in Nat
      BY DEF User
    <3> HIDE DEF n
    <3>3. QED
      BY <3>1, <3>2 DEF User
  <2>3. chal' \in [Challenges -> Challenge]
    BY <1>16 DEF ResetUserPassword, ChallengesAfterReset, NoRow, Challenge
  <2>4. QED
    BY <1>16, <2>1, <2>2, <2>3 DEF ResetUserPassword
<1>17. ASSUME NEW disabled \in BOOLEAN, SetUserDisabled(disabled)
       PROVE  TypeOK'
  <2>1. req' \in [Requests -> Request]
    BY <1>17, StraddleType DEF SetUserDisabled
  <2>2. user' \in User
    BY <1>17 DEF SetUserDisabled, User
  <2>3. sessions' \subseteq Session
    BY <1>17 DEF SetUserDisabled
  <2>4. QED
    BY <1>17, <2>1, <2>2, <2>3 DEF SetUserDisabled
<1>18. ASSUME NEW new \in {"off", "allowed", "forced"}, ChangePolicy(new)
       PROVE  TypeOK'
  BY <1>18 DEF ChangePolicy
<1>19. CASE UNCHANGED vars
  BY <1>19 DEF vars
<1>20. QED
  BY <1>1, <1>2, <1>3, <1>4, <1>5, <1>6, <1>7, <1>8, <1>9, <1>10, <1>11, <1>12, <1>13, <1>14,
     <1>15, <1>16, <1>17, <1>18, <1>19 DEF Next, AdminUsers

-----------------------------------------------------------------------------
(* What the steps have in common.                                          *)

\* A request that is overtaken keeps everything else.
LEMMA StraddleFields ==
    ASSUME TypeOK, Straddle, NEW p \in Requests
    PROVE  /\ Free(p) => req'[p].step = "idle"
           /\ ~Free(p) => /\ req'[p].step = req[p].step /\ req'[p].chal = req[p].chal
                          /\ req'[p].tries = req[p].tries /\ req'[p].straddled = TRUE
                          /\ req'[p].read = req[p].read /\ req'[p].warn = req[p].warn
<1>1. req'[p] = IF Free(p) THEN Idle ELSE [req[p] EXCEPT !.straddled = TRUE]
  BY DEF Straddle
<1>2. QED
  BY <1>1, IdleType DEF TypeOK, Request

\* One request moves on, and not to a challenge; the challenges of the others stay.
LEMMA LockFrame ==
    ASSUME TypeOK, LockHeld, NEW p \in Requests, NEW r \in Request,
           req' = [req EXCEPT ![p] = r], r.step # "verify",
           \A q \in Requests \ {p} : Verifying(q) => chal'[req[q].chal] = chal[req[q].chal]
    PROVE  LockHeld'
<1>1. \A q \in Requests : req'[q] = IF q = p THEN r ELSE req[q]
  BY DEF TypeOK
<1>2. ~Verifying(p)'
  BY <1>1 DEF Verifying
<1>3. \A q \in Requests \ {p} : req'[q] = req[q] /\ Verifying(q)' = Verifying(q)
  BY <1>1 DEF Verifying
<1>4. QED
  BY <1>2, <1>3 DEF LockHeld

LEMMA LoginsFrame ==
    ASSUME TypeOK, LoginsCurrent, NEW p \in Requests, NEW r \in Request,
           req' = [req EXCEPT ![p] = r], Current(r, user),
           user'.pwd = user.pwd, user'.disabled = user.disabled
    PROVE  LoginsCurrent'
<1>1. \A q \in Requests : req'[q] = IF q = p THEN r ELSE req[q]
  BY DEF TypeOK
<1>2. \A q \in Requests : Current(req'[q], user)
  BY <1>1 DEF LoginsCurrent
<1>3. QED
  BY <1>2 DEF LoginsCurrent, Current

LEMMA SessionFrame ==
    ASSUME SessionIsCurrent, sessions' \in {sessions, {}},
           user'.pwd = user.pwd, user'.disabled = user.disabled
    PROVE  SessionIsCurrent'
  BY DEF SessionIsCurrent

LEMMA ChallengesFrame ==
    ASSUME ChallengesCurrent, chal' = chal, user'.pwd = user.pwd
    PROVE  ChallengesCurrent'
  BY DEF ChallengesCurrent

LEMMA TriesFrame ==
    ASSUME TriesCounted, chal' = chal, wrong' = wrong
    PROVE  TriesCounted'
  BY DEF TriesCounted

\* One request moves on, and nothing but the request changes.
LEMMA RequestFrame ==
    ASSUME IInv, TypeOK', NEW p \in Requests, NEW r \in Request,
           req' = [req EXCEPT ![p] = r], r.step # "verify", Current(r, user),
           chal' = chal, wrong' = wrong, sessions' = sessions,
           user'.pwd = user.pwd, user'.disabled = user.disabled
    PROVE  IInv'
  BY LockFrame, LoginsFrame, SessionFrame, ChallengesFrame, TriesFrame DEF IInv

LEMMA IdleCurrent == \A u : Current(Idle, u) /\ Idle.step # "verify"
  BY DEF Current, Idle

-----------------------------------------------------------------------------
(* The steps of requests.                                                  *)

LEMMA PasswordStep ==
    ASSUME IInv, TypeOK', NEW p \in Requests,
           \/ Authenticate(p) \/ Decide(p) \/ CreateSession(p) \/ MarkTOTPGraceUsed(p)
    PROVE  IInv'
<1> USE DEF IInv, data, history
<1>1. CASE Authenticate(p)
  <2> DEFINE r == Reading("decide")
  <2>1. r \in Request
    BY ReadingType DEF ReqSteps
  <2>2. Current(r, user) /\ r.step # "verify"
    BY <1>1 DEF Authenticate, Current, Reading
  <2>3. req' = [req EXCEPT ![p] = r]
    BY <1>1 DEF Authenticate, Start
  <2> HIDE DEF r
  <2>4. QED
    BY <1>1, <2>1, <2>2, <2>3, RequestFrame DEF Authenticate
<1>2. CASE Decide(p)
  <2> DEFINE w == NeedsGrace(req[p].read)
  <2> DEFINE r == IF Refused(req[p].read) THEN Idle
                  ELSE [req[p] EXCEPT !.step = "session", !.warn = w]
  <2>1. req' = [req EXCEPT ![p] = r]
    BY <1>2 DEF Decide, Become
  <2>2. r \in Request
    BY <2>1 DEF TypeOK
  <2>3. Current(req[p], user) /\ req[p].step = "decide"
    BY <1>2 DEF Decide, At, LoginsCurrent
  <2>4. Current(r, user) /\ r.step # "verify"
    <3> HIDE DEF w
    <3>1. QED
      BY <2>3, IdleCurrent DEF Current, TypeOK, Request
  <2> HIDE DEF r
  <2>5. QED
    BY <1>2, <2>1, <2>2, <2>4, RequestFrame DEF Decide
<1>3. CASE CreateSession(p)
  <2> DEFINE r == IF req[p].warn THEN [req[p] EXCEPT !.step = "mark"] ELSE Idle
  <2>1. req' = [req EXCEPT ![p] = r]
    BY <1>3 DEF CreateSession, Become
  <2>2. r \in Request
    BY <2>1 DEF TypeOK
  <2>3. Current(req[p], user) /\ req[p].step = "session"
    BY <1>3 DEF CreateSession, At, LoginsCurrent
  <2>4. Current(r, user) /\ r.step # "verify"
    BY <2>3, IdleCurrent DEF Current, TypeOK, Request
  <2> HIDE DEF r
  <2>5. LockHeld' /\ LoginsCurrent'
    BY <1>3, <2>1, <2>2, <2>4, LockFrame, LoginsFrame DEF CreateSession
  <2>6. ChallengesCurrent' /\ TriesCounted'
    BY <1>3, ChallengesFrame, TriesFrame DEF CreateSession
  <2>7. sessions' = {[pwd |-> req[p].read.pwd, straddled |-> req[p].straddled]} /\ user' = user
    BY <1>3 DEF CreateSession
  <2>8. req[p].straddled \/ (req[p].read.pwd = user.pwd /\ ~user.disabled)
    BY <2>3 DEF Current
  <2>9. SessionIsCurrent'
    BY <2>7, <2>8 DEF SessionIsCurrent
  <2>10. QED
    BY <2>5, <2>6, <2>9
<1>4. CASE MarkTOTPGraceUsed(p)
  <2>1. user'.pwd = user.pwd /\ user'.disabled = user.disabled
    BY <1>4 DEF MarkTOTPGraceUsed, TypeOK, User
  <2>2. req' = [req EXCEPT ![p] = Idle]
    BY <1>4 DEF MarkTOTPGraceUsed, Become
  <2>3. QED
    BY <1>4, <2>1, <2>2, IdleType, IdleCurrent, RequestFrame DEF MarkTOTPGraceUsed
<1>5. QED
  BY <1>1, <1>2, <1>3, <1>4

LEMMA ChallengeStep ==
    ASSUME IInv, TypeOK', NEW p \in Requests, NEW c \in Challenges,
           CreateTOTPChallenge(p, c) \/ LoadChallenge(p, c)
    PROVE  IInv'
<1> USE DEF IInv, data, history
<1>1. CASE CreateTOTPChallenge(p, c)
  <2> DEFINE new == [row |-> TRUE, pwd |-> req[p].read.pwd, tries |-> 0,
                     straddled |-> req[p].straddled]
  <2>1. /\ chal' = [chal EXCEPT ![c] = new] /\ wrong' = [wrong EXCEPT ![c] = 0]
        /\ user' = user /\ sessions' = sessions /\ req' = [req EXCEPT ![p] = Idle]
        /\ ~chal[c].row /\ req[p].step = "decide"
    BY <1>1 DEF CreateTOTPChallenge, Become, At
  <2>2. new.row /\ new.tries = 0 /\ (new.straddled \/ new.pwd = user.pwd)
    BY <2>1 DEF LoginsCurrent, Current
  <2> HIDE DEF new
  <2>3. \A d \in Challenges : /\ chal'[d] = IF d = c THEN new ELSE chal[d]
                              /\ wrong'[d] = IF d = c THEN 0 ELSE wrong[d]
    BY <2>1 DEF TypeOK
  <2>4. LockHeld'
    <3>1. \A q \in Requests : Verifying(q) => req[q].chal \in Challenges /\ req[q].chal # c
      BY <2>1 DEF LockHeld
    <3>2. \A q \in Requests \ {p} : Verifying(q) => chal'[req[q].chal] = chal[req[q].chal]
      BY <2>3, <3>1
    <3>3. Idle.step # "verify"
      BY DEF Idle
    <3>4. QED
      BY <2>1, <3>2, <3>3, IdleType, LockFrame
  <2>5. LoginsCurrent'
    BY <2>1, IdleType, IdleCurrent, LoginsFrame
  <2>6. ChallengesCurrent'
    BY <2>1, <2>2, <2>3 DEF ChallengesCurrent
  <2>7. TriesCounted'
    BY <2>2, <2>3, LoginAssumption DEF TriesCounted
  <2>8. QED
    BY <2>1, <2>4, <2>5, <2>6, <2>7, SessionFrame
<1>2. CASE LoadChallenge(p, c)
  <2> DEFINE r == [step |-> "verify", read |-> [user EXCEPT !.pwd = chal[c].pwd], chal |-> c,
                   tries |-> chal[c].tries, straddled |-> chal[c].straddled, warn |-> FALSE]
  <2>1. /\ req' = [req EXCEPT ![p] = r] /\ chal[c].row /\ ~Locked(c)
        /\ chal' = chal /\ user' = user /\ sessions' = sessions /\ wrong' = wrong
    BY <1>2 DEF LoadChallenge, Start
  <2>2. r \in Request
    BY <2>1 DEF TypeOK
  <2>3. r.step = "verify" /\ r.chal = c /\ r.tries = chal[c].tries
    OBVIOUS
  <2>4. Current(r, user)
    <3>1. r.read.pwd = chal[c].pwd /\ r.straddled = chal[c].straddled
      BY DEF TypeOK, User
    <3>2. QED
      BY <2>1, <2>3, <3>1 DEF Current, ChallengesCurrent
  <2> HIDE DEF r
  <2>5. \A q \in Requests : req'[q] = IF q = p THEN r ELSE req[q]
    BY <2>1 DEF TypeOK
  <2>6. \A q \in Requests : Verifying(q) => req[q].chal # c
    BY <2>1 DEF Locked, At, Verifying
  <2>7. LockHeld'
    <3> SUFFICES ASSUME NEW q \in Requests, Verifying(q)'
                 PROVE  /\ req'[q].chal \in Challenges
                        /\ chal'[req'[q].chal].row
                        /\ req'[q].tries = chal'[req'[q].chal].tries
                        /\ \A s \in Requests :
                             Verifying(s)' /\ req'[s].chal = req'[q].chal => s = q
      BY DEF LockHeld
    <3>1. CASE q = p
      BY <2>1, <2>3, <2>5, <2>6, <3>1 DEF Verifying
    <3>2. CASE q # p
      <4>1. Verifying(q) /\ req'[q] = req[q]
        BY <2>5, <3>2 DEF Verifying
      <4>2. QED
        BY <2>1, <2>3, <2>5, <2>6, <4>1 DEF LockHeld, Verifying
    <3>3. QED
      BY <3>1, <3>2
  <2>8. LoginsCurrent'
    BY <2>1, <2>2, <2>4, LoginsFrame
  <2>9. QED
    BY <2>1, <2>7, <2>8, SessionFrame, ChallengesFrame, TriesFrame
<1>3. QED
  BY <1>1, <1>2

LEMMA CodeStep ==
    ASSUME IInv, TypeOK', NEW p \in Requests,
           \/ \E secret \in Secrets, step \in Steps : AcceptCode(p, secret, step)
           \/ RejectCode(p) \/ LookupUser(p)
    PROVE  IInv'
<1> USE DEF IInv, data, history
<1>0. Current(req[p], user)
  BY DEF LoginsCurrent
<1>1. ASSUME NEW secret \in Secrets, NEW step \in Steps, AcceptCode(p, secret, step)
      PROVE  IInv'
  <2> DEFINE r == [req[p] EXCEPT !.step = "lookup", !.chal = NoChallenge, !.tries = 0]
  <2> DEFINE c == req[p].chal
  <2>1. /\ req' = [req EXCEPT ![p] = r] /\ chal' = [chal EXCEPT ![c] = NoRow]
        /\ user' = [user EXCEPT !.last = step] /\ sessions' = sessions /\ wrong' = wrong
        /\ Verifying(p)
    BY <1>1 DEF AcceptCode, Become, At, Verifying
  <2>2. user'.pwd = user.pwd /\ user'.disabled = user.disabled
    BY <2>1 DEF TypeOK, User
  <2>3. r \in Request
    BY <2>1 DEF TypeOK
  <2>4. Current(r, user) /\ r.step # "verify"
    BY <1>0, <2>1 DEF Current, Verifying, TypeOK, Request
  <2> HIDE DEF r
  <2>5. \A d \in Challenges : chal'[d] = IF d = c THEN NoRow ELSE chal[d]
    BY <2>1 DEF TypeOK
  <2>6. LockHeld'
    <3>1. \A q \in Requests \ {p} : Verifying(q) => req[q].chal \in Challenges \ {c}
      BY <2>1 DEF LockHeld
    <3>2. \A q \in Requests \ {p} : Verifying(q) => chal'[req[q].chal] = chal[req[q].chal]
      BY <2>5, <3>1
    <3>3. QED
      BY <2>1, <2>3, <2>4, <3>2, LockFrame
  <2>7. LoginsCurrent'
    BY <2>1, <2>2, <2>3, <2>4, LoginsFrame
  <2>8. ChallengesCurrent' /\ TriesCounted'
    BY <2>1, <2>2, <2>5 DEF ChallengesCurrent, TriesCounted, NoRow
  <2>9. QED
    BY <2>1, <2>2, <2>6, <2>7, <2>8, SessionFrame
<1>2. CASE RejectCode(p)
  <2> DEFINE c == req[p].chal
  <2> DEFINE n == req[p].tries + 1
  <2>1. /\ Verifying(p) /\ req' = [req EXCEPT ![p] = Idle]
        /\ wrong' = [wrong EXCEPT ![c] = wrong[c] + 1]
        /\ chal' = [chal EXCEPT ![c] = IF n >= MaxAttempts THEN NoRow
                                       ELSE IF chal[c].row THEN [chal[c] EXCEPT !.tries = n]
                                       ELSE chal[c]]
        /\ user' = user /\ sessions' = sessions
    BY <1>2 DEF RejectCode, Become, At, Verifying
  <2>2. c \in Challenges /\ chal[c].row /\ n = chal[c].tries + 1
    BY <2>1 DEF LockHeld
  <2>3. n = wrong[c] + 1 /\ n <= MaxAttempts /\ n \in Nat
    <3>1. wrong[c] = chal[c].tries /\ wrong[c] < MaxAttempts /\ wrong[c] \in Nat
      BY <2>2 DEF TriesCounted, TypeOK
    <3>2. QED
      BY <2>2, <3>1, LoginAssumption
  <2> HIDE DEF n
  <2>4. \A d \in Challenges \ {c} : chal'[d] = chal[d] /\ wrong'[d] = wrong[d]
    BY <2>1 DEF TypeOK
  <2>5. wrong'[c] = n
    BY <2>1, <2>2, <2>3 DEF TypeOK
  <2>6. chal'[c] = IF n >= MaxAttempts THEN NoRow ELSE [chal[c] EXCEPT !.tries = n]
    BY <2>1, <2>2 DEF TypeOK
  <2>7. chal'[c].row => /\ n < MaxAttempts /\ chal'[c].tries = n
                        /\ chal'[c].pwd = chal[c].pwd /\ chal'[c].straddled = chal[c].straddled
    <3>1. chal[c] \in Challenge
      BY <2>2 DEF TypeOK
    <3> DEFINE counted == [chal[c] EXCEPT !.tries = n]
    <3>2. counted.tries = n /\ counted.pwd = chal[c].pwd /\ counted.straddled = chal[c].straddled
      BY <3>1 DEF Challenge
    <3>3. ~NoRow.row
      BY DEF NoRow
    <3>4. CASE n >= MaxAttempts
      BY <2>6, <3>3, <3>4
    <3>5. CASE ~(n >= MaxAttempts)
      <4>1. n < MaxAttempts
        BY <2>3, <3>5, LoginAssumption
      <4>2. QED
        BY <2>6, <3>2, <3>5, <4>1
    <3>6. QED
      BY <3>4, <3>5
  <2> HIDE DEF c
  <2>8. TriesCounted'
    BY <2>2, <2>3, <2>4, <2>5, <2>7 DEF TriesCounted
  <2>9. ChallengesCurrent'
    BY <2>1, <2>2, <2>4, <2>7 DEF ChallengesCurrent
  <2>10. LockHeld'
    <3>1. \A q \in Requests \ {p} : Verifying(q) => req[q].chal \in Challenges \ {c}
      BY <2>1 DEF LockHeld, c
    <3>2. QED
      BY <2>1, <2>4, <3>1, IdleType, LockFrame
  <2>11. LoginsCurrent'
    BY <2>1, IdleType, IdleCurrent, LoginsFrame
  <2>12. QED
    BY <2>1, <2>8, <2>9, <2>10, <2>11, SessionFrame
<1>3. CASE LookupUser(p)
  <2> DEFINE r == IF ~user.disabled /\ policy # "off"
                  THEN [req[p] EXCEPT !.step = "session"] ELSE Idle
  <2>1. req' = [req EXCEPT ![p] = r] /\ req[p].step = "lookup"
    BY <1>3 DEF LookupUser, Become, At
  <2>2. r \in Request
    BY <2>1 DEF TypeOK
  <2>3. Current(r, user) /\ r.step # "verify"
    BY <1>0, <2>1, IdleCurrent DEF Current, TypeOK, Request
  <2> HIDE DEF r
  <2>4. QED
    BY <1>3, <2>1, <2>2, <2>3, RequestFrame DEF LookupUser
<1>4. QED
  BY <1>1, <1>2, <1>3

LEMMA OtherStep ==
    ASSUME IInv, TypeOK', NEW p \in Requests,
           \/ \E step \in Steps : ConfirmTOTP(p, step)
           \/ \E secret \in Secrets : SaveTOTP(p, secret)
           \/ Abandon(p)
    PROVE  IInv'
<1> USE DEF IInv, data, history
<1>1. ASSUME NEW step \in Steps, ConfirmTOTP(p, step)
      PROVE  IInv'
  <2> DEFINE r == Reading("save")
  <2>1. r \in Request
    BY ReadingType DEF ReqSteps
  <2>2. Current(r, user) /\ r.step # "verify"
    BY DEF Current, Reading
  <2>3. req' = [req EXCEPT ![p] = r]
    BY <1>1 DEF ConfirmTOTP, Start
  <2> HIDE DEF r
  <2>4. QED
    BY <1>1, <2>1, <2>2, <2>3, RequestFrame DEF ConfirmTOTP
<1>2. ASSUME NEW secret \in Secrets, SaveTOTP(p, secret)
      PROVE  IInv'
  <2>1. user'.pwd = user.pwd /\ user'.disabled = user.disabled
    BY <1>2 DEF SaveTOTP, TypeOK, User
  <2>2. req' = [req EXCEPT ![p] = Idle]
    BY <1>2 DEF SaveTOTP, Become
  <2>3. QED
    BY <1>2, <2>1, <2>2, IdleType, IdleCurrent, RequestFrame DEF SaveTOTP
<1>3. CASE Abandon(p)
  <2>1. req' = [req EXCEPT ![p] = Idle]
    BY <1>3 DEF Abandon, Become
  <2>2. QED
    BY <1>3, <2>1, IdleType, IdleCurrent, RequestFrame DEF Abandon
<1>4. QED
  BY <1>1, <1>2, <1>3

-----------------------------------------------------------------------------
(* The other steps.                                                        *)

LEMMA AdminStep ==
    ASSUME IInv, TypeOK', AdminUsers
    PROVE  IInv'
<1> USE DEF IInv, data, history
<1>1. CASE ResetUserPassword
  <2>1. /\ Straddle /\ sessions' = {} /\ chal' = [c \in Challenges |-> NoRow] /\ wrong' = wrong
        /\ \A c \in Challenges : ~Locked(c)
    BY <1>1 DEF ResetUserPassword, ChallengesAfterReset
  <2>2. \A p \in Requests : ~Verifying(p)
    BY <2>1 DEF LockHeld, Locked, At, Verifying
  <2>3. LockHeld'
    BY <2>1, <2>2, StraddleFields DEF LockHeld, Verifying, Free
  <2>4. LoginsCurrent'
    BY <2>1, StraddleFields DEF LoginsCurrent, Current
  <2>5. TriesCounted' /\ ChallengesCurrent' /\ SessionIsCurrent'
    BY <2>1 DEF TriesCounted, ChallengesCurrent, SessionIsCurrent, NoRow
  <2>6. QED
    BY <2>3, <2>4, <2>5
<1>2. ASSUME NEW disabled \in BOOLEAN, SetUserDisabled(disabled)
      PROVE  IInv'
  <2>1. user' = [user EXCEPT !.disabled = disabled] /\ chal' = chal /\ wrong' = wrong
    BY <1>2 DEF SetUserDisabled
  <2>2. user'.pwd = user.pwd /\ user'.disabled = disabled
    BY <2>1 DEF TypeOK, User
  <2>3. ChallengesCurrent' /\ TriesCounted'
    BY <2>1, <2>2, ChallengesFrame, TriesFrame
  <2>4. CASE disabled
    <3>1. Straddle /\ sessions' = {}
      BY <1>2, <2>4 DEF SetUserDisabled
    <3>2. LockHeld'
      <4>1. \A p \in Requests : Verifying(p)' = Verifying(p)
        BY <3>1, StraddleFields DEF Verifying, Free
      <4>2. \A p \in Requests :
              Verifying(p) => req'[p].chal = req[p].chal /\ req'[p].tries = req[p].tries
        BY <3>1, StraddleFields DEF Verifying, Free
      <4>3. QED
        BY <2>1, <4>1, <4>2 DEF LockHeld
    <3>3. LoginsCurrent'
      BY <3>1, StraddleFields DEF LoginsCurrent, Current
    <3>4. SessionIsCurrent'
      BY <3>1 DEF SessionIsCurrent
    <3>5. QED
      BY <2>3, <3>2, <3>3, <3>4
  <2>5. CASE ~disabled
    <3>1. req' = req /\ sessions' = sessions
      BY <1>2, <2>5 DEF SetUserDisabled
    <3>2. LockHeld'
      BY <2>1, <3>1 DEF LockHeld, Verifying
    <3>3. LoginsCurrent' /\ SessionIsCurrent'
      BY <2>2, <2>5, <3>1 DEF LoginsCurrent, Current, SessionIsCurrent
    <3>4. QED
      BY <2>3, <3>2, <3>3
  <2>6. QED
    BY <2>4, <2>5
<1>3. QED
  BY <1>1, <1>2 DEF AdminUsers

LEMMA QuietStep ==
    ASSUME IInv, TypeOK',
           \/ \E c \in Challenges : ExpireChallenge(c)
           \/ EndSession \/ Tick
           \/ \E new \in {"off", "allowed", "forced"} : ChangePolicy(new)
           \/ UNCHANGED vars
    PROVE  IInv'
<1> USE DEF IInv, data, history
<1>1. ASSUME NEW c \in Challenges, ExpireChallenge(c)
      PROVE  IInv'
  <2>1. /\ ~Locked(c) /\ chal' = [chal EXCEPT ![c] = NoRow]
        /\ user' = user /\ sessions' = sessions /\ req' = req /\ wrong' = wrong
    BY <1>1 DEF ExpireChallenge
  <2>2. \A d \in Challenges : chal'[d] = IF d = c THEN NoRow ELSE chal[d]
    BY <2>1 DEF TypeOK
  <2>3. \A p \in Requests : Verifying(p) => req[p].chal # c
    BY <2>1 DEF Locked, At, Verifying
  <2>4. LockHeld'
    BY <2>1, <2>2, <2>3 DEF LockHeld, Verifying
  <2>5. LoginsCurrent' /\ SessionIsCurrent'
    BY <2>1 DEF LoginsCurrent, Current, SessionIsCurrent
  <2>6. TriesCounted' /\ ChallengesCurrent'
    BY <2>1, <2>2 DEF TriesCounted, ChallengesCurrent, NoRow
  <2>7. QED
    BY <2>4, <2>5, <2>6
<1>2. ASSUME user' = user, chal' = chal, req' = req, wrong' = wrong, sessions' \in {sessions, {}}
      PROVE  IInv'
  <2>1. LockHeld' /\ LoginsCurrent'
    BY <1>2 DEF LockHeld, Verifying, LoginsCurrent, Current
  <2>2. QED
    BY <1>2, <2>1, SessionFrame, ChallengesFrame, TriesFrame
<1>3. QED
  BY <1>1, <1>2 DEF EndSession, Tick, ChangePolicy, vars

LEMMA InitInvariant == Init => IInv
<1> SUFFICES ASSUME Init
             PROVE  IInv
  OBVIOUS
<1>1. user \in User
  <2>1. PICK s \in Secrets \cup {NoSecret} : user = [NewUser EXCEPT !.secret = s]
    BY DEF Init
  <2>2. user = [disabled |-> FALSE, pwd |-> 0, secret |-> s, grace |-> FALSE, last |-> 0]
    BY <2>1 DEF NewUser
  <2>3. 0 \in Nat /\ 0 \in Steps
    BY LoginAssumption DEF Steps
  <2>4. QED
    BY <2>2, <2>3 DEF User
<1>2. TypeOK
  <2>1. NoRow \in Challenge
    BY DEF NoRow, Challenge
  <2>2. chal \in [Challenges -> Challenge] /\ req \in [Requests -> Request]
    BY <2>1, IdleType DEF Init
  <2>3. /\ now \in 1..MaxNow /\ made \in 0..MaxRequests /\ wrong \in [Challenges -> Nat]
        /\ graced \in Nat /\ unmarked \in Nat
    BY LoginAssumption DEF Init
  <2>4. /\ sessions \subseteq Session /\ used \subseteq Secrets \X Steps
        /\ raced \subseteq {"code", "grace"} /\ twice \in BOOLEAN
        /\ policy \in {"off", "allowed", "forced"}
    BY DEF Init
  <2>5. QED
    BY <1>1, <2>2, <2>3, <2>4 DEF TypeOK
<1>3. LockHeld /\ LoginsCurrent
  BY IdleType, IdleCurrent DEF Init, LockHeld, Verifying, LoginsCurrent
<1>4. TriesCounted /\ ChallengesCurrent /\ SessionIsCurrent
  BY LoginAssumption DEF Init, TriesCounted, ChallengesCurrent, SessionIsCurrent, NoRow
<1>5. QED
  BY <1>2, <1>3, <1>4 DEF IInv

LEMMA InvariantStep == IInv /\ [Next]_vars => IInv'
<1> SUFFICES ASSUME IInv, [Next]_vars
             PROVE  IInv'
  OBVIOUS
<1>1. TypeOK'
  BY TypeStep DEF IInv
<1>2. QED
  BY <1>1, PasswordStep, ChallengeStep, CodeStep, OtherStep, AdminStep, QuietStep DEF Next

-----------------------------------------------------------------------------
(* Codes and the grace are used once.                                       *)

\* While no two challenges were verified at once, the verifying request knows the
\* last step, and no code that was accepted is later than it.
CodesInOrder ==
    "code" \notin raced =>
        /\ ~twice
        /\ \A p, q \in Requests : Verifying(p) /\ Verifying(q) => p = q
        /\ \A p \in Requests : Verifying(p) => req[p].read.last = user.last
        /\ \A code \in used : code[2] <= user.last

\* A login that has not decided, or that will be let in without the token, or
\* was and has yet to say so.
Pending(r) == r.step \in {"decide", "mark"} \/ (r.step = "session" /\ r.warn)

\* It may still be let in without the token.
Hopeful(r) == (r.step = "decide" /\ ~r.read.grace) \/ (r.step = "session" /\ r.warn)

Marking(r) == r.step = "mark"

\* While no two logins were under way at once, a login is let in without the
\* token only when none was before it, but for those whose mark was lost.
GraceInOrder ==
    /\ \A p \in Requests : req[p].step \in {"verify", "lookup"} => ~req[p].warn
    /\ "grace" \notin raced =>
        /\ \A p, q \in Requests : Pending(req[p]) /\ Pending(req[q]) => p = q
        /\ graced <= unmarked + 1
        /\ user.grace \/ (\E p \in Requests : Marking(req[p])) \/ graced <= unmarked
        /\ \A p \in Requests : Hopeful(req[p]) => graced <= unmarked

LEMMA OneMoves ==
    ASSUME TypeOK, NEW p \in Requests, NEW r, req' = [req EXCEPT ![p] = r]
    PROVE  \A q \in Requests : req'[q] = IF q = p THEN r ELSE req[q]
  BY DEF TypeOK

\* One request moves on, and not to a challenge.
LEMMA CodesFrame ==
    ASSUME TypeOK, CodesInOrder, NEW p \in Requests, NEW r,
           req' = [req EXCEPT ![p] = r], r.step # "verify",
           user'.last = user.last, used' = used, twice' = twice, raced \subseteq raced'
    PROVE  CodesInOrder'
<1>1. \A q \in Requests : req'[q] = IF q = p THEN r ELSE req[q]
  BY OneMoves
<1>2. \A q \in Requests : Verifying(q)' => Verifying(q) /\ req'[q] = req[q]
  BY <1>1 DEF Verifying
<1>3. QED
  BY <1>2 DEF CodesInOrder

\* One request moves on, not to a login without the token, and no grace is lost.
LEMMA GraceFrame ==
    ASSUME TypeOK, GraceInOrder, NEW p \in Requests, NEW r,
           req' = [req EXCEPT ![p] = r],
           Pending(r) => Pending(req[p]), Hopeful(r) => Hopeful(req[p]),
           ~Marking(req[p]), r.step \in {"verify", "lookup"} => ~r.warn,
           user.grace => user'.grace, graced' = graced, unmarked' = unmarked,
           raced \subseteq raced'
    PROVE  GraceInOrder'
<1>1. \A q \in Requests : req'[q] = IF q = p THEN r ELSE req[q]
  BY OneMoves
<1>2. \A q \in Requests : /\ Pending(req'[q]) => Pending(req[q])
                          /\ Hopeful(req'[q]) => Hopeful(req[q])
                          /\ Marking(req[q]) => Marking(req'[q])
                          /\ req'[q].step \in {"verify", "lookup"} => ~req'[q].warn
  BY <1>1 DEF GraceInOrder
<1>3. QED
  BY <1>2 DEF GraceInOrder

LEMMA IdleWaits == ~Pending(Idle) /\ ~Hopeful(Idle) /\ Idle.step = "idle"
  BY DEF Pending, Hopeful, Idle

\* The step that accepts a code is later than all that were accepted.
LEMMA CodesStep == TypeOK /\ CodesInOrder /\ [Next]_vars => CodesInOrder'
<1> SUFFICES ASSUME TypeOK, CodesInOrder, [Next]_vars
             PROVE  CodesInOrder'
  OBVIOUS
<1> USE DEF data, history
<1>1. ASSUME NEW p \in Requests,
             \/ Authenticate(p) \/ Decide(p) \/ CreateSession(p) \/ MarkTOTPGraceUsed(p)
             \/ RejectCode(p) \/ LookupUser(p) \/ Abandon(p)
             \/ \E c \in Challenges : CreateTOTPChallenge(p, c)
             \/ \E step \in Steps : ConfirmTOTP(p, step)
             \/ \E secret \in Secrets : SaveTOTP(p, secret)
      PROVE  CodesInOrder'
  <2>1. user'.last = user.last
    BY <1>1 DEF Authenticate, Decide, CreateSession, MarkTOTPGraceUsed, RejectCode, LookupUser,
                Abandon, CreateTOTPChallenge, ConfirmTOTP, SaveTOTP, TypeOK, User
  <2>2. used' = used /\ twice' = twice /\ raced \subseteq raced'
    BY <1>1 DEF Authenticate, Decide, CreateSession, MarkTOTPGraceUsed, RejectCode, LookupUser,
                Abandon, CreateTOTPChallenge, ConfirmTOTP, SaveTOTP
  <2>3. \E r : req' = [req EXCEPT ![p] = r] /\ r.step # "verify"
    <3>1. CASE Authenticate(p)
      <4>1. Reading("decide").step # "verify"
        BY DEF Reading
      <4>2. QED
        BY <3>1, <4>1 DEF Authenticate, Start
    <3>2. CASE Decide(p)
      <4> DEFINE w == NeedsGrace(req[p].read)
      <4> DEFINE r == [req[p] EXCEPT !.step = "session", !.warn = w]
      <4>1. r.step # "verify" /\ Idle.step # "verify"
        <5> HIDE DEF w
        <5>1. QED
          BY DEF Idle, TypeOK, Request
      <4>2. Become(p, IF Refused(req[p].read) THEN Idle ELSE r)
        BY <3>2 DEF Decide
      <4> HIDE DEF r
      <4>3. QED
        BY <4>1, <4>2 DEF Become
    <3>3. CASE CreateSession(p)
      <4> DEFINE r == [req[p] EXCEPT !.step = "mark"]
      <4>1. r.step # "verify" /\ Idle.step # "verify"
        BY DEF Idle, TypeOK, Request
      <4>2. Become(p, IF req[p].warn THEN r ELSE Idle)
        BY <3>3 DEF CreateSession
      <4> HIDE DEF r
      <4>3. QED
        BY <4>1, <4>2 DEF Become
    <3>4. CASE LookupUser(p)
      <4> DEFINE r == [req[p] EXCEPT !.step = "session"]
      <4>1. r.step # "verify" /\ Idle.step # "verify"
        BY DEF Idle, TypeOK, Request
      <4>2. Become(p, IF ~user.disabled /\ policy # "off" THEN r ELSE Idle)
        BY <3>4 DEF LookupUser
      <4> HIDE DEF r
      <4>3. QED
        BY <4>1, <4>2 DEF Become
    <3>5. CASE \E step \in Steps : ConfirmTOTP(p, step)
      <4>1. Reading("save").step # "verify"
        BY DEF Reading
      <4>2. QED
        BY <3>5, <4>1 DEF ConfirmTOTP, Start
    <3>6. CASE \/ MarkTOTPGraceUsed(p) \/ RejectCode(p) \/ Abandon(p)
               \/ \E c \in Challenges : CreateTOTPChallenge(p, c)
               \/ \E secret \in Secrets : SaveTOTP(p, secret)
      <4>1. Idle.step # "verify"
        BY DEF Idle
      <4>2. req' = [req EXCEPT ![p] = Idle]
        BY <3>6 DEF MarkTOTPGraceUsed, RejectCode, Abandon, CreateTOTPChallenge, SaveTOTP, Become
      <4>3. QED
        BY <4>1, <4>2
    <3>7. QED
      BY <1>1, <3>1, <3>2, <3>3, <3>4, <3>5, <3>6
  <2>4. PICK r : req' = [req EXCEPT ![p] = r] /\ r.step # "verify"
    BY <2>3
  <2>5. QED
    BY <2>1, <2>2, <2>4, CodesFrame
<1>2. ASSUME NEW p \in Requests, NEW c \in Challenges, LoadChallenge(p, c)
      PROVE  CodesInOrder'
  <2> DEFINE r == [step |-> "verify", read |-> [user EXCEPT !.pwd = chal[c].pwd], chal |-> c,
                   tries |-> chal[c].tries, straddled |-> chal[c].straddled, warn |-> FALSE]
  <2>1. req' = [req EXCEPT ![p] = r] /\ user' = user /\ used' = used /\ twice' = twice
    BY <1>2 DEF LoadChallenge, Start
  <2>2. r.read.last = user.last
    BY DEF TypeOK, User
  <2>3. /\ raced \subseteq raced'
        /\ "code" \notin raced' => \A q \in Requests : ~Verifying(q)
    BY <1>2 DEF LoadChallenge, At, Verifying
  <2> HIDE DEF r
  <2>4. \A q \in Requests : req'[q] = IF q = p THEN r ELSE req[q]
    BY <2>1, OneMoves
  <2>5. "code" \notin raced' => \A q \in Requests : Verifying(q)' => q = p
    BY <2>3, <2>4 DEF Verifying
  <2>6. QED
    BY <2>1, <2>2, <2>3, <2>4, <2>5 DEF CodesInOrder
<1>3. ASSUME NEW p \in Requests, NEW secret \in Secrets, NEW step \in Steps,
             AcceptCode(p, secret, step)
      PROVE  CodesInOrder'
  <2> DEFINE r == [req[p] EXCEPT !.step = "lookup", !.chal = NoChallenge, !.tries = 0]
  <2> DEFINE code == <<secret, step>>
  <2>1. /\ req' = [req EXCEPT ![p] = r] /\ user' = [user EXCEPT !.last = step]
        /\ used' = used \cup {code} /\ twice' = (twice \/ code \in used)
        /\ raced' = raced /\ Verifying(p) /\ step > req[p].read.last
    BY <1>3 DEF AcceptCode, Become, At, Verifying, Accepted
  <2>2. r.step # "verify"
    BY DEF TypeOK, Request
  <2>3. user'.last = step /\ code[2] = step
    BY <2>1 DEF TypeOK, User
  <2> HIDE DEF r, code
  <2>4. \A q \in Requests : Verifying(q)' => Verifying(q) /\ q # p
    <3>1. \A q \in Requests : req'[q] = IF q = p THEN r ELSE req[q]
      BY <2>1, OneMoves
    <3>2. QED
      BY <2>2, <3>1 DEF Verifying
  <2>5. CASE "code" \notin raced
    <3>1. user.last < step
      BY <2>1, <2>5 DEF CodesInOrder
    <3>2. /\ step \in Int /\ user.last \in Int
          /\ \A u \in used : u[2] \in Int
      BY DEF TypeOK, User, Steps
    <3>3. \A u \in used : u[2] < step
      BY <2>5, <3>1, <3>2 DEF CodesInOrder
    <3>4. code \notin used /\ ~twice
      BY <2>3, <2>5, <3>2, <3>3 DEF CodesInOrder
    <3>5. \A u \in used' : u[2] <= user'.last
      BY <2>1, <2>3, <3>2, <3>3
    <3>6. \A q \in Requests : ~Verifying(q)'
      BY <2>1, <2>4, <2>5 DEF CodesInOrder
    <3>7. QED
      BY <2>1, <3>4, <3>5, <3>6 DEF CodesInOrder
  <2>6. QED
    BY <2>1, <2>5 DEF CodesInOrder
<1>4. CASE AdminUsers
  <2>1. user'.last = user.last /\ UNCHANGED <<used, twice, raced>>
    BY <1>4 DEF AdminUsers, ResetUserPassword, SetUserDisabled, TypeOK, User
  <2>2. Straddle \/ req' = req
    BY <1>4 DEF AdminUsers, ResetUserPassword, SetUserDisabled
  <2>3. \A p \in Requests : Verifying(p)' => Verifying(p) /\ req'[p].read = req[p].read
    BY <2>2, StraddleFields DEF Verifying, Free
  <2>4. QED
    BY <2>1, <2>3 DEF CodesInOrder
<1>5. CASE \/ \E c \in Challenges : ExpireChallenge(c)
           \/ EndSession \/ Tick
           \/ \E new \in {"off", "allowed", "forced"} : ChangePolicy(new)
           \/ UNCHANGED vars
  <2>1. UNCHANGED <<req, used, twice, raced>> /\ user' = user
    BY <1>5 DEF ExpireChallenge, EndSession, Tick, ChangePolicy, vars
  <2>2. QED
    BY <2>1 DEF CodesInOrder, Verifying
<1>6. QED
  BY <1>1, <1>2, <1>3, <1>4, <1>5 DEF Next

\* A login let in without the token leaves its mark before another can ask.
LEMMA GraceStep == TypeOK /\ GraceInOrder /\ [Next]_vars => GraceInOrder'
<1> SUFFICES ASSUME TypeOK, GraceInOrder, [Next]_vars
             PROVE  GraceInOrder'
  OBVIOUS
<1> USE DEF data, history
<1>0. graced \in Nat /\ unmarked \in Nat
  BY DEF TypeOK
<1>1. ASSUME NEW p \in Requests, Authenticate(p)
      PROVE  GraceInOrder'
  <2> DEFINE r == Reading("decide")
  <2>1. /\ req' = [req EXCEPT ![p] = r] /\ raced \subseteq raced'
        /\ user' = user /\ graced' = graced /\ unmarked' = unmarked
        /\ Free(p)
    BY <1>1 DEF Authenticate, Start
  <2>2. "grace" \notin raced' =>
            \A q \in Requests : ~Pending(req[q]) /\ ~Marking(req[q])
    BY <1>1 DEF Authenticate, Pending, Marking
  <2>3. r.read = user /\ r.step = "decide"
    BY DEF Reading
  <2> HIDE DEF r
  <2>4. \A q \in Requests : req'[q] = IF q = p THEN r ELSE req[q]
    BY <2>1, OneMoves
  <2>5. \A q \in Requests : req'[q].step \in {"verify", "lookup"} => ~req'[q].warn
    BY <2>3, <2>4 DEF GraceInOrder
  <2>6. CASE "grace" \notin raced'
    <3>1. user.grace \/ graced <= unmarked
      BY <2>1, <2>2, <2>6 DEF GraceInOrder
    <3>2. \A q \in Requests : (Pending(req'[q]) => q = p) /\ (Hopeful(req'[q]) => q = p)
      BY <2>2, <2>4, <2>6 DEF Pending, Hopeful
    <3>3. Hopeful(req'[p]) => ~user.grace
      BY <2>3, <2>4 DEF Hopeful
    <3>4. graced <= unmarked + 1
      BY <2>1, <2>6 DEF GraceInOrder
    <3>5. QED
      BY <2>1, <2>5, <3>1, <3>2, <3>3, <3>4 DEF GraceInOrder
  <2>7. QED
    BY <2>5, <2>6 DEF GraceInOrder
<1>2. ASSUME NEW p \in Requests, NEW c \in Challenges, CreateTOTPChallenge(p, c)
      PROVE  GraceInOrder'
  <2>1. req' = [req EXCEPT ![p] = Idle] /\ req[p].step = "decide"
    BY <1>2 DEF CreateTOTPChallenge, Become, At
  <2>2. QED
    BY <1>2, <2>1, IdleWaits, GraceFrame DEF CreateTOTPChallenge, Marking
<1>3. ASSUME NEW p \in Requests, Decide(p)
      PROVE  GraceInOrder'
  <2> DEFINE w == NeedsGrace(req[p].read)
  <2> DEFINE s == [req[p] EXCEPT !.step = "session", !.warn = w]
  <2>1. /\ req[p].step = "decide"
        /\ req' = [req EXCEPT ![p] = IF Refused(req[p].read) THEN Idle ELSE s]
    BY <1>3 DEF Decide, At, Become
  <2>2. w => ~req[p].read.grace
    BY DEF NeedsGrace
  <2>3. s.step = "session" /\ s.warn = w
    <3> HIDE DEF w
    <3>1. QED
      BY DEF TypeOK, Request
  <2> HIDE DEF w, s
  <2>4. PICK r : r = IF Refused(req[p].read) THEN Idle ELSE s
    OBVIOUS
  <2>5. Pending(req[p]) /\ ~Marking(req[p]) /\ (Hopeful(r) => Hopeful(req[p]))
    BY <2>1, <2>2, <2>3, <2>4, IdleWaits DEF Pending, Hopeful, Marking
  <2>6. r.step \notin {"verify", "lookup"}
    BY <2>3, <2>4, IdleWaits
  <2>7. req' = [req EXCEPT ![p] = r]
    BY <2>1, <2>4
  <2>8. user' = user /\ graced' = graced /\ unmarked' = unmarked /\ raced' = raced
    BY <1>3 DEF Decide
  <2>9. QED
    BY <2>5, <2>6, <2>7, <2>8, GraceFrame
<1>4. ASSUME NEW p \in Requests, CreateSession(p)
      PROVE  GraceInOrder'
  <2>1. /\ req[p].step = "session" /\ ~Marking(req[p])
        /\ user' = user /\ unmarked' = unmarked /\ raced' = raced
    BY <1>4 DEF CreateSession, At, Marking
  <2>2. CASE ~req[p].warn
    <3>1. req' = [req EXCEPT ![p] = Idle] /\ graced' = graced
      BY <1>4, <2>2 DEF CreateSession, Become
    <3>2. QED
      BY <2>1, <3>1, IdleWaits, GraceFrame
  <2>3. CASE req[p].warn
    <3> DEFINE r == [req[p] EXCEPT !.step = "mark"]
    <3>1. req' = [req EXCEPT ![p] = r] /\ graced' = graced + 1
      BY <1>4, <2>3 DEF CreateSession, Become
    <3>2. r.step = "mark"
      BY DEF TypeOK, Request
    <3> HIDE DEF r
    <3>3. \A q \in Requests : req'[q] = IF q = p THEN r ELSE req[q]
      BY <3>1, OneMoves
    <3>4. Pending(req[p]) /\ Hopeful(req[p]) /\ Marking(req'[p]) /\ ~Hopeful(req'[p])
      BY <2>1, <2>3, <3>2, <3>3 DEF Pending, Hopeful, Marking
    <3>5. \A q \in Requests : /\ Pending(req'[q]) => Pending(req[q])
                              /\ Hopeful(req'[q]) => Hopeful(req[q]) /\ q # p
                              /\ req'[q].step \in {"verify", "lookup"} => ~req'[q].warn
      BY <3>2, <3>3, <3>4 DEF GraceInOrder
    <3>6. CASE "grace" \notin raced
      <4>1. graced <= unmarked
        BY <3>4, <3>6 DEF GraceInOrder
      <4>2. \A q \in Requests : Hopeful(req[q]) => Pending(req[q])
        BY DEF Hopeful, Pending
      <4>3. \A q \in Requests : ~Hopeful(req'[q])
        BY <3>4, <3>5, <3>6, <4>2 DEF GraceInOrder
      <4>4. graced' <= unmarked' + 1
        BY <1>0, <2>1, <3>1, <4>1
      <4>5. QED
        BY <3>4, <3>5, <3>6, <4>3, <4>4 DEF GraceInOrder
    <3>7. QED
      BY <2>1, <3>5, <3>6 DEF GraceInOrder
  <2>4. QED
    BY <2>2, <2>3
<1>5. ASSUME NEW p \in Requests, Marking(req[p]), req' = [req EXCEPT ![p] = Idle],
             user'.grace \/ unmarked' = unmarked + 1, user.grace => user'.grace,
             unmarked' \in {unmarked, unmarked + 1}, graced' = graced, raced' = raced
      PROVE  GraceInOrder'
  <2>1. \A q \in Requests : req'[q] = IF q = p THEN Idle ELSE req[q]
    BY <1>5, OneMoves
  <2>2. \A q \in Requests : /\ Pending(req'[q]) => Pending(req[q])
                            /\ Hopeful(req'[q]) => Hopeful(req[q]) /\ q # p
                            /\ req'[q].step \in {"verify", "lookup"} => ~req'[q].warn
    BY <2>1, IdleWaits DEF GraceInOrder
  <2>3. \A q \in Requests : Marking(req[q]) \/ Hopeful(req[q]) => Pending(req[q])
    BY DEF Marking, Hopeful, Pending
  <2>4. "grace" \notin raced => \A q \in Requests : ~Hopeful(req'[q])
    BY <1>5, <2>2, <2>3 DEF GraceInOrder
  <2>5. ASSUME "grace" \notin raced
        PROVE  graced <= unmarked' + 1 /\ (user'.grace \/ graced <= unmarked')
    <3>1. graced <= unmarked + 1
      BY <2>5 DEF GraceInOrder
    <3>2. CASE unmarked' = unmarked + 1
      BY <1>0, <3>1, <3>2
    <3>3. CASE unmarked' = unmarked /\ user'.grace
      BY <3>1, <3>3
    <3>4. QED
      BY <1>5, <3>2, <3>3
  <2>6. QED
    BY <1>5, <2>2, <2>4, <2>5 DEF GraceInOrder
<1>6. ASSUME NEW p \in Requests, MarkTOTPGraceUsed(p)
      PROVE  GraceInOrder'
  <2>1. /\ Marking(req[p]) /\ req' = [req EXCEPT ![p] = Idle]
        /\ unmarked' = unmarked /\ graced' = graced /\ raced' = raced
    BY <1>6 DEF MarkTOTPGraceUsed, Marking, At, Become
  <2>2. user'.grace
    BY <1>6 DEF MarkTOTPGraceUsed, TypeOK, User
  <2>3. QED
    BY <1>5, <2>1, <2>2
<1>7. ASSUME NEW p \in Requests, NEW c \in Challenges, LoadChallenge(p, c)
      PROVE  GraceInOrder'
  <2> DEFINE r == [step |-> "verify", read |-> [user EXCEPT !.pwd = chal[c].pwd], chal |-> c,
                   tries |-> chal[c].tries, straddled |-> chal[c].straddled, warn |-> FALSE]
  <2>1. /\ req' = [req EXCEPT ![p] = r] /\ Free(p) /\ raced \subseteq raced'
        /\ user' = user /\ graced' = graced /\ unmarked' = unmarked
    BY <1>7 DEF LoadChallenge, Start
  <2>2. r.step = "verify" /\ ~r.warn
    OBVIOUS
  <2> HIDE DEF r
  <2>3. ~Pending(r) /\ ~Hopeful(r) /\ ~Marking(req[p])
    BY <2>1, <2>2 DEF Pending, Hopeful, Marking, Free
  <2>4. QED
    BY <2>1, <2>2, <2>3, GraceFrame
<1>8. ASSUME NEW p \in Requests, NEW secret \in Secrets, NEW step \in Steps,
             AcceptCode(p, secret, step)
      PROVE  GraceInOrder'
  <2> DEFINE r == [req[p] EXCEPT !.step = "lookup", !.chal = NoChallenge, !.tries = 0]
  <2>1. /\ req' = [req EXCEPT ![p] = r] /\ user' = [user EXCEPT !.last = step]
        /\ graced' = graced /\ unmarked' = unmarked /\ raced' = raced /\ req[p].step = "verify"
    BY <1>8 DEF AcceptCode, Become, At
  <2>2. r.step = "lookup" /\ r.warn = req[p].warn
    BY DEF TypeOK, Request
  <2>3. user'.grace = user.grace
    BY <2>1 DEF TypeOK, User
  <2> HIDE DEF r
  <2>4. ~Pending(r) /\ ~Hopeful(r) /\ ~Marking(req[p]) /\ ~r.warn
    BY <2>1, <2>2 DEF Pending, Hopeful, Marking, GraceInOrder
  <2>5. QED
    BY <2>1, <2>3, <2>4, GraceFrame
<1>9. ASSUME NEW p \in Requests, RejectCode(p)
      PROVE  GraceInOrder'
  <2>1. req' = [req EXCEPT ![p] = Idle] /\ req[p].step = "verify"
    BY <1>9 DEF RejectCode, Become, At
  <2>2. QED
    BY <1>9, <2>1, IdleWaits, GraceFrame DEF RejectCode, Marking
<1>10. ASSUME NEW p \in Requests, LookupUser(p)
       PROVE  GraceInOrder'
  <2> DEFINE s == [req[p] EXCEPT !.step = "session"]
  <2>1. /\ req[p].step = "lookup"
        /\ req' = [req EXCEPT ![p] = IF ~user.disabled /\ policy # "off" THEN s ELSE Idle]
        /\ user' = user /\ graced' = graced /\ unmarked' = unmarked /\ raced' = raced
    BY <1>10 DEF LookupUser, At, Become
  <2>2. s.step = "session" /\ s.warn = req[p].warn
    BY DEF TypeOK, Request
  <2> HIDE DEF s
  <2>3. ~req[p].warn
    BY <2>1 DEF GraceInOrder
  <2>4. PICK r : r = IF ~user.disabled /\ policy # "off" THEN s ELSE Idle
    OBVIOUS
  <2>5. ~Pending(r) /\ ~Hopeful(r) /\ r.step \notin {"verify", "lookup"}
    BY <2>2, <2>3, <2>4, IdleWaits DEF Pending, Hopeful
  <2>6. ~Marking(req[p]) /\ req' = [req EXCEPT ![p] = r]
    BY <2>1, <2>4 DEF Marking
  <2>7. QED
    BY <2>1, <2>5, <2>6, GraceFrame
<1>11. ASSUME NEW p \in Requests, NEW step \in Steps, ConfirmTOTP(p, step)
       PROVE  GraceInOrder'
  <2> DEFINE r == Reading("save")
  <2>1. /\ req' = [req EXCEPT ![p] = r] /\ Free(p) /\ raced' = raced
        /\ user' = user /\ graced' = graced /\ unmarked' = unmarked
    BY <1>11 DEF ConfirmTOTP, Start
  <2>2. r.step = "save"
    BY DEF Reading
  <2> HIDE DEF r
  <2>3. ~Pending(r) /\ ~Hopeful(r) /\ ~Marking(req[p])
    BY <2>1, <2>2 DEF Pending, Hopeful, Marking, Free
  <2>4. QED
    BY <2>1, <2>2, <2>3, GraceFrame
<1>12. ASSUME NEW p \in Requests, NEW secret \in Secrets, SaveTOTP(p, secret)
       PROVE  GraceInOrder'
  <2>1. /\ req' = [req EXCEPT ![p] = Idle] /\ req[p].step = "save"
        /\ graced' = graced /\ unmarked' = unmarked /\ raced' = raced
    BY <1>12 DEF SaveTOTP, Become, At
  <2>2. user'.grace
    BY <1>12 DEF SaveTOTP, TypeOK, User
  <2>3. QED
    BY <2>1, <2>2, IdleWaits, GraceFrame DEF Marking
<1>13. ASSUME NEW p \in Requests, Abandon(p)
       PROVE  GraceInOrder'
  <2>1. /\ req' = [req EXCEPT ![p] = Idle] /\ user' = user /\ graced' = graced /\ raced' = raced
        /\ unmarked' = IF req[p].step = "mark" THEN unmarked + 1 ELSE unmarked
    BY <1>13 DEF Abandon, Become, At
  <2>2. CASE Marking(req[p])
    <3>1. unmarked' = unmarked + 1
      BY <2>1, <2>2 DEF Marking
    <3>2. QED
      BY <1>5, <2>1, <2>2, <3>1
  <2>3. CASE ~Marking(req[p])
    <3>1. unmarked' = unmarked
      BY <2>1, <2>3 DEF Marking
    <3>2. QED
      BY <2>1, <2>3, <3>1, IdleWaits, GraceFrame
  <2>4. QED
    BY <2>2, <2>3
<1>14. CASE AdminUsers
  <2>1. Straddle \/ req' = req
    BY <1>14 DEF AdminUsers, ResetUserPassword, SetUserDisabled
  <2>2. \A q \in Requests :
          \/ req'[q].step = "idle" /\ req[q].step = "idle"
          \/ /\ req'[q].step = req[q].step /\ req'[q].read = req[q].read
             /\ req'[q].warn = req[q].warn
    BY <2>1, StraddleFields DEF Free
  <2>3. \A q \in Requests : /\ Pending(req'[q]) = Pending(req[q])
                            /\ Hopeful(req'[q]) = Hopeful(req[q])
                            /\ Marking(req'[q]) = Marking(req[q])
                            /\ req'[q].step \in {"verify", "lookup"} => ~req'[q].warn
    BY <2>2 DEF Pending, Hopeful, Marking, GraceInOrder
  <2>4. raced' = raced
    BY <1>14 DEF AdminUsers, ResetUserPassword, SetUserDisabled
  <2>5. CASE ResetUserPassword
    <3>1. graced' = 0 /\ unmarked' = 0
      BY <2>5 DEF ResetUserPassword
    <3>2. QED
      BY <2>3, <2>4, <3>1 DEF GraceInOrder
  <2>6. ASSUME NEW disabled \in BOOLEAN, SetUserDisabled(disabled)
        PROVE  GraceInOrder'
    <3>1. graced' = graced /\ unmarked' = unmarked /\ user'.grace = user.grace
      BY <2>6 DEF SetUserDisabled, TypeOK, User
    <3>2. QED
      BY <2>3, <2>4, <3>1 DEF GraceInOrder
  <2>7. QED
    BY <1>14, <2>5, <2>6 DEF AdminUsers
<1>15. CASE \/ \E c \in Challenges : ExpireChallenge(c)
            \/ EndSession \/ Tick
            \/ \E new \in {"off", "allowed", "forced"} : ChangePolicy(new)
            \/ UNCHANGED vars
  <2>1. UNCHANGED <<req, graced, unmarked, raced>> /\ user' = user
    BY <1>15 DEF ExpireChallenge, EndSession, Tick, ChangePolicy, vars
  <2>2. QED
    BY <2>1 DEF GraceInOrder
<1>16. QED
  BY <1>1, <1>2, <1>3, <1>4, <1>6, <1>7, <1>8, <1>9, <1>10, <1>11, <1>12, <1>13, <1>14,
     <1>15 DEF Next

-----------------------------------------------------------------------------
(* The theorems.                                                           *)

\* The rows, the sessions and the requests keep their shape, challenges are
\* verified one request at a time, and what logins carry on from is current.
THEOREM LoginInvariant == Spec => []IInv
<1>1. IInv /\ [Next]_vars => IInv'
  BY InvariantStep
<1>2. QED
  BY <1>1, InitInvariant, PTL DEF Spec

\* However many requests verify codes side by side, a challenge answers at most
\* MaxAttempts wrong ones (ConsumeTOTPChallenge, FOR UPDATE OF c).
THEOREM TriesAreBounded == Spec => []TriesBounded
<1>1. IInv => TriesBounded
  BY DEF IInv, TriesCounted, TriesBounded
<1>2. QED
  BY <1>1, LoginInvariant, PTL

\* A reset of the password or a disabling leaves no session behind but of a
\* login that was under way (ResetUserPassword, SetUserDisabled).
THEOREM SessionStaysCurrent == Spec => []SessionIsCurrent
<1>1. IInv => SessionIsCurrent
  BY DEF IInv
<1>2. QED
  BY <1>1, LoginInvariant, PTL

\* A code lets a login in once, unless two challenges were verified side by side;
\* and a user without the token the policy requires is let in once after a reset,
\* unless two logins went side by side or the mark was not written
\* (validateTOTPStep, MarkTOTPGraceUsed).
THEOREM PassesAreUsedOnce == Spec => []PassesUsedOnce
<1>1. Init => CodesInOrder /\ GraceInOrder
  <2> SUFFICES ASSUME Init
               PROVE  CodesInOrder /\ GraceInOrder
    OBVIOUS
  <2>1. \A p \in Requests : req[p].step = "idle" /\ req[p] = Idle
    BY IdleType DEF Init
  <2>2. QED
    BY <2>1, IdleWaits DEF Init, CodesInOrder, GraceInOrder, Verifying
<1>2. TypeOK /\ CodesInOrder /\ GraceInOrder /\ [Next]_vars => (CodesInOrder /\ GraceInOrder)'
  BY CodesStep, GraceStep
<1>3. TypeOK /\ CodesInOrder /\ GraceInOrder => PassesUsedOnce
  BY DEF TypeOK, CodesInOrder, GraceInOrder, PassesUsedOnce, CodesUsedOnce, GraceUsedOnce
<1>4. IInv => TypeOK
  BY DEF IInv
<1>5. QED
  BY <1>1, <1>2, <1>3, <1>4, LoginInvariant, PTL DEF Spec

=============================================================================
