------------------------------- MODULE Login --------------------------------
(***************************************************************************)
(* How one user logs in: with a password, then with a code of the dynamic    *)
(* token if there is one, or once without if there should be one; and what   *)
(* administrators do meanwhile: reset the password, disable the user, change *)
(* the policy.  A login reads the user once and acts on that in statements   *)
(* of its own; a challenge is locked from its reading to its commit, the     *)
(* user is not.                                                              *)
(*                                                                         *)
(* A code is a pair of a secret and a time step.  Failed passwords change    *)
(* only when the next answer comes, and are left out.                        *)
(***************************************************************************)
EXTENDS Integers, FiniteSets

CONSTANTS
    Requests,    \* request slots
    Challenges,  \* login_totp_challenges.token_hash
    NoChallenge,
    Secrets,     \* token secrets
    NoSecret,
    MaxAttempts, \* MaxTOTPChallengeAttempts
    MaxRequests, \* bound: requests made
    MaxNow       \* bound: time steps

ASSUME LoginAssumption ==
    /\ NoChallenge \notin Challenges /\ NoSecret \notin Secrets
    /\ MaxAttempts \in Nat \ {0} /\ MaxRequests \in Nat /\ MaxNow \in Nat \ {0}

VARIABLES
    user,      \* the row of users
    policy,    \* what the settings and permissions say of the token
    sessions,  \* user_sessions: by which password, and whether it straddled
    chal,      \* the rows of login_totp_challenges
    now,       \* the current time step
    req,       \* the requests in progress
    made,      \* requests made so far (bounded by MaxRequests)
    wrong,     \* history: the wrong codes tried against each challenge,
    used,      \* the codes that a challenge accepted,
    twice,     \* whether one of them was accepted again,
    graced,    \* logins without the token it requires, since the last reset, and
    unmarked,  \* those of them whose mark was not written;
    raced      \* and what two logins have done side by side

data == <<user, policy, sessions, chal, now>>
history == <<wrong, used, twice, graced, unmarked>>
vars == <<data, req, made, history, raced>>

Steps == 0..(MaxNow + 1)
User == [disabled: BOOLEAN, pwd: Nat, secret: Secrets \cup {NoSecret},
         grace: BOOLEAN, last: Steps]
Session == [pwd: Nat, straddled: BOOLEAN]
Challenge == [row: BOOLEAN, pwd: Nat, tries: Nat, straddled: BOOLEAN]

\* What a request does next, with the user as it read it: "decide" how to go on
\* after the password, "verify" a code, "lookup" the user after it, create a
\* "session", "mark" the grace, "save" a secret.  straddled: a reset or a disabling came between.
Request == [step: {"idle", "decide", "session", "mark", "verify", "lookup", "save"},
            read: User, chal: Challenges \cup {NoChallenge}, tries: Nat,
            straddled: BOOLEAN, warn: BOOLEAN]

NewUser == [disabled |-> FALSE, pwd |-> 0, secret |-> NoSecret, grace |-> FALSE, last |-> 0]
NoRow == [row |-> FALSE, pwd |-> 0, tries |-> 0, straddled |-> FALSE]
Idle == [step |-> "idle", read |-> NewUser, chal |-> NoChallenge, tries |-> 0,
         straddled |-> FALSE, warn |-> FALSE]
Reading(step) == [step |-> step, read |-> user, chal |-> NoChallenge, tries |-> 0,
                  straddled |-> FALSE, warn |-> FALSE]

Init ==
    /\ user \in {[NewUser EXCEPT !.secret = s] : s \in Secrets \cup {NoSecret}}
    /\ policy \in {"off", "allowed", "forced"}
    /\ sessions = {} /\ chal = [c \in Challenges |-> NoRow] /\ now = 1
    /\ req = [p \in Requests |-> Idle] /\ made = 0
    /\ wrong = [c \in Challenges |-> 0] /\ used = {} /\ twice = FALSE
    /\ graced = 0 /\ unmarked = 0 /\ raced = {}

Free(p) == req[p].step = "idle"
At(p, step) == req[p].step = step
Become(p, r) == req' = [req EXCEPT ![p] = r] /\ UNCHANGED made
Start(p, r) ==
    /\ Free(p) /\ made < MaxRequests /\ made' = made + 1
    /\ req' = [req EXCEPT ![p] = r]

-----------------------------------------------------------------------------
(* loginHandler.                                                           *)

\* Authenticate: the password is right and the user is not disabled.
Authenticate(p) ==
    /\ ~user.disabled /\ Start(p, Reading("decide"))
    /\ raced' = IF \E q \in Requests : req[q].step \in {"decide", "session", "mark"}
                THEN raced \cup {"grace"} ELSE raced
    /\ UNCHANGED <<data, history>>

\* A user with a token gets a challenge, and is not in yet.
CreateTOTPChallenge(p, c) ==
    /\ At(p, "decide") /\ policy # "off" /\ req[p].read.secret # NoSecret
    /\ ~chal[c].row /\ Become(p, Idle)
    /\ chal' = [chal EXCEPT ![c] = [row |-> TRUE, pwd |-> req[p].read.pwd, tries |-> 0,
                                    straddled |-> req[p].straddled]]
    /\ wrong' = [wrong EXCEPT ![c] = 0]
    /\ UNCHANGED <<user, policy, sessions, now, used, twice, graced, unmarked, raced>>

\* The policy requires a token which the user has not; once it is let in anyway.
NeedsGrace(u) == policy = "forced" /\ u.secret = NoSecret /\ ~u.grace
Refused(u) == policy = "forced" /\ u.secret = NoSecret /\ ~NeedsGrace(u)

Decide(p) ==
    LET u == req[p].read
    IN  /\ At(p, "decide") /\ ~(policy # "off" /\ u.secret # NoSecret)
        /\ Become(p, IF Refused(u) THEN Idle
                     ELSE [req[p] EXCEPT !.step = "session", !.warn = NeedsGrace(u)])
        /\ UNCHANGED <<data, history, raced>>

\* Session.Create: a lock of the user's own makes it one step; the last login wins.
CreateSession(p) ==
    /\ At(p, "session")
    /\ sessions' = {[pwd |-> req[p].read.pwd, straddled |-> req[p].straddled]}
    /\ Become(p, IF req[p].warn THEN [req[p] EXCEPT !.step = "mark"] ELSE Idle)
    /\ graced' = IF req[p].warn THEN graced + 1 ELSE graced
    /\ UNCHANGED <<user, policy, chal, now, wrong, used, twice, unmarked, raced>>

\* The chance is used up only when the session is there.
MarkTOTPGraceUsed(p) ==
    /\ At(p, "mark") /\ user' = [user EXCEPT !.grace = TRUE] /\ Become(p, Idle)
    /\ UNCHANGED <<policy, sessions, chal, now, history, raced>>

-----------------------------------------------------------------------------
(* totpLoginHandler.                                                       *)

\* Mutant of Locked: the row is read without FOR UPDATE.
NeverLocked(c) == c \notin Challenges

\* FOR UPDATE OF c, until the transaction ends.
Locked(c) == \E p \in Requests : At(p, "verify") /\ req[p].chal = c

\* ConsumeTOTPChallenge reads the challenge, and the user along with it ...
LoadChallenge(p, c) ==
    /\ chal[c].row /\ ~Locked(c)
    /\ Start(p, [step |-> "verify", read |-> [user EXCEPT !.pwd = chal[c].pwd], chal |-> c,
                 tries |-> chal[c].tries, straddled |-> chal[c].straddled, warn |-> FALSE])
    /\ raced' = IF \E q \in Requests : At(q, "verify") THEN raced \cup {"code"} ELSE raced
    /\ UNCHANGED <<data, history>>

\* Mutant of Accepted: any step of the window, whatever was used before.
AcceptedAgain(u, secret, step) == secret = u.secret /\ step \in (now - 1)..(now + 1)

\* validateTOTPStep: one step early or late, but later than the last one used.
Accepted(u, secret, step) ==
    /\ secret = u.secret /\ step \in (now - 1)..(now + 1)
    /\ step > u.last

\* ... and commits: the code is right, the challenge goes and the step is kept,
AcceptCode(p, secret, step) ==
    /\ At(p, "verify") /\ Accepted(req[p].read, secret, step)
    /\ chal' = [chal EXCEPT ![req[p].chal] = NoRow]
    /\ user' = [user EXCEPT !.last = step]
    /\ Become(p, [req[p] EXCEPT !.step = "lookup", !.chal = NoChallenge, !.tries = 0])
    /\ used' = used \cup {<<secret, step>>}
    /\ twice' = (twice \/ <<secret, step>> \in used)
    /\ UNCHANGED <<policy, sessions, now, wrong, graced, unmarked, raced>>

\* ... or wrong, or used: the challenge counts it, and goes with the last try.
RejectCode(p) ==
    LET c == req[p].chal
        n == req[p].tries + 1
    IN  /\ At(p, "verify") /\ Become(p, Idle)
        /\ chal' = [chal EXCEPT ![c] = IF n >= MaxAttempts THEN NoRow
                                       ELSE IF chal[c].row THEN [@ EXCEPT !.tries = n] ELSE @]
        /\ wrong' = [wrong EXCEPT ![c] = @ + 1]
        /\ UNCHANGED <<user, policy, sessions, now, used, twice, graced, unmarked, raced>>

\* The user is read again; the policy may have changed.
LookupUser(p) ==
    /\ At(p, "lookup")
    /\ Become(p, IF ~user.disabled /\ policy # "off"
                 THEN [req[p] EXCEPT !.step = "session"] ELSE Idle)
    /\ UNCHANGED <<data, history, raced>>

-----------------------------------------------------------------------------
(* The token of a user who is logged in, and the end of the session.       *)

\* A cookie names a session, ...
HasSession == sessions # {}

\* ... and requireUser reads the user behind it.
LoggedIn == HasSession /\ ~user.disabled

\* SaveTOTP reads the secret there is, and has a code of it confirmed ...
ConfirmTOTP(p, step) ==
    /\ LoggedIn /\ policy # "off"
    /\ user.secret = NoSecret \/ Accepted(user, user.secret, step)
    /\ Start(p, Reading("save"))
    /\ UNCHANGED <<data, history, raced>>

\* ... and writes the new one, which ends the grace; the last step stays.
SaveTOTP(p, secret) ==
    /\ At(p, "save") /\ Become(p, Idle)
    /\ user' = [user EXCEPT !.secret = secret, !.grace = TRUE]
    /\ UNCHANGED <<policy, sessions, chal, now, history, raced>>

\* Logout, or the session expires.
EndSession ==
    /\ HasSession /\ sessions' = {}
    /\ UNCHANGED <<user, policy, chal, now, req, made, history, raced>>

ExpireChallenge(c) ==
    /\ chal[c].row /\ ~Locked(c) /\ chal' = [chal EXCEPT ![c] = NoRow]
    /\ UNCHANGED <<user, policy, sessions, now, req, made, history, raced>>

Tick ==
    /\ now < MaxNow /\ now' = now + 1
    /\ UNCHANGED <<user, policy, sessions, chal, req, made, history, raced>>

-----------------------------------------------------------------------------
(* Administrators.                                                         *)

Straddle == req' = [p \in Requests |-> IF Free(p) THEN Idle ELSE [req[p] EXCEPT !.straddled = TRUE]]

\* Mutant of ChallengesAfterReset: they are left alone.
ChallengesKept == chal

ChallengesAfterReset == [c \in Challenges |-> NoRow]

\* One transaction, which waits for the challenges that are locked.
ResetUserPassword ==
    /\ made < MaxRequests /\ made' = made + 1 /\ \A c \in Challenges : ~Locked(c)
    /\ user' = [user EXCEPT !.pwd = @ + 1, !.secret = NoSecret, !.grace = FALSE]
    /\ sessions' = {} /\ chal' = ChallengesAfterReset
    /\ Straddle /\ graced' = 0 /\ unmarked' = 0
    /\ UNCHANGED <<policy, now, wrong, used, twice, raced>>

SetUserDisabled(disabled) ==
    /\ made < MaxRequests /\ made' = made + 1
    /\ user' = [user EXCEPT !.disabled = disabled]
    /\ IF disabled THEN sessions' = {} /\ Straddle ELSE UNCHANGED <<sessions, req>>
    /\ UNCHANGED <<policy, chal, now, history, raced>>

AdminUsers == ResetUserPassword \/ \E disabled \in BOOLEAN : SetUserDisabled(disabled)

ChangePolicy(new) ==
    /\ made < MaxRequests /\ made' = made + 1 /\ policy' = new
    /\ UNCHANGED <<user, sessions, chal, now, req, history, raced>>

\* The client goes away, a statement fails, or the process is killed.
Abandon(p) ==
    /\ ~Free(p) /\ Become(p, Idle)
    /\ unmarked' = IF At(p, "mark") THEN unmarked + 1 ELSE unmarked
    /\ UNCHANGED <<data, wrong, used, twice, graced, raced>>

Next ==
    \/ \E p \in Requests :
          \/ Authenticate(p) \/ Decide(p) \/ CreateSession(p) \/ MarkTOTPGraceUsed(p)
          \/ \E c \in Challenges : CreateTOTPChallenge(p, c) \/ LoadChallenge(p, c)
          \/ \E secret \in Secrets, step \in Steps : AcceptCode(p, secret, step)
          \/ RejectCode(p) \/ LookupUser(p)
          \/ \E step \in Steps : ConfirmTOTP(p, step)
          \/ \E secret \in Secrets : SaveTOTP(p, secret)
          \/ Abandon(p)
    \/ \E c \in Challenges : ExpireChallenge(c)
    \/ EndSession \/ Tick \/ AdminUsers
    \/ \E new \in {"off", "allowed", "forced"} : ChangePolicy(new)

Spec == Init /\ [][Next]_vars

-----------------------------------------------------------------------------
TypeOK ==
    /\ user \in User /\ policy \in {"off", "allowed", "forced"}
    /\ sessions \subseteq Session /\ chal \in [Challenges -> Challenge]
    /\ now \in 1..MaxNow /\ req \in [Requests -> Request] /\ made \in 0..MaxRequests
    /\ wrong \in [Challenges -> Nat] /\ used \subseteq Secrets \X Steps
    /\ twice \in BOOLEAN /\ graced \in Nat /\ unmarked \in Nat
    /\ raced \subseteq {"code", "grace"}

\* A code is accepted once, unless two challenges were being verified at once:
\* the last step used is read under the lock of a challenge, not of the user.
CodesUsedOnce == twice => "code" \in raced

\* After a reset a user without the required token is let in once, unless two
\* logins were under way at once, or the mark could not be written.
GraceUsedOnce == graced <= 1 + unmarked \/ "grace" \in raced

PassesUsedOnce == CodesUsedOnce /\ GraceUsedOnce

\* What the comment at the comparison in ConsumeTOTPChallenge says: a time step
\* is accepted only if it is later than the last one that was.
StepsAdvance ==
    [][\A p \in Requests, secret \in Secrets, step \in Steps :
          AcceptCode(p, secret, step) => step > user.last]_vars

\* However many requests try codes against a challenge side by side, it gives
\* them no more than MaxAttempts wrong tries.
TriesBounded == \A c \in Challenges : wrong[c] <= MaxAttempts

\* There is one session at most; it was opened with the password of today, by a
\* user who is not disabled, unless the reset or the disabling came while that
\* login was under way.
SessionIsCurrent ==
    \A s, t \in sessions :
        /\ s = t
        /\ s.straddled \/ (s.pwd = user.pwd /\ ~user.disabled)
=============================================================================
