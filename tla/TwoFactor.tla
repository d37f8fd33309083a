----------------------------- MODULE TwoFactor -----------------------------
(***************************************************************************)
(* Two-step login and the TOTP enrollment lifecycle of one account:        *)
(* internal/auth/{handler,twofactor,session,verifier}.go.                  *)
(*                                                                         *)
(* The shared state is the account's row of "users" and its rows of        *)
(* "sessions".  A request is a process: it takes one step per SQL          *)
(* statement (each statement is autocommitted, hence atomic) and one per   *)
(* reading of the clock, and holds between two steps what the handler      *)
(* holds in its locals.  Statements of different requests interleave.      *)
(*                                                                         *)
(* One account is enough: no statement of these handlers touches the rows  *)
(* of two users.  The account's password does not change here, so a        *)
(* request with a wrong password is one that is answered early (Refused).  *)
(***************************************************************************)
EXTENDS Naturals, FiniteSets

CONSTANTS
    Requests,       \* requests the server can have in flight
    SessionIds,     \* session tokens the generator can produce
    Secrets,        \* TOTP secrets the generator can produce
    NoSecret,       \* totp_secret IS NULL
    NoSession,      \* the cookie of a request that carries none
    MaxAttempts,    \* maxTOTPAttempts
    MaxSkew,        \* accepted clock skew, in 30-second steps
    FirstStep,      \* TOTP step at the start ...
    LastStep,       \* ... and at the end of the behaviours considered
    AttemptBound,   \* bound: no verify starts on a row with this many failures
    TotpOn          \* the TOTP kill switch is on (2FA routes are mounted)

ASSUME NoSecretIsNone    == NoSecret \notin Secrets
ASSUME NoSessionIsNone   == NoSession \notin SessionIds
ASSUME AttemptsPositive  == MaxAttempts \in Nat \ {0}
ASSUME ClockRange        == /\ MaxSkew \in Nat /\ FirstStep \in Nat
                            /\ LastStep \in Nat
                            /\ MaxSkew < FirstStep /\ FirstStep <= LastStep
ASSUME AttemptsBounded   == AttemptBound \in Nat
ASSUME SwitchIsBoolean   == TotpOn \in BOOLEAN

VARIABLES
    user,       \* the account's row: exists, secret, enabled, counter
    sessions,   \* session id -> its row
    req,        \* request -> where its handler is and what it holds
    now,        \* current TOTP step (Unix time / 30 s)
    generated,  \* secrets handed out so far: a secret never repeats
    \* history, read by properties only
    epoch,      \* how often totp_last_counter has been reset to 0
    rotations,  \* one record per successful RotatePending
    proven,     \* secrets a confirm request has seen a code of
    spared      \* pending sessions whose lockout DELETE was lost

history == <<epoch, rotations, proven, spared>>
vars == <<user, sessions, req, now, generated, history>>

-----------------------------------------------------------------------------
(* Rows.  "unissued" and "dead" both mean that no statement can find a row; *)
(* they are told apart because a random token is never produced twice.  An  *)
(* expired row is dead: every statement that reads or keeps a row asks for  *)
(* expires_at > NOW(), so a purge of expired rows changes nothing else.     *)

Status == {"unissued", "pending", "verified", "dead"}
NewRow(st) == [st |-> st, attempts |-> 0]

\* The statements' WHERE clauses: unexpired and verified, resp. unverified.
Validates(s) == sessions[s].st = "verified"
ValidatesPending(s) == sessions[s].st = "pending"

\* The rows the table holds, and what a DELETE of some of them leaves.
Stored == {s \in SessionIds : sessions[s].st \in {"pending", "verified"}}
Without(S) ==
    [s \in SessionIds |-> IF s \in S THEN NewRow("dead") ELSE sessions[s]]

(* A code is known by the step it was computed for; VerifyCode finds the    *)
(* highest counter within MaxSkew of the clock that yields it.              *)
Window(at) == (at - MaxSkew) .. (at + MaxSkew)

-----------------------------------------------------------------------------
(* Requests.  "kind" is the endpoint, "pc" the next statement.              *)

Idle == [pc |-> "idle", kind |-> "none", cookie |-> NoSession,
         secret |-> NoSecret, counter |-> 0, epoch |-> 0]

\* The handler has answered; its locals are gone.
Answered(r) == req' = [req EXCEPT ![r] = Idle]

\* The handler holds q from now on, resp. goes on to l.
Holds(r, q) == req' = [req EXCEPT ![r] = q]
Goto(r, l) == Holds(r, [req[r] EXCEPT !.pc = l])

At(r, l) == req[r].pc = l
Kind(r, k) == req[r].kind = k

Arrives(r, k, s, l) ==
    /\ At(r, "idle")
    /\ Holds(r, [Idle EXCEPT !.kind = k, !.cookie = s, !.pc = l])

\* Not the code: a wrong code is counted whatever the endpoint.
CodeRejectedAlwaysCounted(r) == Goto(r, "record")

\* Where a wrong code leads: step 2 of the login counts it, the session-
\* authenticated endpoints answer 400.
CodeRejected(r) ==
    IF Kind(r, "verify") THEN Goto(r, "record") ELSE Answered(r)

\* What follows an accepted code.
AfterCode(r) == CASE Kind(r, "verify")  -> "rotate"
                  [] Kind(r, "confirm") -> "enable"
                  [] Kind(r, "disable") -> "wipe"
                  [] OTHER              -> "delete"

-----------------------------------------------------------------------------
(* Login, step 1.                                                           *)

\* BcryptVerifier.Verify: the row is read, the password matches.
Login(r) ==
    /\ user.exists
    /\ Arrives(r, IF TotpOn /\ user.enabled THEN "login2fa" ELSE "login",
               NoSession, "create")
    /\ UNCHANGED <<user, sessions, now, generated, history>>

\* SessionStore.Create: the INSERT, which the foreign key refuses when the
\* account is gone.  (The purge before it only deletes dead rows.)
CreateSession(r) ==
    /\ At(r, "create")
    /\ user.exists
    /\ \E s \in SessionIds :
          /\ sessions[s].st = "unissued"
          /\ sessions' = [sessions EXCEPT ![s] =
                NewRow(IF Kind(r, "login2fa") THEN "pending" ELSE "verified")]
    /\ Answered(r)
    /\ UNCHANGED <<user, now, generated, history>>

-----------------------------------------------------------------------------
(* Requests behind a middleware: the row of the cookie is validated once,   *)
(* when the request arrives, and not looked at again unless a later         *)
(* statement names it.                                                      *)

\* pendingSessionRequired, POST /2fa/verify.
Verify2FA(r, s) ==
    /\ TotpOn
    /\ ValidatesPending(s)
    /\ sessions[s].attempts < AttemptBound
    /\ Arrives(r, "verify", s, "fetch")
    /\ UNCHANGED <<user, sessions, now, generated, history>>

\* sessionRequired, POST /2fa/confirm, /2fa/disable, /delete.
CodeRequest(r, s, k) ==
    /\ k \in {"confirm", "disable"} => TotpOn
    /\ Validates(s)
    /\ Arrives(r, k, s, "fetch")
    /\ UNCHANGED <<user, sessions, now, generated, history>>

\* sessionRequired, POST /2fa/enroll.
Enroll2FA(r, s) ==
    /\ TotpOn
    /\ Validates(s)
    /\ Arrives(r, "enroll", s, "enroll")
    /\ UNCHANGED <<user, sessions, now, generated, history>>

\* sessionRequired, POST /logout and /logout-all.
LogoutRequest(r, s, k) ==
    /\ Validates(s)
    /\ Arrives(r, k, s, k)
    /\ UNCHANGED <<user, sessions, now, generated, history>>

-----------------------------------------------------------------------------
(* The statements the code-checking endpoints share.                        *)

\* GetUserByID and the tests on the row it returns.  A pending session of a
\* vanished account, or of one without a secret, counts as a wrong code.
FetchUser(r) ==
    /\ At(r, "fetch")
    /\ LET found  == user.exists /\ user.secret # NoSecret
           asked  == CASE Kind(r, "disable") -> found /\ user.enabled
                       [] Kind(r, "erase")   -> found /\ user.enabled /\ TotpOn
                       [] OTHER              -> found
       IN \/ /\ asked
             /\ Holds(r, [req[r] EXCEPT !.pc = "check", !.secret = user.secret])
          \/ /\ ~asked
             /\ IF Kind(r, "erase") /\ user.exists
                  THEN Goto(r, "delete")
                  ELSE CodeRejected(r)
    /\ UNCHANGED <<user, sessions, now, generated, history>>

\* totp.VerifyCode at the time the clock is read.
CheckCode(r) ==
    /\ At(r, "check")
    /\ \/ \E c \in Window(now) :
            /\ Holds(r, [req[r] EXCEPT !.pc = "accept", !.counter = c])
            /\ proven' = IF Kind(r, "confirm") THEN proven \cup {req[r].secret}
                                               ELSE proven
       \/ CodeRejected(r) /\ UNCHANGED proven
    /\ UNCHANGED <<user, sessions, now, generated, epoch, rotations, spared>>

\* Not the code: the replay guard accepts an equal counter.
AcceptsEqual(c) == user.exists /\ user.counter <= c

\* AcceptTOTPCounter: UPDATE ... WHERE totp_last_counter < counter.
Accepts(c) == user.exists /\ user.counter < c

AcceptCounter(r) ==
    /\ At(r, "accept")
    /\ \/ /\ Accepts(req[r].counter)
          /\ user' = [user EXCEPT !.counter = req[r].counter]
          /\ Holds(r, [req[r] EXCEPT !.pc = AfterCode(r), !.epoch = epoch])
       \/ /\ ~Accepts(req[r].counter)
          /\ CodeRejected(r)
          /\ UNCHANGED user
    /\ UNCHANGED <<sessions, now, generated, history>>

-----------------------------------------------------------------------------
(* Login, step 2.                                                           *)

\* Not the code: the pending row survives, resp. is itself marked verified.
RotatedWithoutKill(p, s) == [sessions EXCEPT ![s] = NewRow("verified")]
MarkedVerified(p, s) == [sessions EXCEPT ![p] = NewRow("verified")]

\* Not the code: the INSERT does not depend on what the DELETE found.
RotatesAlways(p) == TRUE

\* The CTE inserts what the DELETE of the pending row returned.
Rotates(p) == ValidatesPending(p)

\* SessionStore.RotatePending: one statement deletes the pending row and
\* inserts a verified one; no row deleted, none inserted (401).
Rotated(p, s) == [Without({p}) EXCEPT ![s] = NewRow("verified")]

RotatePending(r) ==
    /\ At(r, "rotate")
    /\ LET p == req[r].cookie IN
       \/ /\ Rotates(p)
          /\ \E s \in SessionIds :
               /\ sessions[s].st = "unissued"
               /\ sessions' = Rotated(p, s)
               /\ rotations' = rotations \cup
                    {[from |-> p, to |-> s, secret |-> req[r].secret,
                      step |-> req[r].counter, epoch |-> req[r].epoch,
                      attempts |-> sessions[p].attempts]}
       \/ /\ ~Rotates(p)
          /\ UNCHANGED <<sessions, rotations>>
    /\ Answered(r)
    /\ UNCHANGED <<user, now, generated, epoch, proven, spared>>

\* Not the code: one failure too many is allowed.
SpendsBudgetLate(n) == n > MaxAttempts

\* SessionStore.RecordTOTPFailure; at the limit the handler goes on to delete.
SpendsBudget(n) == n >= MaxAttempts

RecordFailure(r) ==
    /\ At(r, "record")
    /\ LET p == req[r].cookie
           n == sessions[p].attempts + 1
       IN \/ /\ ValidatesPending(p)
             /\ sessions' = [sessions EXCEPT ![p].attempts = n]
             /\ IF SpendsBudget(n) THEN Goto(r, "lockout") ELSE Answered(r)
          \/ /\ ~ValidatesPending(p)
             /\ Answered(r)
             /\ UNCHANGED sessions
    /\ UNCHANGED <<user, now, generated, history>>

\* Invalidate at the limit.  A failure is logged only: "totp_locked" is
\* answered either way.
LockOut(r) ==
    /\ At(r, "lockout")
    /\ \/ sessions' = Without({req[r].cookie}) /\ UNCHANGED spared
       \/ spared' = spared \cup {req[r].cookie} /\ UNCHANGED sessions
    /\ Answered(r)
    /\ UNCHANGED <<user, now, generated, epoch, rotations, proven>>

-----------------------------------------------------------------------------
(* Enrollment.                                                              *)

\* Not the code: enrolling does not look at totp_enabled.
EnrollableAlways == user.exists

\* UPDATE ... SET totp_secret = new, counter = 0 WHERE totp_enabled = FALSE.
Enrollable == user.exists /\ ~user.enabled

StoreSecret(r) ==
    /\ At(r, "enroll")
    /\ \/ /\ Enrollable
          /\ \E new \in Secrets \ generated :
               /\ generated' = generated \cup {new}
               /\ user' = [user EXCEPT !.secret = new, !.enabled = FALSE,
                                       !.counter = 0]
          /\ epoch' = epoch + 1
       \/ ~Enrollable /\ UNCHANGED <<user, generated, epoch>>
    /\ Answered(r)
    /\ UNCHANGED <<sessions, now, rotations, proven, spared>>

\* Not the code: confirming does not look at totp_secret.
ConfirmableAlways == user.exists /\ ~user.enabled

\* UPDATE ... SET totp_enabled = TRUE
\* WHERE totp_secret IS NOT NULL AND totp_enabled = FALSE.
Confirmable == user.exists /\ user.secret # NoSecret /\ ~user.enabled

EnableTOTP(r) ==
    /\ At(r, "enable")
    /\ user' = IF Confirmable THEN [user EXCEPT !.enabled = TRUE] ELSE user
    /\ Answered(r)
    /\ UNCHANGED <<sessions, now, generated, history>>

\* UPDATE ... SET totp_secret = NULL, totp_enabled = FALSE, counter = 0.
WipeTOTP(r) ==
    /\ At(r, "wipe")
    /\ IF user.exists
         THEN /\ user' = [user EXCEPT !.secret = NoSecret, !.enabled = FALSE,
                                      !.counter = 0]
              /\ epoch' = epoch + 1
         ELSE UNCHANGED <<user, epoch>>
    /\ Answered(r)
    /\ UNCHANGED <<sessions, now, generated, rotations, proven, spared>>

-----------------------------------------------------------------------------
(* The end of an account or of its sessions.                                *)

\* DELETE FROM users, with ON DELETE CASCADE to sessions.
DeleteUser(r) ==
    /\ At(r, "delete")
    /\ user' = [exists |-> FALSE, secret |-> NoSecret, enabled |-> FALSE,
                counter |-> 0]
    /\ sessions' = Without(Stored)
    /\ Answered(r)
    /\ UNCHANGED <<now, generated, history>>

\* Invalidate (its failure is only logged) and InvalidateAll.
Logout(r) ==
    /\ \/ At(r, "logout") /\ sessions' = Without({req[r].cookie})
       \/ At(r, "logout") /\ UNCHANGED sessions
       \/ At(r, "logout_all") /\ sessions' = Without(Stored)
    /\ Answered(r)
    /\ UNCHANGED <<user, now, generated, history>>

-----------------------------------------------------------------------------
(* The environment.                                                         *)

\* A statement fails (500), the password is wrong (403), or the process or
\* the client goes away: the handler stops where it is.
Refused(r) ==
    /\ ~At(r, "idle")
    /\ spared' = IF At(r, "lockout") THEN spared \cup {req[r].cookie} ELSE spared
    /\ Answered(r)
    /\ UNCHANGED <<user, sessions, now, generated, epoch, rotations, proven>>

\* expires_at passes: 5 minutes for a pending row, 12 hours for a verified one.
Expire(s) ==
    /\ s \in Stored
    /\ sessions' = Without({s})
    /\ UNCHANGED <<user, req, now, generated, history>>

Tick ==
    /\ now < LastStep
    /\ now' = now + 1
    /\ UNCHANGED <<user, sessions, req, generated, history>>

\* Nothing is in flight: the bounded behaviour may end here.
Quiescent ==
    /\ \A r \in Requests : At(r, "idle")
    /\ UNCHANGED vars

-----------------------------------------------------------------------------
\* An account that has never enrolled, or one that has 2FA armed and has used
\* none of the codes still in the window.
NotEnrolled == [exists |-> TRUE, secret |-> NoSecret, enabled |-> FALSE,
                counter |-> 0]
Armed(k) == [exists |-> TRUE, secret |-> k, enabled |-> TRUE,
             counter |-> FirstStep - MaxSkew - 1]

Init ==
    /\ \/ user = NotEnrolled
       \/ \E k \in Secrets : user = Armed(k)
    /\ sessions = [s \in SessionIds |-> NewRow("unissued")]
    /\ req = [r \in Requests |-> Idle]
    /\ now = FirstStep
    /\ generated = {user.secret} \ {NoSecret}
    /\ epoch = 0
    /\ rotations = {}
    /\ proven = generated
    /\ spared = {}

Handler(r) ==
    \/ CreateSession(r) \/ FetchUser(r) \/ CheckCode(r) \/ AcceptCounter(r)
    \/ RotatePending(r) \/ RecordFailure(r) \/ LockOut(r)
    \/ StoreSecret(r) \/ EnableTOTP(r) \/ WipeTOTP(r)
    \/ DeleteUser(r) \/ Logout(r)

Arrival(r) ==
    \/ Login(r)
    \/ \E s \in SessionIds :
         \/ Verify2FA(r, s)
         \/ \E k \in {"confirm", "disable", "erase"} : CodeRequest(r, s, k)
         \/ Enroll2FA(r, s)
         \/ \E k \in {"logout", "logout_all"} : LogoutRequest(r, s, k)

Next ==
    \/ \E r \in Requests : Arrival(r) \/ Handler(r) \/ Refused(r)
    \/ \E s \in SessionIds : Expire(s)
    \/ Tick
    \/ Quiescent

Spec == Init /\ [][Next]_vars

-----------------------------------------------------------------------------
(* Properties.                                                              *)

Kinds == {"none", "login", "login2fa", "verify", "confirm", "disable", "erase",
          "enroll", "logout", "logout_all"}
Labels == {"idle", "create", "fetch", "check", "accept", "rotate", "record",
           "lockout", "enable", "wipe", "delete", "enroll", "logout", "logout_all"}

\* The places a handler of each kind can be.
Places ==
    ({"none"} \X {"idle"})
    \cup ({"login", "login2fa"} \X {"create"})
    \cup ({"verify"} \X {"fetch", "check", "accept", "rotate", "record", "lockout"})
    \cup ({"confirm"} \X {"fetch", "check", "accept", "enable"})
    \cup ({"disable"} \X {"fetch", "check", "accept", "wipe"})
    \cup ({"erase"} \X {"fetch", "check", "accept", "delete"})
    \cup {<<"enroll", "enroll">>, <<"logout", "logout">>,
          <<"logout_all", "logout_all">>}

UserRow == [exists : BOOLEAN, secret : Secrets \cup {NoSecret},
            enabled : BOOLEAN, counter : Nat]
SessionRow == [st : Status, attempts : Nat]
Request == [pc : Labels, kind : Kinds,
            cookie : SessionIds \cup {NoSession},
            secret : Secrets \cup {NoSecret}, counter : Nat, epoch : Nat]
Rotation == [from : SessionIds, to : SessionIds,
             secret : Secrets \cup {NoSecret}, step : Nat, epoch : Nat,
             attempts : Nat]

\* A request that passed a middleware carries the cookie it was admitted with.
Anonymous == {"none", "login", "login2fa"}
Placed(q) == /\ <<q.kind, q.pc>> \in Places
             /\ q.kind \in Anonymous \/ q.cookie \in SessionIds

\* Every variable has its type, and a handler is only ever at one of its own
\* statements: a wrong code of a session-authenticated endpoint, for one, is
\* never counted against a pending login.
TypeOK ==
    /\ user \in UserRow
    /\ sessions \in [SessionIds -> SessionRow]
    /\ req \in [Requests -> Request]
    /\ \A r \in Requests : Placed(req[r])
    /\ now \in FirstStep .. LastStep
    /\ generated \subseteq Secrets
    /\ epoch \in Nat
    /\ rotations \subseteq Rotation
    /\ proven \subseteq Secrets \cup {NoSecret}
    /\ spared \subseteq SessionIds

\* An account never demands a code it has no secret to check against, whatever
\* the order in which a confirm, an enroll and a disable in flight write the
\* row: such a member could not log in at all.
EnabledHasSecret == user.enabled => user.secret # NoSecret

\* A pending session is turned into at most one verified session, however many
\* verifies of the same cookie are in flight (RotatePending's "concurrent
\* double-rotation ... deletes nothing").
OneRotationPerPending ==
    \A a, b \in rotations : a.from = b.from => a = b

\* A code mints at most one verified session between two resets of the replay
\* counter, even when it is submitted on several pending sessions at once.
OneSessionPerCode ==
    \A a, b \in rotations :
        a.epoch = b.epoch /\ a.step = b.step => a = b

\* A pending row that has used up its budget is about to be deleted by the
\* request that used it up, unless that DELETE was lost (the failure is only
\* logged, or the process died before it).
OverBudgetIsDoomed ==
    \A s \in SessionIds :
        sessions[s].st = "pending" /\ sessions[s].attempts >= MaxAttempts =>
            \/ s \in spared
            \/ \E r \in Requests : At(r, "lockout") /\ req[r].cookie = s

\* The token that lived as half a credential never becomes a full one, and one
\* that has been logged out, locked out, rotated or has expired never becomes
\* any again: no statement of a handler that looked at the row before promotes
\* it or brings it back.
NoPromotion ==
    [][\A s \in SessionIds :
         /\ sessions[s].st = "pending" => sessions'[s].st # "verified"
         /\ sessions[s].st = "dead" => sessions'[s].st = "dead"]_sessions

\* The secret of an armed account is never replaced, not even by one that waits
\* for its confirmation: it is wiped, which takes a code of that secret, or the
\* account is erased ("no silent secret swaps").
NoSilentSwap ==
    [][user.enabled => user'.secret \in {user.secret, NoSecret}]_user

\* The pending sessions as one-time secrets: a verified or dead row is spent.
OneTime == INSTANCE OneTimeSecrets WITH
    Secrets <- SessionIds, Exclusive <- FALSE,
    usable <- {s \in SessionIds : sessions[s].st = "pending"},
    spent <- {s \in SessionIds : sessions[s].st \in {"verified", "dead"}},
    used <- {a.from : a \in rotations}

\* A pending session is a one-time secret: it is rotated only while it is
\* pending, which ends its life, so a verify whose code was accepted comes too
\* late once the session expired, was locked out, logged out or rotated by
\* another, however long ago the middleware admitted it.
PendingIsOneTime == OneTime!Spec

-----------------------------------------------------------------------------
(* What comments of the code say and its interleavings do not keep.         *)

\* Enrollment is "confirmed only by whoever holds the matching authenticator",
\* and an unconfirmed one "must never gate login": the secret of an armed
\* account is one a confirm request has seen a code of.
ArmedSecretIsProven == user.enabled => user.secret \in proven
=============================================================================
