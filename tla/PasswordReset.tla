--------------------------- MODULE PasswordReset ---------------------------
(***************************************************************************)
(* The password-reset flow of one account: internal/auth/reset.go, with    *)
(* what it shares with a login (the password and the sessions) and with    *)
(* the erasure of the account.                                             *)
(*                                                                         *)
(* As in TwoFactor a request takes one step per SQL statement; the steps   *)
(* of different requests interleave, and a request may stop between any    *)
(* two of them.  A request keeps its answer until the process serves the   *)
(* next one.                                                               *)
(***************************************************************************)
EXTENDS Naturals, FiniteSets

CONSTANTS
    Requests,       \* requests the server can have in flight
    Tokens,         \* reset tokens the generator can produce
    SessionIds,     \* session tokens the generator can produce
    OldPassword,    \* the password before any reset
    None,           \* no token
    MaxIssue        \* how often issueToken tries

ASSUME DistinctValues == OldPassword \notin Tokens /\ None \notin Tokens
ASSUME TriesPositive  == MaxIssue \in Nat \ {0}

(* Each reset sets a password of its own, named after the token it uses.    *)
Passwords == Tokens \cup {OldPassword}

VARIABLES
    user,       \* the account's row: exists, password
    tokens,     \* token -> its row of password_reset_tokens
    sessions,   \* session id -> its row
    mailed,     \* tokens that have left in an email
    req,        \* request -> where its handler is and what it holds
    \* history, read by properties only
    uses,       \* token -> how often it has been consumed
    wrote,      \* tokens whose password has reached the row
    lastIssued, \* the token stored last
    rivals,     \* request -> tokens others stored while it was issuing
    before,     \* request -> sessions there were when it wrote the password
    lostWipe    \* a session wipe has been lost

history == <<uses, wrote, lastIssued, rivals, before, lostWipe>>
vars == <<user, tokens, sessions, mailed, req, history>>

-----------------------------------------------------------------------------
(* Rows.  An expired, unconsumed token is still a row: the unique index     *)
(* counts it.  Whether a consumed one is expired makes no difference.       *)

TokenStatus == {"unissued", "live", "expired", "consumed", "deleted"}
SessionStatus == {"unissued", "live", "dead"}

Stored == {t \in Tokens : tokens[t] \in {"live", "expired", "consumed"}}
LiveSessions == {s \in SessionIds : sessions[s].st = "live"}

WithoutTokens == [t \in Tokens |-> IF t \in Stored THEN "deleted" ELSE tokens[t]]
WithoutSessions ==
    [s \in SessionIds |-> IF s \in LiveSessions
                            THEN [sessions[s] EXCEPT !.st = "dead"]
                            ELSE sessions[s]]

-----------------------------------------------------------------------------
(* Requests.                                                                *)

Idle == [pc |-> "idle", token |-> None, tries |-> 0, password |-> OldPassword,
         answer |-> "none"]

At(r, l) == req[r].pc = l
Holds(r, q) == req' = [req EXCEPT ![r] = q]
Goto(r, l) == Holds(r, [req[r] EXCEPT !.pc = l])
Answers(r, a) == Holds(r, [req[r] EXCEPT !.pc = "idle", !.answer = a])

\* A free process takes up a request (and its history starts afresh).
Begins(r, q) ==
    /\ At(r, "idle")
    /\ Holds(r, q)
    /\ rivals' = [rivals EXCEPT ![r] = 0]
    /\ before' = [before EXCEPT ![r] = {}]

-----------------------------------------------------------------------------
(* POST /forgot-password: RequestReset and issueToken.                      *)

\* The user is looked up; an unknown address is answered like a known one.
Forgot(r) ==
    /\ Begins(r, IF user.exists
                    THEN [Idle EXCEPT !.pc = "supersede", !.tries = 1]
                    ELSE [Idle EXCEPT !.answer = "sent"])
    /\ UNCHANGED <<user, tokens, sessions, mailed,
                   uses, wrote, lastIssued, lostWipe>>

\* DELETE FROM password_reset_tokens WHERE user_id = ?
Supersede(r) ==
    /\ At(r, "supersede")
    /\ tokens' = WithoutTokens
    /\ Goto(r, "insert")
    /\ UNCHANGED <<user, sessions, mailed, history>>

\* Not the code: there is no partial unique index.
InsertableAlways == TRUE

\* uq_password_reset_tokens_live_user: one unconsumed row per user.
Insertable == \A t \in Tokens : tokens[t] \notin {"live", "expired"}

\* Not the code: a retry does not supersede again.
RetryInsertsOnly(r) == Holds(r, [req[r] EXCEPT !.tries = @ + 1])

\* A unique violation: supersede again, at most MaxIssue times in all.
Retry(r) ==
    IF req[r].tries < MaxIssue
      THEN Holds(r, [req[r] EXCEPT !.pc = "supersede", !.tries = @ + 1])
      ELSE Answers(r, "contention")

Issuing == {r \in Requests : req[r].pc \in {"supersede", "insert"}}

\* The INSERT of a fresh token.  The foreign key fails when the account is
\* gone, and then the request does.
InsertToken(r) ==
    /\ At(r, "insert")
    /\ user.exists
    /\ \/ /\ Insertable
          /\ \E t \in Tokens :
               /\ tokens[t] = "unissued"
               /\ tokens' = [tokens EXCEPT ![t] = "live"]
               /\ Holds(r, [req[r] EXCEPT !.pc = "mail", !.token = t])
               /\ lastIssued' = t
          /\ rivals' = [q \in Requests |-> IF q \in Issuing \ {r}
                                             THEN rivals[q] + 1 ELSE rivals[q]]
       \/ /\ ~Insertable
          /\ Retry(r)
          /\ UNCHANGED <<tokens, lastIssued, rivals>>
    /\ UNCHANGED <<user, sessions, mailed, uses, wrote, before, lostWipe>>

\* sendResetEmail: whatever becomes of the email, the answer is the same.
SendEmail(r) ==
    /\ At(r, "mail")
    /\ \/ mailed' = mailed \cup {req[r].token}
       \/ UNCHANGED mailed
    /\ Answers(r, "sent")
    /\ UNCHANGED <<user, tokens, sessions, history>>

-----------------------------------------------------------------------------
(* POST /reset-password: ConfirmReset and classifyToken.                    *)

\* Not the code: a consumed token can be consumed again, resp. an expired one
\* once.
ConsumableAgain(t) == tokens[t] \in {"live", "consumed"}
ConsumableLate(t) == tokens[t] \in {"live", "expired"}

\* UPDATE ... SET consumed = TRUE WHERE consumed = FALSE AND expires_at > NOW().
Consumable(t) == tokens[t] = "live"

ConsumeToken(r, t) ==
    /\ t \in mailed
    /\ \/ /\ Consumable(t)
          /\ tokens' = [tokens EXCEPT ![t] = "consumed"]
          /\ uses' = [uses EXCEPT ![t] = @ + 1]
          /\ Begins(r, [Idle EXCEPT !.pc = "write", !.token = t])
       \/ /\ ~Consumable(t)
          /\ Begins(r, [Idle EXCEPT !.pc = "classify", !.token = t])
          /\ UNCHANGED <<tokens, uses>>
    /\ UNCHANGED <<user, sessions, mailed, wrote, lastIssued, lostWipe>>

\* Not the code: the row is not asked whether it is consumed.
ClassifiedByRow(t) == IF t \in Stored THEN "expired" ELSE "invalid"

\* Why the consumption matched no row, read in a statement of its own.
Classified(t) == CASE t \notin Stored          -> "invalid"
                   [] tokens[t] = "consumed"   -> "used"
                   [] OTHER                    -> "expired"

ClassifyToken(r) ==
    /\ At(r, "classify")
    /\ Answers(r, Classified(req[r].token))
    /\ UNCHANGED <<user, tokens, sessions, mailed, history>>

\* UpdateUserPassword: nobody asks how many rows it matched.
WritePassword(r) ==
    /\ At(r, "write")
    /\ IF user.exists
         THEN /\ user' = [user EXCEPT !.password = req[r].token]
              /\ wrote' = wrote \cup {req[r].token}
         ELSE UNCHANGED <<user, wrote>>
    /\ before' = [before EXCEPT ![r] = LiveSessions]
    /\ Goto(r, "wipe")
    /\ UNCHANGED <<tokens, sessions, mailed, uses, lastIssued, rivals, lostWipe>>

\* Not the code: the error of the write is logged and the reset goes on.
WriteFailureIgnored(r) == Goto(r, "wipe")

\* A failed write fails the request; the token stays consumed.
WriteFailure(r) == Answers(r, "error")

WriteFails(r) ==
    /\ At(r, "write")
    /\ WriteFailure(r)
    /\ UNCHANGED <<user, tokens, sessions, mailed, history>>

\* Not the code: the sessions are left alone.
NothingWiped == sessions

\* DELETE FROM sessions WHERE user_id = ?
Wiped == WithoutSessions

\* InvalidateAll: a failure is logged only.
WipeSessions(r) ==
    /\ At(r, "wipe")
    /\ \/ sessions' = Wiped /\ Answers(r, "reset") /\ UNCHANGED lostWipe
       \/ UNCHANGED sessions /\ Answers(r, "reset_unwiped") /\ lostWipe' = TRUE
    /\ UNCHANGED <<user, tokens, mailed, uses, wrote, lastIssued, rivals, before>>

-----------------------------------------------------------------------------
(* What the flow shares the account with.                                   *)

\* A login: the password typed is compared with the row's ...
Login(r) ==
    /\ user.exists
    /\ Begins(r, [Idle EXCEPT !.pc = "create", !.password = user.password])
    /\ UNCHANGED <<user, tokens, sessions, mailed, uses, wrote, lastIssued, lostWipe>>

\* ... and a session is created in a later statement.
CreateSession(r) ==
    /\ At(r, "create")
    /\ user.exists
    /\ \E s \in SessionIds :
         /\ sessions[s].st = "unissued"
         /\ sessions' = [sessions EXCEPT
                           ![s] = [st |-> "live", password |-> req[r].password]]
    /\ Answers(r, "login")
    /\ UNCHANGED <<user, tokens, mailed, history>>

\* DELETE FROM users (handleDeleteAccount), with its cascades.
DeleteUser ==
    /\ user.exists
    /\ user' = [user EXCEPT !.exists = FALSE]
    /\ tokens' = WithoutTokens
    /\ sessions' = WithoutSessions
    /\ UNCHANGED <<mailed, req, history>>

\* A statement fails (500), or the process or the client goes away.
Stops(r) ==
    /\ req[r].pc \notin {"idle", "write"}
    /\ Answers(r, "error")
    /\ lostWipe' = (lostWipe \/ At(r, "wipe"))
    /\ UNCHANGED <<user, tokens, sessions, mailed,
                   uses, wrote, lastIssued, rivals, before>>

\* Ten minutes pass.
ExpireToken(t) ==
    /\ tokens[t] = "live"
    /\ tokens' = [tokens EXCEPT ![t] = "expired"]
    /\ UNCHANGED <<user, sessions, mailed, req, history>>

\* Nothing is in flight: the bounded behaviour may end here.
Quiescent ==
    /\ \A r \in Requests : At(r, "idle")
    /\ UNCHANGED vars

-----------------------------------------------------------------------------
\* An account, possibly signed in on one device.
Init ==
    /\ user = [exists |-> TRUE, password |-> OldPassword]
    /\ tokens = [t \in Tokens |-> "unissued"]
    /\ \E S \in {T \in SUBSET SessionIds : Cardinality(T) <= 1} :
         sessions = [s \in SessionIds |->
                       [st |-> IF s \in S THEN "live" ELSE "unissued",
                        password |-> OldPassword]]
    /\ mailed = {}
    /\ req = [r \in Requests |-> Idle]
    /\ uses = [t \in Tokens |-> 0]
    /\ wrote = {}
    /\ lastIssued = None
    /\ rivals = [r \in Requests |-> 0]
    /\ before = [r \in Requests |-> {}]
    /\ lostWipe = FALSE

ForgotPassword(r) == Forgot(r) \/ Supersede(r) \/ InsertToken(r) \/ SendEmail(r)

ConfirmReset(r) ==
    \/ \E t \in Tokens : ConsumeToken(r, t)
    \/ ClassifyToken(r) \/ WritePassword(r) \/ WriteFails(r) \/ WipeSessions(r)

Next ==
    \/ \E r \in Requests :
         ForgotPassword(r) \/ ConfirmReset(r) \/ Login(r) \/ CreateSession(r)
           \/ Stops(r)
    \/ DeleteUser
    \/ \E t \in Tokens : ExpireToken(t)
    \/ Quiescent

Spec == Init /\ [][Next]_vars

-----------------------------------------------------------------------------
(* Properties.                                                              *)

Labels == {"idle", "supersede", "insert", "mail", "write", "wipe", "classify",
           "create"}
Succeeded == {"reset", "reset_unwiped"}
ResetAnswers == Succeeded \cup {"invalid", "expired", "used"}
AllAnswers == ResetAnswers \cup {"none", "sent", "login", "contention", "error"}

\* Every variable has its type; a request that has reached a statement on a
\* token holds one, and never starts a try beyond the last.
TypeOK ==
    /\ user \in [exists : BOOLEAN, password : Passwords]
    /\ tokens \in [Tokens -> TokenStatus]
    /\ sessions \in [SessionIds -> [st : SessionStatus, password : Passwords]]
    /\ mailed \subseteq Tokens
    /\ req \in [Requests -> [pc : Labels, token : Tokens \cup {None},
                             tries : 0 .. MaxIssue, password : Passwords,
                             answer : AllAnswers]]
    /\ \A r \in Requests :
         /\ req[r].pc \in {"mail", "write", "wipe", "classify"} => req[r].token \in Tokens
         /\ req[r].answer \in ResetAnswers => req[r].token \in Tokens
    /\ uses \in [Tokens -> Nat]
    /\ wrote \subseteq Tokens
    /\ lastIssued \in Tokens \cup {None}
    /\ rivals \in [Requests -> Nat]
    /\ before \in [Requests -> SUBSET SessionIds]
    /\ lostWipe \in BOOLEAN

\* A token resets a password at most once, even when two confirms of it race
\* ("two concurrent submits cannot both win").
SingleUse == \A t \in Tokens : uses[t] <= 1

\* Of all the links ever mailed only the one issued last can work: a new
\* request supersedes the others although its DELETE and its INSERT are two
\* statements that other requests come between.
OnlyNewestUsable == \A t \in Tokens : tokens[t] = "live" => t = lastIssued

\* The reason a confirm is refused is the truth, although it is read after the
\* token was refused: "used" is said of a token that has been consumed,
\* "expired" of one that never was and no longer can be, "invalid" of one
\* that was superseded (or whose account is gone).
TruthfulRefusal ==
    \A r \in Requests :
        LET t == req[r].token IN
        /\ req[r].answer = "used" => uses[t] > 0
        /\ req[r].answer = "expired" => uses[t] = 0 /\ tokens[t] # "live"
        /\ req[r].answer = "invalid" => tokens[t] = "deleted"

\* A request for a link is turned away for contention only by other requests
\* that each got theirs: every try it lost was lost to a token stored since
\* it started, so a request that runs alone succeeds at its first try.
RetriesAreLostToRivals ==
    \A r \in Requests :
        /\ r \in Issuing => req[r].tries <= rivals[r] + 1
        /\ req[r].answer = "contention" => rivals[r] >= MaxIssue

\* A reset that was answered with success has changed the password, as long
\* as there still is an account ("fail closed rather than report success for
\* an unchanged password"); UpdateUserPassword does not ask how many rows it
\* matched, so an account erased meanwhile is not noticed.
SuccessMeansWritten ==
    \A r \in Requests :
        req[r].answer \in Succeeded /\ user.exists => req[r].token \in wrote

\* A reset that was answered with success, and whose wipe did not fail, has
\* ended every session there was when it wrote the password.
OldSessionsEnd ==
    \A r \in Requests :
        req[r].answer = "reset" => before[r] \cap LiveSessions = {}

\* The tokens as one-time secrets: an expired, consumed or deleted one is spent.
OneTime == INSTANCE OneTimeSecrets WITH
    Secrets <- Tokens, Exclusive <- TRUE,
    usable <- {t \in Tokens : tokens[t] = "live"},
    spent <- {t \in Tokens : tokens[t] \in {"expired", "consumed", "deleted"}},
    used <- {t \in Tokens : uses[t] > 0}

\* The flow keeps what a store of one-time secrets promises, one usable at a
\* time: no token comes back to life, whatever a supersede, an expiry, a
\* second confirm or the erasure of the account does to its row, and none
\* that is superseded or expired is ever used.
TokensAreOneTime == OneTime!Spec

-----------------------------------------------------------------------------
(* What comments of the code say and its interleavings do not keep.         *)

\* "Every session dies": once no request is in flight and no wipe has been
\* lost, nobody is signed in with a password that a reset has replaced.
ResetEndsEverySession ==
    (\A r \in Requests : At(r, "idle")) /\ ~lostWipe =>
        \A s \in LiveSessions : sessions[s].password = user.password
=============================================================================
