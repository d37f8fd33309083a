------------------------ MODULE PasswordResetProofs ------------------------
(***************************************************************************)
(* What PasswordReset guarantees for any number of requests, tokens,       *)
(* sessions and tries.                                                     *)
(***************************************************************************)
EXTENDS PasswordReset, TLAPS

Request == [pc : Labels, token : Tokens \cup {None}, tries : 0 .. MaxIssue,
            password : Passwords, answer : AllAnswers]

\* A request that has reached a statement on a token, or was answered about
\* one, holds it.
HasToken(q) == /\ q.pc \in {"mail", "write", "wipe", "classify"} => q.token \in Tokens
               /\ q.answer \in ResetAnswers => q.token \in Tokens

ReqOK == req \in [Requests -> Request] /\ \A r \in Requests : HasToken(req[r])

\* The types of everything but the requests.
RowsOK ==
    /\ user \in [exists : BOOLEAN, password : Passwords]
    /\ tokens \in [Tokens -> TokenStatus]
    /\ sessions \in [SessionIds -> [st : SessionStatus, password : Passwords]]
    /\ mailed \subseteq Tokens
    /\ uses \in [Tokens -> Nat]
    /\ wrote \subseteq Tokens
    /\ lastIssued \in Tokens \cup {None}
    /\ rivals \in [Requests -> Nat]
    /\ before \in [Requests -> SUBSET SessionIds]
    /\ lostWipe \in BOOLEAN

\* The type invariant is about the requests and about the rest.
LEMMA TypeSplit == TypeOK <=> ReqOK /\ RowsOK
BY DEF TypeOK, ReqOK, RowsOK, Request, HasToken

-----------------------------------------------------------------------------
(* The ways a handler moves.                                                *)

\* A free process is a request without a token.
LEMMA IdleType == Idle \in Request /\ HasToken(Idle)
BY TriesPositive DEF Idle, Request, HasToken, Labels, Passwords, AllAnswers,
                     ResetAnswers, Succeeded

\* A handler that holds well-typed locals leaves req well typed.
LEMMA HoldsType ==
    ASSUME ReqOK, NEW r \in Requests, NEW q \in Request, HasToken(q), Holds(r, q)
    PROVE  ReqOK'
BY DEF Holds, ReqOK

\* So does one that goes on to a statement its locals are good for.
LEMMA GotoType ==
    ASSUME ReqOK, NEW r \in Requests, NEW l \in Labels, Goto(r, l),
           l \in {"mail", "write", "wipe", "classify"} => req[r].token \in Tokens
    PROVE  ReqOK'
<1> DEFINE q == [req[r] EXCEPT !.pc = l]
<1>1. q \in Request /\ HasToken(q)
    BY DEF ReqOK, Request, HasToken
<1>2. Holds(r, q)
    BY DEF Goto
<1> HIDE DEF q
<1> QED
    BY <1>1, <1>2, HoldsType

\* So does one that answers.
LEMMA AnswersType ==
    ASSUME ReqOK, NEW r \in Requests, NEW a \in AllAnswers, Answers(r, a),
           a \in ResetAnswers => req[r].token \in Tokens
    PROVE  ReqOK'
<1> DEFINE q == [req[r] EXCEPT !.pc = "idle", !.answer = a]
<1>1. q \in Request /\ HasToken(q)
    BY DEF ReqOK, Request, HasToken, Labels
<1>2. Holds(r, q)
    BY DEF Answers
<1> HIDE DEF q
<1> QED
    BY <1>1, <1>2, HoldsType

\* An answer leaves a free process that still knows the token it was about.
LEMMA AfterAnswers ==
    ASSUME req \in [Requests -> Request], NEW r \in Requests, NEW a, Answers(r, a)
    PROVE  req'[r].token = req[r].token /\ req'[r].pc = "idle" /\ req'[r].answer = a
BY DEF Answers, Holds, Request

\* So does one that begins; its history is well typed, too.
LEMMA BeginsType ==
    ASSUME ReqOK, RowsOK, NEW r \in Requests, NEW q \in Request, HasToken(q),
           Begins(r, q)
    PROVE  /\ ReqOK'
           /\ rivals' \in [Requests -> Nat]
           /\ before' \in [Requests -> SUBSET SessionIds]
BY HoldsType DEF Begins, RowsOK

\* Deleting rows leaves rows.
LEMMA WithoutTypes ==
    ASSUME RowsOK
    PROVE  /\ WithoutTokens \in [Tokens -> TokenStatus]
           /\ WithoutSessions \in [SessionIds -> [st : SessionStatus, password : Passwords]]
BY DEF RowsOK, WithoutTokens, WithoutSessions, TokenStatus, SessionStatus, LiveSessions

-----------------------------------------------------------------------------
(* Type correctness.                                                        *)

\* The state the behaviours start in is well typed.
LEMMA InitType == Init => TypeOK
<1> SUFFICES ASSUME Init PROVE ReqOK /\ RowsOK
    BY TypeSplit
<1>1. ReqOK
    BY IdleType DEF Init, ReqOK
<1>2. sessions \in [SessionIds -> [st : SessionStatus, password : Passwords]]
  <2>1. PICK S \in SUBSET SessionIds :
           sessions = [s \in SessionIds |->
                         [st |-> IF s \in S THEN "live" ELSE "unissued",
                          password |-> OldPassword]]
    BY DEF Init
  <2> QED
    BY <2>1 DEF Passwords, SessionStatus
<1>3. RowsOK
    BY <1>2 DEF Init, RowsOK, Passwords, TokenStatus
<1> QED
    BY <1>1, <1>3

\* Every step of every handler and of the environment keeps the types.
LEMMA TypeStep == TypeOK /\ [Next]_vars => TypeOK'
<1> SUFFICES ASSUME ReqOK, RowsOK, [Next]_vars PROVE ReqOK' /\ RowsOK'
    BY DEF TypeOK, ReqOK, RowsOK, Request, HasToken
<1> USE TriesPositive DEF history
<1>1. ASSUME NEW r \in Requests, Forgot(r) PROVE ReqOK' /\ RowsOK'
  <2>a. 1 \in 0 .. MaxIssue
    OBVIOUS
  <2>b. [Idle EXCEPT !.pc = "supersede", !.tries = 1] \in Request
        /\ HasToken([Idle EXCEPT !.pc = "supersede", !.tries = 1])
    BY <2>a, IdleType DEF Request, HasToken, Labels
  <2>1. /\ [Idle EXCEPT !.pc = "supersede", !.tries = 1] \in Request
        /\ HasToken([Idle EXCEPT !.pc = "supersede", !.tries = 1])
        /\ [Idle EXCEPT !.answer = "sent"] \in Request
        /\ HasToken([Idle EXCEPT !.answer = "sent"])
    BY <2>b, IdleType DEF Request, HasToken, AllAnswers, ResetAnswers, Succeeded
  <2> DEFINE q == IF user.exists THEN [Idle EXCEPT !.pc = "supersede", !.tries = 1]
                                 ELSE [Idle EXCEPT !.answer = "sent"]
  <2>2. q \in Request /\ HasToken(q)
    BY <2>1
  <2>3. Begins(r, q)
    BY <1>1 DEF Forgot
  <2> HIDE DEF q
  <2>4. /\ ReqOK'
        /\ rivals' \in [Requests -> Nat]
        /\ before' \in [Requests -> SUBSET SessionIds]
    BY <2>2, <2>3, BeginsType
  <2> QED
    BY <1>1, <2>4 DEF Forgot, RowsOK
<1>2. ASSUME NEW r \in Requests, Supersede(r) PROVE ReqOK' /\ RowsOK'
    BY <1>2, GotoType, WithoutTypes DEF Supersede, RowsOK, Labels
<1>3. ASSUME NEW r \in Requests, InsertToken(r) PROVE ReqOK' /\ RowsOK'
  <2>1. CASE Insertable
    <3>1. PICK t \in Tokens :
             /\ tokens' = [tokens EXCEPT ![t] = "live"]
             /\ Holds(r, [req[r] EXCEPT !.pc = "mail", !.token = t])
             /\ lastIssued' = t
             /\ rivals' = [q \in Requests |-> IF q \in Issuing \ {r}
                                                THEN rivals[q] + 1 ELSE rivals[q]]
      BY <1>3, <2>1 DEF InsertToken
    <3>2. [req[r] EXCEPT !.pc = "mail", !.token = t] \in Request
          /\ HasToken([req[r] EXCEPT !.pc = "mail", !.token = t])
      BY DEF ReqOK, Request, HasToken, Labels
    <3>3. ReqOK'
      BY <3>1, <3>2, HoldsType
    <3>4. tokens' \in [Tokens -> TokenStatus]
      BY <3>1 DEF RowsOK, TokenStatus
    <3>5. rivals' \in [Requests -> Nat]
      BY <3>1 DEF RowsOK
    <3> QED
      BY <1>3, <3>1, <3>3, <3>4, <3>5 DEF InsertToken, RowsOK
  <2>2. CASE ~Insertable
    <3>1. Retry(r) /\ UNCHANGED <<tokens, lastIssued, rivals>>
      BY <1>3, <2>2 DEF InsertToken
    <3>2. ReqOK'
      <4>1. CASE req[r].tries < MaxIssue
        <5>1. req[r] \in Request /\ HasToken(req[r])
          BY DEF ReqOK
        <5>2. req[r].tries + 1 \in 0 .. MaxIssue
          BY <4>1, <5>1 DEF Request
        <5>3. [req[r] EXCEPT !.pc = "supersede", !.tries = @ + 1] \in Request
              /\ HasToken([req[r] EXCEPT !.pc = "supersede", !.tries = @ + 1])
          BY <5>1, <5>2 DEF Request, HasToken, Labels
        <5> QED
          BY <3>1, <4>1, <5>3, HoldsType DEF Retry
      <4>2. CASE ~(req[r].tries < MaxIssue)
        BY <3>1, <4>2, AnswersType DEF Retry, AllAnswers, ResetAnswers, Succeeded
      <4> QED
        BY <4>1, <4>2
    <3> QED
      BY <1>3, <3>1, <3>2 DEF InsertToken, RowsOK
  <2> QED
    BY <2>1, <2>2
<1>4. ASSUME NEW r \in Requests, SendEmail(r) PROVE ReqOK' /\ RowsOK'
  <2>1. req[r].token \in Tokens
    BY <1>4 DEF SendEmail, At, ReqOK, HasToken
  <2> QED
    BY <1>4, <2>1, AnswersType
       DEF SendEmail, RowsOK, AllAnswers, ResetAnswers, Succeeded
<1>5. ASSUME NEW r \in Requests, NEW t \in Tokens, ConsumeToken(r, t)
      PROVE  ReqOK' /\ RowsOK'
  <2>1. ASSUME NEW l \in {"write", "classify"}
        PROVE  /\ [Idle EXCEPT !.pc = l, !.token = t] \in Request
               /\ HasToken([Idle EXCEPT !.pc = l, !.token = t])
    BY IdleType DEF Idle, Request, HasToken, Labels
  <2> QED
    BY <1>5, <2>1, BeginsType DEF ConsumeToken, RowsOK, TokenStatus
<1>6. ASSUME NEW r \in Requests, ClassifyToken(r) PROVE ReqOK' /\ RowsOK'
  <2>1. req[r].token \in Tokens
    BY <1>6 DEF ClassifyToken, At, ReqOK, HasToken
  <2>2. Classified(req[r].token) \in AllAnswers
    BY DEF Classified, AllAnswers, ResetAnswers
  <2> QED
    BY <1>6, <2>1, <2>2, AnswersType DEF ClassifyToken, RowsOK
<1>7. ASSUME NEW r \in Requests, WritePassword(r) PROVE ReqOK' /\ RowsOK'
  <2>1. req[r].token \in Tokens
    BY <1>7 DEF WritePassword, At, ReqOK, HasToken
  <2> QED
    BY <1>7, <2>1, GotoType DEF WritePassword, RowsOK, Labels, Passwords, LiveSessions
<1>8. ASSUME NEW r \in Requests, WriteFails(r) PROVE ReqOK' /\ RowsOK'
    BY <1>8, AnswersType
       DEF WriteFails, WriteFailure, RowsOK, AllAnswers, ResetAnswers, Succeeded
<1>9. ASSUME NEW r \in Requests, WipeSessions(r) PROVE ReqOK' /\ RowsOK'
  <2>1. req[r].token \in Tokens
    BY <1>9 DEF WipeSessions, At, ReqOK, HasToken
  <2> QED
    BY <1>9, <2>1, AnswersType, WithoutTypes
       DEF WipeSessions, Wiped, RowsOK, AllAnswers, ResetAnswers, Succeeded
<1>10. ASSUME NEW r \in Requests, Login(r) PROVE ReqOK' /\ RowsOK'
  <2>1. /\ [Idle EXCEPT !.pc = "create", !.password = user.password] \in Request
        /\ HasToken([Idle EXCEPT !.pc = "create", !.password = user.password])
    BY IdleType DEF Idle, Request, HasToken, Labels, RowsOK
  <2> QED
    BY <1>10, <2>1, BeginsType DEF Login, RowsOK
<1>11. ASSUME NEW r \in Requests, CreateSession(r) PROVE ReqOK' /\ RowsOK'
  <2>1. req[r].password \in Passwords
    BY DEF ReqOK, Request
  <2> QED
    BY <1>11, <2>1, AnswersType
       DEF CreateSession, RowsOK, SessionStatus, AllAnswers, ResetAnswers, Succeeded
<1>12. ASSUME NEW r \in Requests, Stops(r) PROVE ReqOK' /\ RowsOK'
    BY <1>12, AnswersType DEF Stops, RowsOK, AllAnswers, ResetAnswers, Succeeded
<1>13. CASE DeleteUser
    BY <1>13, WithoutTypes DEF DeleteUser, RowsOK, ReqOK
<1>14. ASSUME NEW t \in Tokens, ExpireToken(t) PROVE ReqOK' /\ RowsOK'
    BY <1>14 DEF ExpireToken, RowsOK, ReqOK, TokenStatus
<1>15. CASE UNCHANGED vars
    BY <1>15 DEF vars, RowsOK, ReqOK
<1> QED
    BY <1>1, <1>2, <1>3, <1>4, <1>5, <1>6, <1>7, <1>8, <1>9, <1>10, <1>11, <1>12,
       <1>13, <1>14, <1>15 DEF Next, ForgotPassword, ConfirmReset, Quiescent

\* Every variable keeps its type, and a handler at a statement on a token holds
\* one (reset.go).
THEOREM ResetTyped == Spec => []TypeOK
    BY InitType, TypeStep, PTL DEF Spec

-----------------------------------------------------------------------------
(* What a step does to the tokens.                                          *)

Issued(t) == /\ tokens[t] = "unissued"
             /\ Insertable
             /\ tokens' = [tokens EXCEPT ![t] = "live"]
             /\ lastIssued' = t
             /\ UNCHANGED uses

Consumed(t) == /\ tokens[t] = "live"
               /\ tokens' = [tokens EXCEPT ![t] = "consumed"]
               /\ uses' = [uses EXCEPT ![t] = @ + 1]
               /\ UNCHANGED lastIssued

Deleted == tokens' = WithoutTokens /\ UNCHANGED <<uses, lastIssued>>

Expired(t) == /\ tokens[t] = "live"
              /\ tokens' = [tokens EXCEPT ![t] = "expired"]
              /\ UNCHANGED <<uses, lastIssued>>

\* A step issues, consumes or expires one token, deletes them all, or leaves
\* them alone.
LEMMA TokenMoves ==
    ASSUME [Next]_vars
    PROVE  \/ \E t \in Tokens : Issued(t) \/ Consumed(t) \/ Expired(t)
           \/ Deleted
           \/ UNCHANGED <<tokens, uses, lastIssued>>
<1> USE DEF history
<1>1. ASSUME NEW r \in Requests, InsertToken(r)
      PROVE  (\E t \in Tokens : Issued(t)) \/ UNCHANGED <<tokens, uses, lastIssued>>
    BY <1>1 DEF InsertToken, Issued
<1>2. ASSUME NEW r \in Requests, NEW t \in Tokens, ConsumeToken(r, t)
      PROVE  Consumed(t) \/ UNCHANGED <<tokens, uses, lastIssued>>
    BY <1>2 DEF ConsumeToken, Consumable, Consumed
<1>3. ASSUME NEW r \in Requests, Supersede(r) PROVE Deleted
    BY <1>3 DEF Supersede, Deleted
<1>4. CASE DeleteUser
    BY <1>4 DEF DeleteUser, Deleted
<1>5. ASSUME NEW t \in Tokens, ExpireToken(t) PROVE Expired(t)
    BY <1>5 DEF ExpireToken, Expired
<1>6. ASSUME NEW r \in Requests,
             \/ Forgot(r) \/ SendEmail(r) \/ ClassifyToken(r) \/ WritePassword(r)
             \/ WriteFails(r) \/ WipeSessions(r) \/ Login(r) \/ CreateSession(r)
             \/ Stops(r)
      PROVE  UNCHANGED <<tokens, uses, lastIssued>>
    BY <1>6 DEF Forgot, SendEmail, ClassifyToken, WritePassword, WriteFails,
                WipeSessions, Login, CreateSession, Stops
<1>7. CASE UNCHANGED vars
    BY <1>7 DEF vars
<1> QED
    BY <1>1, <1>2, <1>3, <1>4, <1>5, <1>6, <1>7
       DEF Next, ForgotPassword, ConfirmReset, Quiescent

-----------------------------------------------------------------------------
(* Tokens.                                                                  *)

\* The row of a token knows whether it has been consumed, until it is deleted.
UsesOK ==
    \A t \in Tokens :
        /\ uses[t] <= 1
        /\ uses[t] > 0 => tokens[t] \in {"consumed", "deleted"}
        /\ tokens[t] = "consumed" => uses[t] > 0

TokensOK == UsesOK /\ OnlyNewestUsable

\* No step consumes a token twice or leaves two of them usable.
LEMMA TokensStep == TypeOK /\ TokensOK /\ [Next]_vars => TokensOK'
<1> SUFFICES ASSUME TypeOK, TokensOK, [Next]_vars PROVE TokensOK'
    OBVIOUS
<1>1. /\ tokens \in [Tokens -> TokenStatus] /\ uses \in [Tokens -> Nat]
      /\ \A t \in Tokens : uses[t] = 0 \/ uses[t] > 0
    BY DEF TypeOK
<1>2. ASSUME NEW t \in Tokens, Issued(t) PROVE TokensOK'
    BY <1>1, <1>2 DEF TokensOK, UsesOK, OnlyNewestUsable, Issued, Insertable
<1>3. ASSUME NEW t \in Tokens, Consumed(t) PROVE TokensOK'
    BY <1>1, <1>3 DEF TokensOK, UsesOK, OnlyNewestUsable, Consumed
<1>4. ASSUME NEW t \in Tokens, Expired(t) PROVE TokensOK'
    BY <1>1, <1>4 DEF TokensOK, UsesOK, OnlyNewestUsable, Expired
<1>5. CASE Deleted
    BY <1>1, <1>5 DEF TokensOK, UsesOK, OnlyNewestUsable, Deleted, WithoutTokens, Stored
<1>6. CASE UNCHANGED <<tokens, uses, lastIssued>>
    BY <1>6 DEF TokensOK, UsesOK, OnlyNewestUsable
<1> QED
    BY <1>2, <1>3, <1>4, <1>5, <1>6, TokenMoves

\* The tokens are in order in every state.
LEMMA TokensInOrder == Spec => []TokensOK
<1>1. Init => TokensOK
    BY DEF Init, TokensOK, UsesOK, OnlyNewestUsable
<1> QED
    BY <1>1, ResetTyped, TokensStep, PTL DEF Spec

\* However many requests race, a token resets a password at most once
\* (ConfirmReset's atomic UPDATE, reset.go).
THEOREM ResetOnce == Spec => []SingleUse
<1>1. TokensOK => SingleUse
    BY DEF TokensOK, UsesOK, SingleUse
<1> QED
    BY <1>1, TokensInOrder, PTL

\* However many requests for a link race, only the link stored last can work
\* (issueToken's DELETE and INSERT and the unique index they rely on).
THEOREM NewestOnly == Spec => []OnlyNewestUsable
<1>1. TokensOK => OnlyNewestUsable
    BY DEF TokensOK
<1> QED
    BY <1>1, TokensInOrder, PTL

-----------------------------------------------------------------------------
(* The tokens as one-time secrets.                                          *)

Usable == {t \in Tokens : tokens[t] = "live"}
Spent == {t \in Tokens : tokens[t] \in {"expired", "consumed", "deleted"}}
Used == {t \in Tokens : uses[t] > 0}

\* Every step of the flow is one of the abstract store, or leaves it alone.
LEMMA OneTimeStep ==
    ASSUME TypeOK, TokensOK, [Next]_vars
    PROVE  OneTime!Next \/ UNCHANGED <<Usable, Spent, Used>>
<1>1. /\ tokens \in [Tokens -> TokenStatus] /\ uses \in [Tokens -> Nat]
      /\ \A t \in Tokens : uses[t] = 0 \/ uses[t] > 0
    BY DEF TypeOK
<1>2. ASSUME NEW t \in Tokens, Issued(t) PROVE OneTime!Issue(t)
  <2>1. t \notin Usable \cup Spent /\ Usable = {}
    BY <1>2 DEF Issued, Insertable, Usable, Spent
  <2>2. Usable' = Usable \cup {t} /\ UNCHANGED <<Spent, Used>>
    BY <1>1, <1>2 DEF Issued, Usable, Spent, Used
  <2> QED
    BY <2>1, <2>2 DEF OneTime!Issue, Usable, Spent, Used
<1>3. ASSUME NEW t \in Tokens, Consumed(t) PROVE OneTime!Use(t, {})
  <2>1. t \in Usable
    BY <1>3 DEF Consumed, Usable
  <2>2. Usable' = Usable \ ({t} \cup {})
    BY <1>1, <1>3 DEF Consumed, Usable
  <2>3. Spent' = Spent \cup {t} \cup {}
    BY <1>1, <1>3 DEF Consumed, Spent
  <2>4. Used' = Used \cup {t}
    BY <1>1, <1>3 DEF Consumed, Used
  <2> QED
    BY <2>1, <2>2, <2>3, <2>4 DEF OneTime!Use, Usable, Spent, Used
<1>4. ASSUME NEW t \in Tokens, Expired(t) PROVE OneTime!Withdraw({t})
  <2>1. Usable' = Usable \ {t} /\ Spent' = Spent \cup {t} /\ UNCHANGED Used
    BY <1>1, <1>4 DEF Expired, Usable, Spent, Used
  <2> QED
    BY <2>1 DEF OneTime!Withdraw, Usable, Spent, Used
<1>5. ASSUME Deleted PROVE \E X \in SUBSET Tokens : OneTime!Withdraw(X)
  <2> DEFINE W == Stored
  <2>1. Usable' = Usable \ W
    BY <1>1, <1>5 DEF Deleted, WithoutTokens, Stored, Usable
  <2>2. Spent' = Spent \cup W
    BY <1>1, <1>5 DEF Deleted, WithoutTokens, Stored, Spent
  <2>3. UNCHANGED Used
    BY <1>5 DEF Deleted, Used
  <2>4. W \in SUBSET Tokens
    BY DEF Stored
  <2> HIDE DEF W
  <2> QED
    BY <2>1, <2>2, <2>3, <2>4 DEF OneTime!Withdraw, Usable, Spent, Used
<1>6. CASE UNCHANGED <<tokens, uses, lastIssued>>
    BY <1>6 DEF Usable, Spent, Used
<1> QED
    BY <1>2, <1>3, <1>4, <1>5, <1>6, TokenMoves DEF OneTime!Next

\* The reset flow implements a store of one-time secrets of which one is usable
\* at a time, for any number of requests and tokens (reset.go).
THEOREM TokensImplementOneTime == Spec => TokensAreOneTime
<1>1. Init => OneTime!Init
    BY DEF Init, OneTime!Init
<1>2. TypeOK /\ TokensOK /\ [Next]_vars => [OneTime!Next]_(OneTime!secretVars)
    BY OneTimeStep DEF OneTime!secretVars, Usable, Spent, Used
<1> QED
    BY <1>1, <1>2, ResetTyped, TokensInOrder, PTL DEF Spec, TokensAreOneTime, OneTime!Spec

-----------------------------------------------------------------------------
(* Handlers: at most one moves, and what the others rely on stays.          *)

Moves(r) == ForgotPassword(r) \/ ConfirmReset(r) \/ Login(r) \/ CreateSession(r)
              \/ Stops(r)

\* A handler that waits keeps its locals, and learns of every token stored.
Rests(r) ==
    /\ req'[r] = req[r] /\ before'[r] = before[r]
    /\ rivals'[r] >= rivals[r]
    /\ r \in Issuing /\ Insertable /\ ~Insertable' => rivals'[r] >= rivals[r] + 1

\* A token that is not stored any more, or is consumed or expired, is no
\* obstacle to the one being inserted; only an insertion takes the place.
LEMMA PlaceStays ==
    ASSUME TypeOK, [Next]_vars, ~(\E t \in Tokens : Issued(t)), Insertable
    PROVE  Insertable'
<1>1. tokens \in [Tokens -> TokenStatus]
    BY DEF TypeOK
<1>2. ASSUME NEW t \in Tokens, Consumed(t) \/ Expired(t) PROVE Insertable'
    BY <1>1, <1>2 DEF Consumed, Expired, Insertable
<1>3. CASE Deleted
    BY <1>1, <1>3 DEF Deleted, WithoutTokens, Stored, Insertable
<1>4. CASE UNCHANGED <<tokens, uses, lastIssued>>
    BY <1>4 DEF Insertable
<1> QED
    BY <1>2, <1>3, <1>4, TokenMoves

\* Every step is one of this handler, or one during which it rests.
LEMMA OthersRest ==
    ASSUME TypeOK, [Next]_vars, NEW r \in Requests
    PROVE  Moves(r) \/ Rests(r)
<1> USE DEF history
<1>1. /\ req \in [Requests -> Request] /\ rivals \in [Requests -> Nat]
      /\ before \in [Requests -> SUBSET SessionIds]
    BY DEF TypeOK, Request
<1>2. ASSUME NEW q \in Requests, InsertToken(q), q # r PROVE Rests(r)
  <2>1. CASE Insertable
    <3>1. rivals' = [p \in Requests |-> IF p \in Issuing \ {q}
                                          THEN rivals[p] + 1 ELSE rivals[p]]
      BY <1>2, <2>1 DEF InsertToken
    <3>2. req'[r] = req[r] /\ UNCHANGED before
      BY <1>1, <1>2, <2>1 DEF InsertToken, Holds
    <3> QED
      BY <1>1, <1>2, <3>1, <3>2 DEF Rests
  <2>2. CASE ~Insertable
    <3>1. req'[r] = req[r] /\ UNCHANGED <<before, rivals>>
      BY <1>1, <1>2, <2>2 DEF InsertToken, Retry, Answers, Holds
    <3> QED
      BY <1>1, <2>2, <3>1 DEF Rests
  <2> QED
    BY <2>1, <2>2
<1>3. ASSUME req'[r] = req[r], before'[r] = before[r], rivals'[r] = rivals[r],
             ~(\E t \in Tokens : Issued(t))
      PROVE  Rests(r)
    BY <1>1, <1>3, PlaceStays DEF Rests
<1>4. ASSUME NEW q \in Requests, Moves(q), ~InsertToken(q)
      PROVE  ~(\E t \in Tokens : Issued(t))
  <2>1. ASSUME NEW t \in Tokens, tokens[t] = "unissued" PROVE tokens'[t] # "live"
    BY <1>4, <2>1
       DEF Moves, ForgotPassword, ConfirmReset, Forgot, Supersede, WithoutTokens,
           Stored, SendEmail, ConsumeToken, Consumable, ClassifyToken, WritePassword,
           WriteFails, WipeSessions, Login, CreateSession, Stops, TypeOK
  <2> QED
    BY <2>1 DEF Issued, TypeOK
<1>5. ASSUME NEW q \in Requests, Moves(q), ~InsertToken(q), q # r PROVE Rests(r)
  <2>1. req'[r] = req[r] /\ before'[r] = before[r] /\ rivals'[r] = rivals[r]
    BY <1>1, <1>5
       DEF Moves, ForgotPassword, ConfirmReset, Forgot, Supersede, SendEmail,
           ConsumeToken, ClassifyToken, WritePassword, WriteFails, WriteFailure,
           WipeSessions, Login, CreateSession, Stops, Begins, Answers, Goto, Holds
  <2> QED
    BY <1>3, <1>4, <1>5, <2>1
<1>6. CASE DeleteUser \/ (\E t \in Tokens : ExpireToken(t)) \/ UNCHANGED vars
  <2>1. ~(\E t \in Tokens : Issued(t))
    BY <1>6 DEF DeleteUser, ExpireToken, vars, Issued, WithoutTokens, Stored, TypeOK
  <2> QED
    BY <1>3, <1>6, <2>1 DEF DeleteUser, ExpireToken, vars
<1>7. (\E q \in Requests : Moves(q))
        \/ DeleteUser \/ (\E t \in Tokens : ExpireToken(t)) \/ UNCHANGED vars
    BY DEF Next, Moves, Quiescent
<1>8. ASSUME NEW q \in Requests, Moves(q), q # r PROVE Rests(r)
    BY <1>2, <1>5, <1>8
<1> QED
    BY <1>6, <1>7, <1>8

-----------------------------------------------------------------------------
(* Answers.                                                                 *)

\* What a handler that holds q may say of its token, and may still have to.
Truthful(q) ==
    /\ q.pc # "idle" => q.answer = "none"
    /\ q.token \in Tokens => tokens[q.token] # "unissued"
    /\ q.pc = "classify" => tokens[q.token] # "live"
    /\ q.answer = "used" => uses[q.token] > 0
    /\ q.answer = "expired" => uses[q.token] = 0 /\ tokens[q.token] # "live"
    /\ q.answer = "invalid" => tokens[q.token] = "deleted"

MailedIssued == \A t \in mailed : tokens[t] # "unissued"

AnswersOK == MailedIssued /\ \A r \in Requests : Truthful(req[r])

\* What is true of a token stays true whatever happens to it meanwhile.
LEMMA TruthStays ==
    ASSUME TypeOK, TokensOK, [Next]_vars, NEW q \in Request, HasToken(q), Truthful(q)
    PROVE  Truthful(q)'
<1>1. /\ tokens \in [Tokens -> TokenStatus] /\ uses \in [Tokens -> Nat]
    BY DEF TypeOK
<1>2. q.token \in Tokens =>
         /\ tokens[q.token] # "unissued" => tokens'[q.token] # "unissued"
         /\ tokens[q.token] \notin {"live", "unissued"} => tokens'[q.token] # "live"
         /\ tokens[q.token] = "deleted" => tokens'[q.token] = "deleted"
         /\ uses[q.token] > 0 => uses'[q.token] > 0
         /\ tokens[q.token] \notin {"live", "unissued"} /\ uses[q.token] = 0
              => uses'[q.token] = 0
  <2>1. ASSUME NEW t \in Tokens, Issued(t) PROVE <1>2
    BY <1>1, <2>1 DEF Issued
  <2>2. ASSUME NEW t \in Tokens, Consumed(t) PROVE <1>2
    BY <1>1, <2>2 DEF Consumed
  <2>3. ASSUME NEW t \in Tokens, Expired(t) PROVE <1>2
    BY <1>1, <2>3 DEF Expired
  <2>4. CASE Deleted
    BY <1>1, <2>4 DEF Deleted, WithoutTokens, Stored
  <2> QED
    BY <2>1, <2>2, <2>3, <2>4, TokenMoves
<1>3. q.pc = "classify" \/ q.answer \in {"used", "expired", "invalid"} => q.token \in Tokens
    BY DEF HasToken, ResetAnswers, Succeeded
<1> QED
    BY <1>2, <1>3 DEF Truthful

\* Every step of a handler leaves it with nothing but the truth to tell.
LEMMA AnswersStep ==
    ASSUME TypeOK, TokensOK, AnswersOK, [Next]_vars
    PROVE  AnswersOK'
<1> USE DEF history
<1>1. /\ tokens \in [Tokens -> TokenStatus] /\ uses \in [Tokens -> Nat]
      /\ req \in [Requests -> Request] /\ \A r \in Requests : HasToken(req[r])
    BY DEF TypeOK, Request, HasToken
<1>2. MailedIssued'
  <2>1. ASSUME NEW t \in Tokens, tokens[t] # "unissued" PROVE tokens'[t] # "unissued"
    BY <1>1, <2>1, TokenMoves
       DEF Issued, Consumed, Expired, Deleted, WithoutTokens, Stored
  <2>2. mailed \subseteq Tokens /\ \A t \in mailed : tokens[t] # "unissued"
    BY DEF TypeOK, AnswersOK, MailedIssued
  <2>3. ASSUME NEW r \in Requests, SendEmail(r)
        PROVE  req[r].token \in Tokens /\ tokens[req[r].token] # "unissued"
    BY <1>1, <2>3 DEF SendEmail, At, HasToken, AnswersOK, Truthful
  <2>4. \A t \in mailed' : t \in mailed \/ \E r \in Requests : SendEmail(r) /\ t = req[r].token
    BY DEF Next, ForgotPassword, ConfirmReset, Forgot, Supersede, InsertToken, SendEmail,
           ConsumeToken, ClassifyToken, WritePassword, WriteFails, WipeSessions, Login,
           CreateSession, Stops, DeleteUser, ExpireToken, Quiescent, vars
  <2> QED
    BY <2>1, <2>2, <2>3, <2>4 DEF MailedIssued
<1>3. ASSUME NEW r \in Requests PROVE Truthful(req[r])'
  <2> req[r] \in Request /\ HasToken(req[r]) /\ Truthful(req[r])
    BY <1>1 DEF AnswersOK
  <2>1. CASE req'[r] = req[r]
    BY <2>1, TruthStays DEF Truthful
  <2>2. CASE Forgot(r) \/ Login(r)
    <3>1. /\ req'[r].token = None
          /\ req'[r].pc \in {"supersede", "create", "idle"}
          /\ req'[r].answer \in {"none", "sent"}
          /\ req'[r].pc # "idle" => req'[r].answer = "none"
      <4>1. CASE Forgot(r)
        <5>1. req'[r] \in {[Idle EXCEPT !.pc = "supersede", !.tries = 1],
                           [Idle EXCEPT !.answer = "sent"]}
          BY <1>1, <4>1 DEF Forgot, Begins, Holds
        <5> QED
          BY <5>1 DEF Idle
      <4>2. CASE Login(r)
        <5>1. req'[r] = [Idle EXCEPT !.pc = "create", !.password = user.password]
          BY <1>1, <4>2 DEF Login, Begins, Holds
        <5> QED
          BY <5>1 DEF Idle
      <4> QED
        BY <2>2, <4>1, <4>2
    <3> QED
      BY <3>1, DistinctValues DEF Truthful
  <2>3. CASE Supersede(r)
    <3> DEFINE q == [req[r] EXCEPT !.pc = "insert"]
    <3>1. req'[r] = q /\ req[r].pc = "supersede"
      BY <1>1, <2>3 DEF Supersede, At, Goto, Holds
    <3>2. q \in Request /\ HasToken(q) /\ Truthful(q)
      BY <3>1 DEF Request, Labels, HasToken, Truthful
    <3> HIDE DEF q
    <3> QED
      BY <3>1, <3>2, TruthStays DEF Truthful
  <2>4. CASE InsertToken(r)
    <3>1. CASE Insertable
      <4>1. PICK t \in Tokens :
              /\ tokens' = [tokens EXCEPT ![t] = "live"]
              /\ req' = [req EXCEPT ![r] = [req[r] EXCEPT !.pc = "mail", !.token = t]]
        BY <2>4, <3>1 DEF InsertToken, Holds
      <4>2. tokens'[t] = "live" /\ req'[r].token = t /\ req'[r].pc = "mail"
              /\ req'[r].answer = "none"
        BY <1>1, <2>4, <4>1 DEF InsertToken, At, Truthful, Request
      <4> QED
        BY <4>2 DEF Truthful
    <3>2. CASE ~Insertable
      <4>1. /\ UNCHANGED <<tokens, uses>>
            /\ req'[r].token = req[r].token
            /\ \/ req'[r].pc = "supersede" /\ req'[r].answer = "none"
               \/ req'[r].pc = "idle" /\ req'[r].answer = "contention"
        <5>1. UNCHANGED <<tokens, uses>> /\ Retry(r) /\ req[r].answer = "none"
          BY <2>4, <3>2 DEF InsertToken, At, Truthful
        <5>2. CASE Answers(r, "contention")
          BY <1>1, <5>1, <5>2, AfterAnswers
        <5>3. CASE Holds(r, [req[r] EXCEPT !.pc = "supersede", !.tries = @ + 1])
          <6>1. req'[r] = [req[r] EXCEPT !.pc = "supersede", !.tries = @ + 1]
            BY <1>1, <5>3 DEF Holds
          <6> QED
            BY <5>1, <6>1 DEF Request
        <5> QED
          BY <5>1, <5>2, <5>3 DEF Retry
      <4> QED
        BY <4>1 DEF Truthful
    <3> QED
      BY <3>1, <3>2
  <2>5. CASE SendEmail(r) \/ CreateSession(r) \/ Stops(r) \/ WriteFails(r) \/ WipeSessions(r)
    <3>1. /\ UNCHANGED <<tokens, uses>>
          /\ req'[r].token = req[r].token /\ req'[r].pc = "idle"
          /\ req'[r].answer \in {"sent", "login", "error", "reset", "reset_unwiped"}
      <4>1. UNCHANGED <<tokens, uses>>
        BY <2>5 DEF SendEmail, CreateSession, Stops, WriteFails, WipeSessions
      <4>2. \E a \in {"sent", "login", "error", "reset", "reset_unwiped"} : Answers(r, a)
        BY <2>5 DEF SendEmail, CreateSession, Stops, WriteFails, WriteFailure, WipeSessions
      <4> QED
        BY <1>1, <4>1, <4>2, AfterAnswers
    <3> QED
      BY <3>1 DEF Truthful
  <2>6. ASSUME NEW t \in Tokens, ConsumeToken(r, t) PROVE Truthful(req[r])'
    <3>1. tokens[t] # "unissued"
      BY <2>6 DEF ConsumeToken, AnswersOK, MailedIssued
    <3>2. /\ req'[r].token = t /\ req'[r].answer = "none"
          /\ \/ req'[r].pc = "write" /\ tokens'[t] = "consumed"
             \/ req'[r].pc = "classify" /\ tokens'[t] = tokens[t] /\ tokens[t] # "live"
      <4>1. CASE Consumable(t)
        <5>1. req'[r] = [Idle EXCEPT !.pc = "write", !.token = t]
          BY <1>1, <2>6, <4>1 DEF ConsumeToken, Begins, Holds
        <5> QED
          BY <1>1, <2>6, <4>1, <5>1 DEF ConsumeToken, Idle
      <4>2. CASE ~Consumable(t)
        <5>1. req'[r] = [Idle EXCEPT !.pc = "classify", !.token = t]
          BY <1>1, <2>6, <4>2 DEF ConsumeToken, Begins, Holds
        <5> QED
          BY <2>6, <4>2, <5>1 DEF ConsumeToken, Consumable, Idle
      <4> QED
        BY <4>1, <4>2
    <3> QED
      BY <3>1, <3>2 DEF Truthful
  <2>7. CASE ClassifyToken(r)
    <3>1. /\ req[r].token \in Tokens
          /\ req' = [req EXCEPT ![r] = [req[r] EXCEPT !.pc = "idle",
                                          !.answer = Classified(req[r].token)]]
          /\ UNCHANGED <<tokens, uses>>
      BY <1>1, <2>7 DEF ClassifyToken, At, Answers, Holds, HasToken
    <3>2. tokens[req[r].token] \in {"expired", "consumed", "deleted"}
      BY <1>1, <2>7, <3>1 DEF ClassifyToken, At, Truthful, TokenStatus
    <3>3. /\ tokens[req[r].token] = "consumed" => uses[req[r].token] > 0
          /\ tokens[req[r].token] = "expired" => uses[req[r].token] = 0
      BY <1>1, <3>1 DEF TokensOK, UsesOK
    <3> QED
      BY <1>1, <3>1, <3>2, <3>3 DEF Classified, Stored, Truthful
  <2>8. CASE WritePassword(r)
    BY <1>1, <2>8 DEF WritePassword, At, Goto, Holds, Truthful
  <2> QED
    BY <2>1, <2>2, <2>3, <2>4, <2>5, <2>6, <2>7, <2>8, OthersRest
       DEF Moves, ForgotPassword, ConfirmReset, Rests
<1> QED
    BY <1>2, <1>3 DEF AnswersOK

\* No handler ever has anything but the truth to tell.
LEMMA AnswersInOrder == Spec => []AnswersOK
<1>1. Init => AnswersOK
    BY DistinctValues DEF Init, AnswersOK, MailedIssued, Truthful, Idle
<1> QED
    BY <1>1, ResetTyped, TokensInOrder, AnswersStep, PTL DEF Spec

\* The reason a confirm is refused, read in a second statement, is the truth
\* whatever happened to the token between the two (classifyToken, reset.go).
THEOREM RefusalsAreTrue == Spec => []TruthfulRefusal
<1>1. AnswersOK => TruthfulRefusal
    BY DEF AnswersOK, Truthful, TruthfulRefusal
<1> QED
    BY <1>1, AnswersInOrder, PTL

-----------------------------------------------------------------------------
(* Where the moves of a handler lead.                                       *)

\* A handler that has not answered has nothing in its answer.
Unanswered == \A r \in Requests : ~At(r, "idle") => req[r].answer = "none"

\* An answer is given last.
LEMMA NotYetAnswered == AnswersOK => Unanswered
BY DEF AnswersOK, Truthful, Unanswered, At

\* The first statement of a request for a link.
LEMMA ForgotMoves ==
    ASSUME TypeOK, NEW r \in Requests, Forgot(r)
    PROVE  /\ before'[r] = {} /\ rivals'[r] = 0
           /\ \/ req'[r].pc = "supersede" /\ req'[r].tries = 1 /\ req'[r].answer = "none"
              \/ req'[r].pc = "idle" /\ req'[r].answer = "sent"
<1>1. /\ before'[r] = {} /\ rivals'[r] = 0
      /\ req'[r] \in {[Idle EXCEPT !.pc = "supersede", !.tries = 1],
                      [Idle EXCEPT !.answer = "sent"]}
    BY DEF Forgot, Begins, Holds, TypeOK
<1> QED
    BY <1>1 DEF Idle

\* The DELETE makes room for the INSERT.
LEMMA SupersedeMoves ==
    ASSUME TypeOK, Unanswered, NEW r \in Requests, Supersede(r)
    PROVE  /\ UNCHANGED <<before, rivals>>
           /\ req[r].pc = "supersede" /\ Insertable'
           /\ req'[r].pc = "insert" /\ req'[r].tries = req[r].tries
           /\ req'[r].answer = "none"
<1>1. /\ UNCHANGED <<before, rivals>> /\ tokens' = WithoutTokens
      /\ req[r].pc = "supersede" /\ req[r].answer = "none"
      /\ req'[r] = [req[r] EXCEPT !.pc = "insert"]
    BY DEF Supersede, history, At, Goto, Holds, TypeOK, Unanswered
<1>2. Insertable'
    BY <1>1 DEF WithoutTokens, Stored, Insertable, TypeOK
<1> QED
    BY <1>1, <1>2 DEF TypeOK

\* The INSERT succeeds, or is tried again, or is given up at the last try.
LEMMA InsertMoves ==
    ASSUME TypeOK, Unanswered, NEW r \in Requests, InsertToken(r)
    PROVE  /\ UNCHANGED before /\ rivals'[r] = rivals[r] /\ req[r].pc = "insert"
           /\ \/ req'[r].pc = "mail" /\ req'[r].answer = "none"
              \/ /\ ~Insertable /\ req'[r].pc = "supersede"
                 /\ req'[r].tries = req[r].tries + 1 /\ req'[r].answer = "none"
              \/ /\ ~Insertable /\ req[r].tries >= MaxIssue
                 /\ req'[r].pc = "idle" /\ req'[r].answer = "contention"
<1>1. /\ req \in [Requests -> Request] /\ rivals \in [Requests -> Nat]
      /\ req[r].tries \in Nat
    BY DEF TypeOK, Request
<1>2. UNCHANGED before /\ req[r].pc = "insert" /\ req[r].answer = "none"
    BY DEF InsertToken, At, Unanswered
<1>3. CASE Insertable
  <2>1. \E t \in Tokens : req'[r] = [req[r] EXCEPT !.pc = "mail", !.token = t]
    BY <1>1, <1>3 DEF InsertToken, Holds
  <2>2. rivals'[r] = rivals[r]
    BY <1>1, <1>3 DEF InsertToken
  <2> QED
    BY <1>1, <1>2, <2>1, <2>2 DEF Request
<1>4. CASE ~Insertable
  <2>1. Retry(r) /\ UNCHANGED rivals
    BY <1>4 DEF InsertToken
  <2>2. CASE req[r].tries < MaxIssue
    <3>1. req'[r] = [req[r] EXCEPT !.pc = "supersede", !.tries = @ + 1]
      BY <1>1, <2>1, <2>2 DEF Retry, Holds
    <3> QED
      BY <1>1, <1>2, <1>4, <2>1, <3>1 DEF Request
  <2>3. CASE ~(req[r].tries < MaxIssue)
    <3>1. Answers(r, "contention")
      BY <2>1, <2>3 DEF Retry
    <3> QED
      BY <1>1, <1>2, <1>4, <2>1, <2>3, <3>1, AfterAnswers, TriesPositive
  <2> QED
    BY <2>2, <2>3
<1> QED
    BY <1>3, <1>4

\* The write of the password.
LEMMA WriteMoves ==
    ASSUME TypeOK, Unanswered, NEW r \in Requests, WritePassword(r)
    PROVE  /\ before'[r] = LiveSessions /\ UNCHANGED sessions
           /\ user'.exists => req[r].token \in wrote'
           /\ req'[r].pc = "wipe" /\ req'[r].token = req[r].token
           /\ req'[r].answer = "none"
<1>1. /\ before'[r] = LiveSessions /\ UNCHANGED sessions
      /\ req[r].answer = "none" /\ req'[r] = [req[r] EXCEPT !.pc = "wipe"]
    BY DEF WritePassword, At, Goto, Holds, TypeOK, Unanswered
<1>2. user'.exists => req[r].token \in wrote'
    BY DEF WritePassword
<1> QED
    BY <1>1, <1>2 DEF TypeOK

\* The wipe of the sessions, or its failure.
LEMMA WipeMoves ==
    ASSUME TypeOK, NEW r \in Requests, WipeSessions(r)
    PROVE  /\ UNCHANGED <<before, wrote, user>> /\ req[r].pc = "wipe"
           /\ req'[r].pc = "idle" /\ req'[r].token = req[r].token
           /\ \/ sessions' = WithoutSessions /\ req'[r].answer = "reset"
              \/ UNCHANGED sessions /\ req'[r].answer = "reset_unwiped"
<1>1. /\ UNCHANGED <<before, wrote, user>> /\ req[r].pc = "wipe"
      /\ \/ sessions' = WithoutSessions /\ Answers(r, "reset")
         \/ UNCHANGED sessions /\ Answers(r, "reset_unwiped")
    BY DEF WipeSessions, Wiped, At
<1>2. req \in [Requests -> Request]
    BY DEF TypeOK, Request
<1> QED
    BY <1>1, <1>2, AfterAnswers

\* Every other step of a handler leads nowhere near an insertion or a success.
LEMMA OtherMoves ==
    ASSUME TypeOK, Unanswered, NEW r \in Requests, Moves(r),
           ~Forgot(r), ~Supersede(r), ~InsertToken(r), ~WritePassword(r), ~WipeSessions(r)
    PROVE  /\ before'[r] \in {before[r], {}}
           /\ req'[r].pc \in {"idle", "write", "classify", "create"}
           /\ req'[r].answer \notin Succeeded \cup {"contention"}
<1>1. /\ req \in [Requests -> Request] /\ before \in [Requests -> SUBSET SessionIds]
    BY DEF TypeOK, Request
<1>2. ASSUME NEW a \in {"sent", "invalid", "used", "expired", "error", "login"},
             Answers(r, a), UNCHANGED before
      PROVE  /\ before'[r] \in {before[r], {}}
             /\ req'[r].pc \in {"idle", "write", "classify", "create"}
             /\ req'[r].answer \notin Succeeded \cup {"contention"}
    BY <1>1, <1>2, AfterAnswers DEF Succeeded
<1>3. CASE SendEmail(r) \/ ClassifyToken(r) \/ WriteFails(r) \/ CreateSession(r) \/ Stops(r)
  <2>1. UNCHANGED before
    BY <1>3 DEF SendEmail, ClassifyToken, WriteFails, CreateSession, Stops, history
  <2>2. \E a \in {"sent", "invalid", "used", "expired", "error", "login"} : Answers(r, a)
    BY <1>3 DEF SendEmail, ClassifyToken, Classified, WriteFails, WriteFailure,
                CreateSession, Stops
  <2> QED
    BY <1>2, <2>1, <2>2
<1>4. ASSUME NEW q, Begins(r, q), q.pc \in {"write", "classify", "create"},
             q.answer = "none"
      PROVE  /\ before'[r] \in {before[r], {}}
             /\ req'[r].pc \in {"idle", "write", "classify", "create"}
             /\ req'[r].answer \notin Succeeded \cup {"contention"}
  <2>1. req'[r] = q /\ before'[r] = {}
    BY <1>1, <1>4 DEF Begins, Holds
  <2> QED
    BY <1>4, <2>1 DEF Succeeded
<1>5. ASSUME NEW t \in Tokens, ConsumeToken(r, t)
      PROVE  /\ before'[r] \in {before[r], {}}
             /\ req'[r].pc \in {"idle", "write", "classify", "create"}
             /\ req'[r].answer \notin Succeeded \cup {"contention"}
  <2>1. PICK l \in {"write", "classify"} : Begins(r, [Idle EXCEPT !.pc = l, !.token = t])
    BY <1>5 DEF ConsumeToken
  <2> DEFINE q == [Idle EXCEPT !.pc = l, !.token = t]
  <2>2. q.pc \in {"write", "classify", "create"} /\ q.answer = "none"
    BY DEF Idle
  <2> QED
    BY <1>4, <2>1, <2>2
<1>6. CASE Login(r)
  <2> DEFINE q == [Idle EXCEPT !.pc = "create", !.password = user.password]
  <2>1. Begins(r, q)
    BY <1>6 DEF Login
  <2>2. q.pc \in {"write", "classify", "create"} /\ q.answer = "none"
    BY DEF Idle
  <2> QED
    BY <1>4, <2>1, <2>2
<1> QED
    BY <1>3, <1>4, <1>5, <1>6 DEF Moves, ForgotPassword, ConfirmReset

-----------------------------------------------------------------------------
(* Passwords.                                                               *)

\* A handler that is past the write has written, or the account is gone.
WrittenOK ==
    \A r \in Requests :
        (req[r].pc = "wipe" \/ req[r].answer \in Succeeded) /\ user.exists =>
            req[r].token \in wrote

\* An erased account stays erased and a written password stays written.
LEMMA WritesStay ==
    ASSUME [Next]_vars
    PROVE  (user'.exists => user.exists) /\ wrote \subseteq wrote'
<1>1. ASSUME NEW r \in Requests, WritePassword(r)
      PROVE  (user'.exists => user.exists) /\ wrote \subseteq wrote'
    BY <1>1 DEF WritePassword
<1>2. CASE DeleteUser
    BY <1>2 DEF DeleteUser, history
<1>3. ASSUME NEW r \in Requests, Moves(r), ~WritePassword(r)
      PROVE  (user'.exists => user.exists) /\ wrote \subseteq wrote'
    BY <1>3 DEF Moves, ForgotPassword, ConfirmReset, Forgot, Supersede, InsertToken,
                SendEmail, ConsumeToken, ClassifyToken, WriteFails, WipeSessions, Login,
                CreateSession, Stops, history
<1>4. CASE (\E t \in Tokens : ExpireToken(t)) \/ UNCHANGED vars
    BY <1>4 DEF ExpireToken, vars, history
<1> QED
    BY <1>1, <1>2, <1>3, <1>4 DEF Next, Moves, Quiescent

\* No step reports a success that has not been written.
LEMMA WrittenStep ==
    ASSUME TypeOK, Unanswered, WrittenOK, [Next]_vars
    PROVE  WrittenOK'
<1> SUFFICES ASSUME NEW r \in Requests,
                    req'[r].pc = "wipe" \/ req'[r].answer \in Succeeded, user'.exists
             PROVE  req'[r].token \in wrote'
    BY DEF WrittenOK
<1>1. CASE Rests(r)
    BY <1>1, WritesStay DEF Rests, WrittenOK
<1>2. CASE WritePassword(r)
    BY <1>2, WriteMoves
<1>3. CASE WipeSessions(r)
    BY <1>3, WipeMoves DEF WrittenOK
<1>4. CASE Forgot(r) \/ Supersede(r) \/ InsertToken(r)
    BY <1>4, ForgotMoves, SupersedeMoves, InsertMoves DEF Succeeded
<1>5. CASE Moves(r) /\ ~Forgot(r) /\ ~Supersede(r) /\ ~InsertToken(r)
             /\ ~WritePassword(r) /\ ~WipeSessions(r)
    BY <1>5, OtherMoves
<1> QED
    BY <1>1, <1>2, <1>3, <1>4, <1>5, OthersRest

\* A reset that reports success has changed the password of the account, unless
\* that was erased meanwhile (ConfirmReset's fail-closed write, reset.go).
THEOREM SuccessIsWritten == Spec => []SuccessMeansWritten
<1>1. Init => WrittenOK
    BY DEF Init, WrittenOK, Idle, Succeeded
<1>2. WrittenOK => SuccessMeansWritten
    BY DEF WrittenOK, SuccessMeansWritten
<1> QED
    BY <1>1, <1>2, ResetTyped, AnswersInOrder, NotYetAnswered, WrittenStep, PTL DEF Spec

-----------------------------------------------------------------------------
(* Sessions.                                                                *)

\* The sessions there were at the write were issued before it, and none of them
\* has survived a wipe that did not fail.
OldOK ==
    \A r \in Requests :
        /\ \A s \in before[r] : sessions[s].st # "unissued"
        /\ req[r].answer = "reset" => before[r] \cap LiveSessions = {}

\* A session that was issued stays issued, and one that is dead stays dead.
LEMMA SessionsAge ==
    ASSUME TypeOK, [Next]_vars, NEW s \in SessionIds, sessions[s].st # "unissued"
    PROVE  /\ sessions'[s].st # "unissued"
           /\ s \notin LiveSessions => s \notin LiveSessions'
<1> USE DEF history
<1>1. sessions \in [SessionIds -> [st : SessionStatus, password : Passwords]]
    BY DEF TypeOK
<1>2. CASE UNCHANGED sessions
    BY <1>2 DEF LiveSessions
<1>3. CASE sessions' = WithoutSessions
    BY <1>1, <1>3 DEF WithoutSessions, LiveSessions
<1>4. ASSUME NEW r \in Requests, CreateSession(r)
      PROVE  /\ sessions'[s].st # "unissued"
             /\ s \notin LiveSessions => s \notin LiveSessions'
    BY <1>1, <1>4 DEF CreateSession, LiveSessions
<1>5. ASSUME NEW r \in Requests, Moves(r), ~CreateSession(r)
      PROVE  UNCHANGED sessions \/ sessions' = WithoutSessions
    BY <1>5 DEF Moves, ForgotPassword, ConfirmReset, Forgot, Supersede, InsertToken,
                SendEmail, ConsumeToken, ClassifyToken, WritePassword, WriteFails,
                WipeSessions, Wiped, Login, Stops
<1>6. CASE DeleteUser \/ (\E t \in Tokens : ExpireToken(t)) \/ UNCHANGED vars
    BY <1>2, <1>3, <1>6 DEF DeleteUser, ExpireToken, vars
<1> QED
    BY <1>2, <1>3, <1>4, <1>5, <1>6 DEF Next, Moves, Quiescent

\* No step brings back a session that a reset has ended.
LEMMA OldStep ==
    ASSUME TypeOK, Unanswered, OldOK, [Next]_vars
    PROVE  OldOK'
<1> SUFFICES ASSUME NEW r \in Requests
             PROVE  /\ \A s \in before'[r] : sessions'[s].st # "unissued"
                    /\ req'[r].answer = "reset" => before'[r] \cap LiveSessions' = {}
    BY DEF OldOK
<1>1. before \in [Requests -> SUBSET SessionIds]
    BY DEF TypeOK
<1>2. \A s \in before[r] : sessions'[s].st # "unissued"
    BY <1>1, SessionsAge DEF OldOK
<1>3. CASE Rests(r)
    BY <1>1, <1>2, <1>3, SessionsAge DEF Rests, OldOK
<1>4. CASE WritePassword(r)
  <2>1. before'[r] = LiveSessions /\ UNCHANGED sessions /\ req'[r].answer = "none"
    BY <1>4, WriteMoves
  <2> QED
    BY <2>1 DEF LiveSessions
<1>5. CASE WipeSessions(r)
  <2>1. /\ UNCHANGED before
        /\ \/ sessions' = WithoutSessions
           \/ req'[r].answer = "reset_unwiped"
    BY <1>5, WipeMoves
  <2>2. sessions' = WithoutSessions => LiveSessions' = {}
    BY DEF WithoutSessions, LiveSessions, TypeOK
  <2> QED
    BY <1>2, <2>1, <2>2
<1>6. CASE Forgot(r) \/ Supersede(r) \/ InsertToken(r)
  <2>1. before'[r] \in {before[r], {}} /\ req'[r].answer # "reset"
    BY <1>6, ForgotMoves, SupersedeMoves, InsertMoves
  <2> QED
    BY <1>2, <2>1
<1>7. CASE Moves(r) /\ ~Forgot(r) /\ ~Supersede(r) /\ ~InsertToken(r)
             /\ ~WritePassword(r) /\ ~WipeSessions(r)
  <2>1. before'[r] \in {before[r], {}} /\ req'[r].answer # "reset"
    BY <1>7, OtherMoves DEF Succeeded
  <2> QED
    BY <1>2, <2>1
<1> QED
    BY <1>3, <1>4, <1>5, <1>6, <1>7, OthersRest

\* A reset that reports success and whose wipe did not fail has ended every
\* session there was at its write, for any number of sessions (reset.go).
THEOREM ResetEndsOldSessions == Spec => []OldSessionsEnd
<1>1. Init => OldOK
    BY DEF Init, OldOK, Idle
<1>2. OldOK => OldSessionsEnd
    BY DEF OldOK, OldSessionsEnd
<1> QED
    BY <1>1, <1>2, ResetTyped, AnswersInOrder, NotYetAnswered, OldStep, PTL DEF Spec

-----------------------------------------------------------------------------
(* Contention.                                                              *)

\* Every try but the last, and that too once the place is taken again, was lost
\* to a token another request has stored.
TriesOK ==
    \A r \in Requests :
        /\ r \in Issuing => req[r].tries <= rivals[r] + 1
        /\ At(r, "insert") /\ ~Insertable => req[r].tries <= rivals[r]
        /\ req[r].answer = "contention" => rivals[r] >= MaxIssue

\* A step that costs a try has been paid for by a rival.
LEMMA TriesStep ==
    ASSUME TypeOK, Unanswered, TriesOK, [Next]_vars
    PROVE  TriesOK'
<1> SUFFICES ASSUME NEW r \in Requests
             PROVE  /\ req'[r].pc \in {"supersede", "insert"} =>
                         req'[r].tries <= rivals'[r] + 1
                    /\ req'[r].pc = "insert" /\ ~Insertable' =>
                         req'[r].tries <= rivals'[r]
                    /\ req'[r].answer = "contention" => rivals'[r] >= MaxIssue
    BY DEF TriesOK, Issuing, At
<1>1. req[r].tries \in Nat /\ rivals[r] \in Nat /\ MaxIssue \in Nat
    BY TriesPositive DEF TypeOK
<1>2. /\ req[r].pc \in {"supersede", "insert"} => req[r].tries <= rivals[r] + 1
      /\ req[r].pc = "insert" /\ ~Insertable => req[r].tries <= rivals[r]
      /\ req[r].answer = "contention" => rivals[r] >= MaxIssue
    BY DEF TriesOK, Issuing, At
<1>3. CASE Rests(r)
  <2>1. req'[r] = req[r] /\ rivals'[r] >= rivals[r] /\ rivals'[r] \in Nat
        /\ (req[r].pc = "insert" /\ Insertable /\ ~Insertable' => rivals'[r] >= rivals[r] + 1)
    BY <1>3, TypeStep DEF Rests, Issuing, TypeOK
  <2> QED
    BY <1>1, <1>2, <2>1
<1>4. CASE Forgot(r)
    BY <1>4, ForgotMoves
<1>5. CASE Supersede(r)
    BY <1>1, <1>2, <1>5, SupersedeMoves
<1>6. CASE InsertToken(r)
    BY <1>1, <1>2, <1>6, InsertMoves
<1>7. CASE WritePassword(r) \/ WipeSessions(r)
    BY <1>7, WriteMoves, WipeMoves
<1>8. CASE Moves(r) /\ ~Forgot(r) /\ ~Supersede(r) /\ ~InsertToken(r)
             /\ ~WritePassword(r) /\ ~WipeSessions(r)
    BY <1>8, OtherMoves
<1> QED
    BY <1>3, <1>4, <1>5, <1>6, <1>7, <1>8, OthersRest

\* A request for a link loses a try only to a request that got its own, however
\* many race and however many tries there are (issueToken, reset.go).
THEOREM RivalsCauseRetries == Spec => []RetriesAreLostToRivals
<1>1. Init => TriesOK
    BY DEF Init, TriesOK, Issuing, At, Idle
<1>2. TriesOK => RetriesAreLostToRivals
    BY DEF TriesOK, RetriesAreLostToRivals
<1> QED
    BY <1>1, <1>2, ResetTyped, AnswersInOrder, NotYetAnswered, TriesStep, PTL DEF Spec
=============================================================================
