-------------------------- MODULE TwoFactorProofs --------------------------
(***************************************************************************)
(* What TwoFactor guarantees for any number of requests, tokens, secrets   *)
(* and attempts.                                                           *)
(***************************************************************************)
EXTENDS TwoFactor, TLAPS

\* Deleting rows leaves a table of rows: every session of a deleted set is
\* dead, the others are as before.
LEMMA WithoutType ==
    ASSUME sessions \in [SessionIds -> SessionRow], NEW S
    PROVE  /\ Without(S) \in [SessionIds -> SessionRow]
           /\ \A s \in SessionIds :
                Without(S)[s] = IF s \in S THEN NewRow("dead") ELSE sessions[s]
BY DEF Without, SessionRow, NewRow, Status

\* A new row is a row.
LEMMA NewRowType == \A st \in Status : NewRow(st) \in SessionRow
BY DEF NewRow, SessionRow

\* The state the behaviours start in is well typed: an account, no session, no
\* request.
LEMMA InitType == Init => TypeOK
<1> SUFFICES ASSUME Init PROVE TypeOK
    OBVIOUS
<1>1. user \in UserRow
  <2>1. FirstStep - MaxSkew - 1 \in Nat
    BY ClockRange
  <2>2. NotEnrolled \in UserRow
    BY DEF NotEnrolled, UserRow
  <2>3. \A k \in Secrets : Armed(k) \in UserRow
    BY <2>1 DEF Armed, UserRow
  <2> QED
    BY <2>2, <2>3 DEF Init
<1>2. sessions \in [SessionIds -> SessionRow]
    BY DEF Init, SessionRow, NewRow, Status
<1>3. /\ req \in [Requests -> Request]
      /\ \A r \in Requests : Placed(req[r])
    BY DEF Init, Request, Placed, Anonymous, Places, Labels, Kinds, Idle
<1>4. /\ generated \subseteq Secrets
      /\ proven \subseteq Secrets \cup {NoSecret}
    BY DEF Init, NotEnrolled, Armed
<1> QED
    BY <1>1, <1>2, <1>3, <1>4, ClockRange DEF Init, TypeOK

-----------------------------------------------------------------------------
(* The ways a handler moves: it answers, goes on, or arrives.               *)

ReqOK == /\ req \in [Requests -> Request]
         /\ \A r \in Requests : Placed(req[r])

\* A handler that goes on with well-typed locals leaves req well typed.
LEMMA HoldsType ==
    ASSUME ReqOK, NEW r \in Requests, NEW q \in Request, Placed(q), Holds(r, q)
    PROVE  ReqOK'
BY DEF Holds, ReqOK

\* So does one that answers.
LEMMA AnsweredType ==
    ASSUME ReqOK, NEW r \in Requests, Answered(r)
    PROVE  ReqOK'
<1>1. Idle \in Request /\ Placed(Idle)
    BY DEF Idle, Request, Kinds, Labels, Placed, Anonymous, Places
<1> QED
    BY <1>1, HoldsType DEF Answered, Holds

\* A handler that keeps its kind and its cookie stays placed.
LEMMA SamePlaced ==
    ASSUME NEW p \in Request, NEW q \in Request, Placed(p),
           q.kind = p.kind, q.cookie = p.cookie, <<p.kind, q.pc>> \in Places
    PROVE  Placed(q)
BY DEF Placed

\* So does one that goes on to another statement of its own endpoint.
LEMMA GotoType ==
    ASSUME ReqOK, NEW r \in Requests, NEW l \in Labels, Goto(r, l),
           <<req[r].kind, l>> \in Places
    PROVE  ReqOK'
<1> DEFINE q == [req[r] EXCEPT !.pc = l]
<1>1. req[r] \in Request /\ Placed(req[r])
    BY DEF ReqOK
<1>2. /\ q \in Request
      /\ q.kind = req[r].kind /\ q.cookie = req[r].cookie /\ q.pc = l
    BY <1>1 DEF Request
<1>3. Holds(r, q)
    BY DEF Goto
<1> HIDE DEF q
<1>4. Placed(q)
    BY <1>1, <1>2, SamePlaced
<1> QED
    BY <1>2, <1>3, <1>4, HoldsType

\* So does a request that passes its middleware.
LEMMA ArrivesType ==
    ASSUME ReqOK, NEW r \in Requests, NEW k \in Kinds, NEW l \in Labels,
           NEW s \in SessionIds \cup {NoSession}, Arrives(r, k, s, l),
           <<k, l>> \in Places, k \in Anonymous \/ s \in SessionIds
    PROVE  ReqOK'
<1> DEFINE q == [Idle EXCEPT !.kind = k, !.cookie = s, !.pc = l]
<1>1. Idle \in Request
    BY DEF Idle, Request, Kinds, Labels
<1>2. q \in Request /\ q.kind = k /\ q.cookie = s /\ q.pc = l
    BY <1>1 DEF Request, Idle
<1>3. Holds(r, q)
    BY DEF Arrives
<1> HIDE DEF q
<1> QED
    BY <1>2, <1>3, HoldsType DEF Placed

\* So does one whose code is refused: step 2 of the login goes on to count the
\* failure, the session-authenticated endpoints answer.
LEMMA CodeRejectedType ==
    ASSUME ReqOK, NEW r \in Requests, CodeRejected(r)
    PROVE  ReqOK'
<1>1. CASE req[r].kind = "verify"
  <2>1. Goto(r, "record")
    BY <1>1 DEF CodeRejected, Kind
  <2> QED
    BY <1>1, <2>1, GotoType DEF Labels, Places
<1>2. CASE req[r].kind # "verify"
    BY <1>2, AnsweredType DEF CodeRejected, Kind
<1> QED
    BY <1>1, <1>2

-----------------------------------------------------------------------------
(* Type correctness.                                                        *)

CodeKinds == {"verify", "confirm", "disable", "erase"}

\* Where a request that is at a code-checking statement comes from, and what
\* it carries.
LEMMA CodePlaces ==
    ASSUME ReqOK, NEW r \in Requests,
           req[r].pc \in {"fetch", "check", "accept"}
    PROVE  req[r].kind \in CodeKinds /\ req[r] \in Request /\ Placed(req[r])
BY DEF ReqOK, Placed, Places, CodeKinds

\* Where a request of step 2 of a login comes from.
LEMMA VerifyPlaces ==
    ASSUME ReqOK, NEW r \in Requests,
           req[r].pc \in {"rotate", "record", "lockout"}
    PROVE  /\ req[r] \in Request /\ Placed(req[r])
           /\ req[r].kind = "verify" /\ req[r].cookie \in SessionIds
BY DEF ReqOK, Placed, Places, Anonymous

\* Every step of every handler and of the environment keeps the types.
LEMMA TypeStep == TypeOK /\ [Next]_vars => TypeOK'
<1> SUFFICES ASSUME TypeOK, [Next]_vars PROVE TypeOK'
    OBVIOUS
<1> ReqOK
    BY DEF TypeOK, ReqOK
<1> DEFINE Rest == /\ user \in UserRow
                   /\ sessions \in [SessionIds -> SessionRow]
                   /\ now \in FirstStep .. LastStep
                   /\ generated \subseteq Secrets
                   /\ epoch \in Nat
                   /\ rotations \subseteq Rotation
                   /\ proven \subseteq Secrets \cup {NoSecret}
                   /\ spared \subseteq SessionIds
<1>0. TypeOK' <=> ReqOK' /\ Rest'
    BY DEF TypeOK, ReqOK
<1>r. Rest
    BY DEF TypeOK
<1>1. ASSUME NEW r \in Requests, Login(r) PROVE TypeOK'
  <2>1. ReqOK'
    BY <1>1, ArrivesType DEF Login, Kinds, Labels, Places, Anonymous
  <2> QED
    BY <2>1, <1>0, <1>1, <1>r DEF Login, history
<1>2. ASSUME NEW r \in Requests, CreateSession(r) PROVE TypeOK'
  <2>1. ReqOK'
    BY <1>2, AnsweredType DEF CreateSession
  <2>2. sessions' \in [SessionIds -> SessionRow]
    BY <1>2, <1>r DEF CreateSession, SessionRow, NewRow, Status
  <2> QED
    BY <2>1, <2>2, <1>0, <1>2, <1>r DEF CreateSession, history
<1>3. ASSUME NEW r \in Requests, NEW s \in SessionIds, Verify2FA(r, s)
      PROVE  TypeOK'
  <2>1. ReqOK'
    BY <1>3, ArrivesType DEF Verify2FA, Kinds, Labels, Places, Anonymous
  <2> QED
    BY <2>1, <1>0, <1>3, <1>r DEF Verify2FA, history
<1>4. ASSUME NEW r \in Requests, NEW s \in SessionIds,
             NEW k \in {"confirm", "disable", "erase"}, CodeRequest(r, s, k)
      PROVE  TypeOK'
  <2>1. ReqOK'
    BY <1>4, ArrivesType DEF CodeRequest, Kinds, Labels, Places, Anonymous
  <2> QED
    BY <2>1, <1>0, <1>4, <1>r DEF CodeRequest, history
<1>5. ASSUME NEW r \in Requests, NEW s \in SessionIds, Enroll2FA(r, s)
      PROVE  TypeOK'
  <2>1. ReqOK'
    BY <1>5, ArrivesType DEF Enroll2FA, Kinds, Labels, Places, Anonymous
  <2> QED
    BY <2>1, <1>0, <1>5, <1>r DEF Enroll2FA, history
<1>6. ASSUME NEW r \in Requests, NEW s \in SessionIds,
             NEW k \in {"logout", "logout_all"}, LogoutRequest(r, s, k)
      PROVE  TypeOK'
  <2>1. ReqOK'
    BY <1>6, ArrivesType DEF LogoutRequest, Kinds, Labels, Places, Anonymous
  <2> QED
    BY <2>1, <1>0, <1>6, <1>r DEF LogoutRequest, history
<1>7. ASSUME NEW r \in Requests, FetchUser(r) PROVE TypeOK'
  <2>1. req[r].kind \in CodeKinds /\ req[r] \in Request /\ Placed(req[r])
    BY <1>7, CodePlaces DEF FetchUser, At
  <2>2. CASE CodeRejected(r)
    BY <2>1, <2>2, <1>7, CodeRejectedType, <1>0, <1>r DEF FetchUser, history
  <2>3. CASE Kind(r, "erase") /\ Goto(r, "delete")
    <3>1. ReqOK'
      BY <2>3, GotoType DEF Kind, Labels, Places
    <3> QED
      BY <3>1, <1>7, <1>0, <1>r DEF FetchUser, history
  <2>4. CASE Holds(r, [req[r] EXCEPT !.pc = "check", !.secret = user.secret])
    <3> DEFINE q == [req[r] EXCEPT !.pc = "check", !.secret = user.secret]
    <3>2. /\ q \in Request /\ <<req[r].kind, q.pc>> \in Places
          /\ q.kind = req[r].kind /\ q.cookie = req[r].cookie
      BY <2>1, <1>r DEF Request, UserRow, Labels, CodeKinds, Places
    <3> HIDE DEF q
    <3>1. ReqOK'
      BY <2>1, <2>4, <3>2, SamePlaced, HoldsType DEF q
    <3> QED
      BY <3>1, <1>7, <1>0, <1>r DEF FetchUser, history
  <2> QED
    BY <2>2, <2>3, <2>4, <1>7 DEF FetchUser
<1>8. ASSUME NEW r \in Requests, CheckCode(r) PROVE TypeOK'
  <2>1. req[r].kind \in CodeKinds /\ req[r] \in Request /\ Placed(req[r])
    BY <1>8, CodePlaces DEF CheckCode, At
  <2>2. req[r].secret \in Secrets \cup {NoSecret}
    BY DEF ReqOK, Request
  <2>3. CASE CodeRejected(r) /\ UNCHANGED proven
    BY <2>1, <2>3, <1>8, CodeRejectedType, <1>0, <1>r DEF CheckCode
  <2>4. ASSUME NEW c \in Window(now),
               Holds(r, [req[r] EXCEPT !.pc = "accept", !.counter = c]),
               proven' = IF Kind(r, "confirm") THEN proven \cup {req[r].secret}
                                               ELSE proven
        PROVE  TypeOK'
    <3>1. c \in Nat
      BY <1>r, ClockRange DEF Window
    <3> DEFINE q == [req[r] EXCEPT !.pc = "accept", !.counter = c]
    <3>4. /\ q \in Request /\ <<req[r].kind, q.pc>> \in Places
          /\ q.kind = req[r].kind /\ q.cookie = req[r].cookie
      BY <2>1, <3>1 DEF Request, Labels, CodeKinds, Places
    <3> HIDE DEF q
    <3>2. ReqOK'
      BY <2>1, <2>4, <3>4, SamePlaced, HoldsType DEF q
    <3>3. proven' \subseteq Secrets \cup {NoSecret}
      BY <2>2, <2>4, <1>r
    <3> QED
      BY <3>2, <3>3, <1>8, <1>0, <1>r DEF CheckCode
  <2> QED
    BY <2>3, <2>4, <1>8 DEF CheckCode
<1>9. ASSUME NEW r \in Requests, AcceptCounter(r) PROVE TypeOK'
  <2>1. req[r].kind \in CodeKinds /\ req[r] \in Request /\ Placed(req[r])
    BY <1>9, CodePlaces DEF AcceptCounter, At
  <2>2. CASE CodeRejected(r) /\ UNCHANGED user
    BY <2>1, <2>2, <1>9, CodeRejectedType, <1>0, <1>r DEF AcceptCounter, history
  <2>3. CASE /\ user' = [user EXCEPT !.counter = req[r].counter]
             /\ Holds(r, [req[r] EXCEPT !.pc = AfterCode(r), !.epoch = epoch])
    <3>1. <<req[r].kind, AfterCode(r)>> \in Places /\ AfterCode(r) \in Labels
      BY <2>1 DEF AfterCode, Kind, CodeKinds, Places, Labels
    <3> DEFINE q == [req[r] EXCEPT !.pc = AfterCode(r), !.epoch = epoch]
    <3>4. /\ q \in Request /\ <<req[r].kind, q.pc>> \in Places
          /\ q.kind = req[r].kind /\ q.cookie = req[r].cookie
      BY <2>1, <3>1, <1>r DEF Request
    <3> HIDE DEF q
    <3>2. ReqOK'
      BY <2>1, <2>3, <3>4, SamePlaced, HoldsType DEF q
    <3>3. user' \in UserRow
      BY <2>1, <2>3, <1>r DEF UserRow, Request
    <3> QED
      BY <3>2, <3>3, <1>9, <1>0, <1>r DEF AcceptCounter, history
  <2> QED
    BY <2>2, <2>3, <1>9 DEF AcceptCounter
<1>10. ASSUME NEW r \in Requests, RotatePending(r) PROVE TypeOK'
  <2>1. ReqOK'
    BY <1>10, AnsweredType DEF RotatePending
  <2>2. CASE UNCHANGED <<sessions, rotations>>
    BY <2>1, <2>2, <1>10, <1>0, <1>r DEF RotatePending
  <2>3. ASSUME ValidatesPending(req[r].cookie), NEW s \in SessionIds,
               sessions' = Rotated(req[r].cookie, s),
               rotations' = rotations \cup
                 {[from |-> req[r].cookie, to |-> s, secret |-> req[r].secret,
                   step |-> req[r].counter, epoch |-> req[r].epoch,
                   attempts |-> sessions[req[r].cookie].attempts]}
        PROVE  TypeOK'
    <3>1. sessions' \in [SessionIds -> SessionRow]
      BY <2>3, <1>r, WithoutType, NewRowType DEF Rotated, Status
    <3>2. req[r] \in Request /\ req[r].cookie \in SessionIds
      BY <1>10, VerifyPlaces DEF RotatePending, At
    <3>4. rotations' \subseteq Rotation
      BY <2>3, <3>2, <1>r DEF Request, Rotation, SessionRow
    <3> QED
      BY <2>1, <3>1, <3>4, <1>10, <1>0, <1>r DEF RotatePending
  <2> QED
    BY <2>2, <2>3, <1>10 DEF RotatePending, Rotates
<1>11. ASSUME NEW r \in Requests, RecordFailure(r) PROVE TypeOK'
  <2>1. req[r] \in Request /\ req[r].kind = "verify" /\ req[r].cookie \in SessionIds
    BY <1>11, VerifyPlaces DEF RecordFailure, At
  <2>2. ReqOK'
    <3>1. CASE Goto(r, "lockout")
      BY <2>1, <3>1, GotoType DEF Labels, Places
    <3> QED
      BY <3>1, <1>11, AnsweredType DEF RecordFailure
  <2>3. sessions' \in [SessionIds -> SessionRow]
    BY <1>11, <2>1, <1>r DEF RecordFailure, SessionRow
  <2> QED
    BY <2>2, <2>3, <1>11, <1>0, <1>r DEF RecordFailure, history
<1>12. ASSUME NEW r \in Requests, LockOut(r) PROVE TypeOK'
  <2>1. req[r].cookie \in SessionIds
    BY <1>12, VerifyPlaces DEF LockOut, At
  <2>2. ReqOK'
    BY <1>12, AnsweredType DEF LockOut
  <2>3. sessions' \in [SessionIds -> SessionRow] /\ spared' \subseteq SessionIds
    BY <1>12, <2>1, <1>r, WithoutType DEF LockOut
  <2> QED
    BY <2>2, <2>3, <1>12, <1>0, <1>r DEF LockOut
<1>13. ASSUME NEW r \in Requests, StoreSecret(r) PROVE TypeOK'
  <2>1. ReqOK'
    BY <1>13, AnsweredType DEF StoreSecret
  <2>2. epoch' \in Nat
    <3>1. epoch' = epoch + 1 \/ epoch' = epoch
      BY <1>13, Zenon DEF StoreSecret
    <3> QED
      BY <3>1, <1>r
  <2>4. generated' \subseteq Secrets
    BY <1>13, <1>r DEF StoreSecret
  <2>3. user' \in UserRow
    <3>1. ASSUME NEW new \in Secrets,
                 user' = [user EXCEPT !.secret = new, !.enabled = FALSE,
                                      !.counter = 0]
          PROVE  user' \in UserRow
      BY <3>1, <1>r DEF UserRow
    <3> QED
      BY <3>1, <1>13, <1>r DEF StoreSecret
  <2> QED
    BY <2>1, <2>2, <2>3, <2>4, <1>13, <1>0, <1>r DEF StoreSecret
<1>14. ASSUME NEW r \in Requests, EnableTOTP(r) PROVE TypeOK'
  <2>1. ReqOK'
    BY <1>14, AnsweredType DEF EnableTOTP
  <2>2. user' \in UserRow
    BY <1>14, <1>r DEF EnableTOTP, UserRow
  <2> QED
    BY <2>1, <2>2, <1>14, <1>0, <1>r DEF EnableTOTP, history
<1>15. ASSUME NEW r \in Requests, WipeTOTP(r) PROVE TypeOK'
  <2>1. ReqOK'
    BY <1>15, AnsweredType DEF WipeTOTP
  <2>2. epoch' \in Nat
    BY <1>15, <1>r DEF WipeTOTP
  <2>3. user' \in UserRow
    <3>1. [user EXCEPT !.secret = NoSecret, !.enabled = FALSE, !.counter = 0]
             \in UserRow
      BY <1>r DEF UserRow
    <3> QED
      BY <3>1, <1>15, <1>r DEF WipeTOTP
  <2> QED
    BY <2>1, <2>2, <2>3, <1>15, <1>0, <1>r DEF WipeTOTP
<1>16. ASSUME NEW r \in Requests, DeleteUser(r) PROVE TypeOK'
  <2>1. ReqOK'
    BY <1>16, AnsweredType DEF DeleteUser
  <2>2. user' \in UserRow /\ sessions' \in [SessionIds -> SessionRow]
    BY <1>16, <1>r, WithoutType DEF DeleteUser, UserRow
  <2> QED
    BY <2>1, <2>2, <1>16, <1>0, <1>r DEF DeleteUser, history
<1>17. ASSUME NEW r \in Requests, Logout(r) PROVE TypeOK'
  <2>1. ReqOK'
    BY <1>17, AnsweredType DEF Logout
  <2>2. sessions' \in [SessionIds -> SessionRow]
    BY <1>17, <1>r, WithoutType DEF Logout
  <2> QED
    BY <2>1, <2>2, <1>17, <1>0, <1>r DEF Logout, history
<1>18. ASSUME NEW r \in Requests, Refused(r) PROVE TypeOK'
  <2>1. ReqOK'
    BY <1>18, AnsweredType DEF Refused
  <2>2. spared' \subseteq SessionIds
    BY <1>18, <1>r, VerifyPlaces DEF Refused, At
  <2> QED
    BY <2>1, <2>2, <1>18, <1>0, <1>r DEF Refused
<1>19. ASSUME NEW s \in SessionIds, Expire(s) PROVE TypeOK'
  <2>1. sessions' \in [SessionIds -> SessionRow]
    BY <1>19, <1>r, WithoutType DEF Expire
  <2> QED
    BY <2>1, <1>19, <1>0, <1>r DEF Expire, ReqOK, history
<1>20. CASE Tick
    BY <1>20, <1>0, <1>r, ClockRange DEF Tick, ReqOK, history
<1>21. CASE UNCHANGED vars
    BY <1>21, <1>0, <1>r DEF vars, ReqOK, history
<1> QED
    BY <1>1, <1>2, <1>3, <1>4, <1>5, <1>6, <1>7, <1>8, <1>9, <1>10, <1>11,
       <1>12, <1>13, <1>14, <1>15, <1>16, <1>17, <1>18, <1>19, <1>20, <1>21
       DEF Next, Arrival, Handler, Quiescent

\* Every variable keeps its type and every handler is at one of its own
\* statements, whatever is in flight (twofactor.go, session.go, handler.go).
THEOREM TypeCorrect == Spec => []TypeOK
    BY InitType, TypeStep, PTL DEF Spec

-----------------------------------------------------------------------------
(* A pending session is rotated at most once: what was rotated is dead, and *)
(* a dead row stays dead.                                                   *)

\* A token is produced once: no step issues or revives a dead row.
LEMMA DeadStaysDead ==
    ASSUME TypeOK, [Next]_vars, NEW s \in SessionIds, sessions[s].st = "dead"
    PROVE  sessions'[s].st = "dead"
<1> USE DEF NewRow
<1> ReqOK /\ sessions \in [SessionIds -> SessionRow]
    BY DEF TypeOK, ReqOK
<1>1. ASSUME NEW S, sessions' = Without(S) PROVE sessions'[s].st = "dead"
    BY <1>1, WithoutType
<1>2. ASSUME NEW r \in Requests, CreateSession(r) PROVE sessions'[s].st = "dead"
    BY <1>2 DEF CreateSession
<1>3. ASSUME NEW r \in Requests, RotatePending(r) PROVE sessions'[s].st = "dead"
  <2>1. CASE UNCHANGED <<sessions, rotations>>
    BY <2>1
  <2>2. ASSUME NEW t \in SessionIds, sessions[t].st = "unissued",
               sessions' = Rotated(req[r].cookie, t)
        PROVE  sessions'[s].st = "dead"
    BY <2>2, WithoutType DEF Rotated
  <2> QED
    BY <2>1, <2>2, <1>3 DEF RotatePending
<1>4. ASSUME NEW r \in Requests, RecordFailure(r) PROVE sessions'[s].st = "dead"
  <2>1. req[r].cookie \in SessionIds
    BY <1>4, VerifyPlaces DEF RecordFailure, At
  <2> QED
    BY <2>1, <1>4 DEF RecordFailure, SessionRow
<1>5. ASSUME NEW r \in Requests, Arrival(r) PROVE sessions'[s].st = "dead"
    BY <1>5 DEF Arrival, Login, Verify2FA, CodeRequest, Enroll2FA, LogoutRequest
<1>6. ASSUME NEW r \in Requests,
             \/ FetchUser(r) \/ CheckCode(r) \/ AcceptCounter(r) \/ StoreSecret(r)
             \/ EnableTOTP(r) \/ WipeTOTP(r) \/ Refused(r)
      PROVE  sessions'[s].st = "dead"
    BY <1>6 DEF FetchUser, CheckCode, AcceptCounter, StoreSecret, EnableTOTP,
                WipeTOTP, Refused
<1>7. ASSUME NEW r \in Requests, LockOut(r) \/ DeleteUser(r) \/ Logout(r)
      PROVE  sessions'[s].st = "dead"
    BY <1>7, <1>1 DEF LockOut, DeleteUser, Logout
<1>8. ASSUME NEW t \in SessionIds, Expire(t) PROVE sessions'[s].st = "dead"
    BY <1>8, <1>1 DEF Expire
<1>9. CASE Tick \/ Quiescent \/ UNCHANGED vars
    BY <1>9 DEF Tick, Quiescent, vars
<1> QED
    BY <1>2, <1>3, <1>4, <1>5, <1>6, <1>7, <1>8, <1>9 DEF Next, Handler

\* Rotations are only added, and only by RotatePending.
LEMMA RotationsStay ==
    ASSUME [Next]_vars, ~ \E r \in Requests : RotatePending(r)
    PROVE  rotations' = rotations
BY DEF Next, Arrival, Handler, Login, Verify2FA, CodeRequest, Enroll2FA,
       LogoutRequest, CreateSession, FetchUser, CheckCode, AcceptCounter,
       RecordFailure, LockOut, StoreSecret, EnableTOTP, WipeTOTP, DeleteUser,
       Logout, Refused, Expire, Tick, Quiescent, vars, history

RotatedIsDead == \A a \in rotations : sessions[a.from].st = "dead"

RotationInv == OneRotationPerPending /\ RotatedIsDead

\* No step rotates a session that has been rotated: RotatePending kills the row
\* it rotates, and a dead row never comes back.
LEMMA RotationStep == TypeOK /\ RotationInv /\ [Next]_vars => RotationInv'
<1> SUFFICES ASSUME TypeOK, RotationInv, [Next]_vars PROVE RotationInv'
    OBVIOUS
<1> ReqOK /\ sessions \in [SessionIds -> SessionRow] /\ rotations \subseteq Rotation
    BY DEF TypeOK, ReqOK
<1>1. \A a \in rotations : sessions'[a.from].st = "dead"
    BY DeadStaysDead DEF RotationInv, RotatedIsDead, Rotation
<1>2. CASE rotations' = rotations
    BY <1>1, <1>2 DEF RotationInv, OneRotationPerPending, RotatedIsDead
<1>3. ASSUME NEW r \in Requests, RotatePending(r), rotations' # rotations
      PROVE  RotationInv'
  <2>1. PICK s \in SessionIds :
           /\ sessions[s].st = "unissued"
           /\ sessions' = Rotated(req[r].cookie, s)
           /\ rotations' = rotations \cup
                 {[from |-> req[r].cookie, to |-> s, secret |-> req[r].secret,
                   step |-> req[r].counter, epoch |-> req[r].epoch,
                   attempts |-> sessions[req[r].cookie].attempts]}
    BY <1>3 DEF RotatePending
  <2>2. sessions[req[r].cookie].st = "pending" /\ req[r].cookie \in SessionIds
    BY <1>3, VerifyPlaces DEF RotatePending, At, Rotates, ValidatesPending
  <2>3. sessions'[req[r].cookie].st = "dead"
    BY <2>1, <2>2, WithoutType DEF Rotated, NewRow
  <2>4. \A a \in rotations : a.from # req[r].cookie
    BY <2>2 DEF RotationInv, RotatedIsDead
  <2> QED
    BY <2>1, <2>3, <2>4, <1>1 DEF RotationInv, OneRotationPerPending, RotatedIsDead
<1> QED
    BY <1>2, <1>3, RotationsStay

\* A pending session is turned into at most one verified session, for any
\* number of concurrent verifies (SessionStore.RotatePending).
THEOREM RotatedOnce == Spec => []OneRotationPerPending
<1>1. Init => RotationInv
    BY DEF Init, RotationInv, OneRotationPerPending, RotatedIsDead
<1>2. RotationInv => OneRotationPerPending
    BY DEF RotationInv
<1> QED
    BY <1>1, <1>2, RotationStep, TypeCorrect, PTL DEF Spec

-----------------------------------------------------------------------------
(* A code mints at most one session between two resets of the counter: an   *)
(* accepted code is burned (the counter has reached it) until the next      *)
(* reset, and only a code that is not burned is accepted.                   *)

Burned(c, e) == e <= epoch /\ (e = epoch /\ user.exists => c <= user.counter)

InFlight == {r \in Requests : At(r, "rotate")}

CodeInv ==
    /\ \A a \in rotations : Burned(a.step, a.epoch)
    /\ \A r \in InFlight : Burned(req[r].counter, req[r].epoch)
    /\ \A r \in InFlight, a \in rotations :
         req[r].epoch = a.epoch => req[r].counter # a.step
    /\ \A q, r \in InFlight :
         req[q].epoch = req[r].epoch /\ req[q].counter = req[r].counter => q = r
    /\ OneSessionPerCode

\* The row moves forward: a new epoch, or the same one and no smaller counter.
Forward == \/ epoch' > epoch
           \/ epoch' = epoch /\ (user'.exists => user.exists
                                               /\ user'.counter >= user.counter)

\* A burned code stays burned when the row only moves forward.
LEMMA BurnedStays ==
    ASSUME TypeOK, TypeOK', Forward, NEW c \in Nat, NEW e \in Nat, Burned(c, e)
    PROVE  Burned(c, e)'
BY DEF Burned, Forward, TypeOK, UserRow

\* The invariant survives every step that rotates nothing, lets no request
\* newly reach the rotation, and moves the row forward.
LEMMA CodeFrame ==
    ASSUME TypeOK, TypeOK', CodeInv, Forward, rotations' = rotations,
           \A q \in Requests : req'[q].pc = "rotate" => req'[q] = req[q]
    PROVE  CodeInv'
<1>1. \A q \in InFlight' : q \in InFlight /\ req'[q] = req[q]
    BY DEF InFlight, At
<1>2. \A a \in rotations : Burned(a.step, a.epoch)'
    BY BurnedStays DEF CodeInv, TypeOK, Rotation
<1>3. ASSUME NEW r \in InFlight' PROVE Burned(req[r].counter, req[r].epoch)'
  <2>1. r \in Requests /\ r \in InFlight /\ req'[r] = req[r]
    BY <1>1 DEF InFlight
  <2>2. req[r].counter \in Nat /\ req[r].epoch \in Nat
    BY <2>1 DEF TypeOK, Request
  <2> DEFINE c == req[r].counter
             e == req[r].epoch
  <2>3. Burned(c, e)
    BY <2>1 DEF CodeInv
  <2>4. c' = c /\ e' = e
    BY <2>1
  <2>5. epoch' \in Nat /\ user'.counter \in Nat /\ epoch \in Nat /\ user.counter \in Nat
    BY DEF TypeOK, UserRow
  <2> QED
    BY <2>2, <2>3, <2>4, <2>5 DEF Burned, Forward
<1>4. (\A r \in InFlight : Burned(req[r].counter, req[r].epoch))'
    BY <1>3
<1>5. (\A r \in InFlight, a \in rotations :
         req[r].epoch = a.epoch => req[r].counter # a.step)'
    BY <1>1 DEF CodeInv
<1>6. (\A q, r \in InFlight :
         req[q].epoch = req[r].epoch /\ req[q].counter = req[r].counter => q = r)'
    BY <1>1 DEF CodeInv
<1>7. OneSessionPerCode'
    BY DEF CodeInv, OneSessionPerCode
<1> QED
    BY <1>2, <1>4, <1>5, <1>6, <1>7 DEF CodeInv

\* What the other requests do when one request moves.
LEMMA OnlyMine ==
    ASSUME TypeOK, NEW r \in Requests, NEW q, Holds(r, q), q.pc # "rotate"
    PROVE  \A p \in Requests : req'[p].pc = "rotate" => req'[p] = req[p]
BY DEF TypeOK, Holds

\* A request that moves to a statement before its counter is accepted, or
\* answers, does not newly reach the rotation.
LEMMA Leaves ==
    ASSUME TypeOK, NEW r \in Requests,
           \/ Answered(r)
           \/ CodeRejected(r)
           \/ \E l \in Labels \ {"rotate"} : Goto(r, l)
    PROVE  \A p \in Requests : req'[p].pc = "rotate" => req'[p] = req[p]
<1>1. ASSUME Answered(r)
      PROVE  \A p \in Requests : req'[p].pc = "rotate" => req'[p] = req[p]
    BY <1>1, OnlyMine DEF Answered, Holds, Idle
<1>2. ASSUME NEW l \in Labels \ {"rotate"}, Goto(r, l)
      PROVE  \A p \in Requests : req'[p].pc = "rotate" => req'[p] = req[p]
  <2>1. req[r] \in Request
    BY DEF TypeOK
  <2> QED
    BY <1>2, <2>1, OnlyMine DEF Goto, Request
<1>3. CodeRejected(r) => Answered(r) \/ Goto(r, "record")
    BY DEF CodeRejected
<1> QED
    BY <1>1, <1>2, <1>3 DEF Labels

\* A step that writes neither the row nor the epoch moves the counter forward
\* (or leaves it).
LEMMA ForwardIfSame ==
    ASSUME TypeOK, user' = user, epoch' = epoch
    PROVE  Forward
BY DEF TypeOK, UserRow, Forward

\* An arriving request is at the first statement of its handler.
LEMMA ArrivalFrame ==
    ASSUME TypeOK, NEW r \in Requests, Arrival(r)
    PROVE  /\ user' = user /\ epoch' = epoch /\ rotations' = rotations
           /\ \A p \in Requests : req'[p].pc = "rotate" => req'[p] = req[p]
<1>1. user' = user /\ epoch' = epoch /\ rotations' = rotations
    BY DEF Arrival, Login, Verify2FA, CodeRequest, Enroll2FA, LogoutRequest, history
<1>2. \E k \in Kinds, l \in Labels \ {"rotate"},
         s \in SessionIds \cup {NoSession} : Arrives(r, k, s, l)
    BY DEF Arrival, Login, Verify2FA, CodeRequest, Enroll2FA, LogoutRequest,
           Kinds, Labels
<1>3. ASSUME NEW k \in Kinds, NEW l \in Labels \ {"rotate"},
             NEW s \in SessionIds \cup {NoSession}, Arrives(r, k, s, l)
      PROVE  \A p \in Requests : req'[p].pc = "rotate" => req'[p] = req[p]
    BY <1>3, OnlyMine DEF Arrives, Idle
<1> QED
    BY <1>1, <1>2, <1>3

\* AcceptTOTPCounter hands its counter to one request only: the others in
\* flight, and the sessions minted so far, hold smaller ones of this epoch.
LEMMA AcceptStep ==
    ASSUME TypeOK, TypeOK', CodeInv, NEW r \in Requests, AcceptCounter(r)
    PROVE  CodeInv'
<1>1. epoch' = epoch /\ rotations' = rotations
    BY DEF AcceptCounter, history
<1>2. CASE CodeRejected(r) /\ UNCHANGED user
    BY <1>1, <1>2, Leaves, ForwardIfSame, CodeFrame
<1>3. CASE /\ Accepts(req[r].counter)
           /\ user' = [user EXCEPT !.counter = req[r].counter]
           /\ Holds(r, [req[r] EXCEPT !.pc = AfterCode(r), !.epoch = epoch])
  <2> DEFINE c == req[r].counter
             q == [req[r] EXCEPT !.pc = AfterCode(r), !.epoch = epoch]
  <2>1. /\ c \in Nat /\ user.counter \in Nat /\ epoch \in Nat
        /\ user.exists /\ user.counter < c /\ user'.counter = c /\ user'.exists
    BY <1>3 DEF TypeOK, UserRow, Request, Accepts
  <2>2. Forward
    BY <2>1, <1>1 DEF Forward
  <2>3. q.pc = AfterCode(r) /\ q.epoch = epoch /\ q.counter = c
    BY DEF TypeOK, Request
  <2>4. CASE AfterCode(r) # "rotate"
    BY <1>1, <1>3, <2>2, <2>3, <2>4, OnlyMine, CodeFrame
  <2>5. CASE AfterCode(r) = "rotate"
    <3>1. req'[r] = q /\ \A p \in Requests \ {r} : req'[p] = req[p]
      BY <1>3 DEF Holds, TypeOK
    <3> HIDE DEF q
    <3>2. InFlight' \subseteq InFlight \cup {r}
      BY <3>1 DEF InFlight, At
    <3>3. ~At(r, "rotate")
      BY DEF AcceptCounter, At
    <3>4. \A p \in InFlight' \ {r} : p \in InFlight /\ req'[p] = req[p]
      BY <3>1, <3>2 DEF InFlight
    <3>5. \A a \in rotations : a.epoch = epoch => a.step < c
      BY <2>1 DEF CodeInv, Burned, TypeOK, Rotation
    <3>6. \A p \in InFlight : req[p].epoch = epoch => req[p].counter < c
      BY <2>1 DEF CodeInv, Burned, TypeOK, Request, InFlight
    <3>7. (\A a \in rotations : Burned(a.step, a.epoch))'
      BY <1>1, <2>2, BurnedStays DEF CodeInv, TypeOK, Rotation
    <3>8. ASSUME NEW p \in InFlight' PROVE Burned(req[p].counter, req[p].epoch)'
      <4>1. CASE p = r
        BY <4>1, <3>1, <2>1, <2>3, <1>1 DEF Burned
      <4>2. CASE p # r
        <5>1. Burned(req[p].counter, req[p].epoch) /\ req'[p] = req[p]
          BY <3>4, <4>2 DEF CodeInv
        <5>2. req[p].counter \in Nat /\ req[p].epoch \in Nat
          BY <3>4, <4>2 DEF TypeOK, Request, InFlight
        <5> QED
          BY <5>1, <5>2, <2>1, <1>1 DEF Burned
      <4> QED
        BY <4>1, <4>2
    <3>9. (\A p \in InFlight, a \in rotations :
             req[p].epoch = a.epoch => req[p].counter # a.step)'
      <4> SUFFICES ASSUME NEW p \in InFlight', NEW a \in rotations,
                          req'[p].epoch = a.epoch
                   PROVE  req'[p].counter # a.step
        BY <1>1
      <4>1. CASE p = r
        BY <4>1, <3>1, <3>5, <2>3, <2>1 DEF TypeOK, Rotation
      <4>2. CASE p # r
        BY <4>2, <3>4 DEF CodeInv
      <4> QED
        BY <4>1, <4>2
    <3>10. (\A p, t \in InFlight :
             req[p].epoch = req[t].epoch /\ req[p].counter = req[t].counter
               => p = t)'
      <4> SUFFICES ASSUME NEW p \in InFlight', NEW t \in InFlight', p # t,
                          req'[p].epoch = req'[t].epoch,
                          req'[p].counter = req'[t].counter
                   PROVE  FALSE
        OBVIOUS
      <4>1. CASE p # r /\ t # r
        BY <4>1, <3>4 DEF CodeInv
      <4>2. CASE p = r
        BY <4>2, <3>1, <3>4, <3>6, <2>1, <2>3 DEF TypeOK, Request, InFlight
      <4>3. CASE t = r
        BY <4>3, <3>1, <3>4, <3>6, <2>1, <2>3 DEF TypeOK, Request, InFlight
      <4> QED
        BY <4>1, <4>2, <4>3
    <3>11. OneSessionPerCode'
      BY <1>1 DEF CodeInv, OneSessionPerCode
    <3>12. (\A p \in InFlight : Burned(req[p].counter, req[p].epoch))'
      BY <3>8
    <3> QED
      BY <3>7, <3>9, <3>10, <3>11, <3>12 DEF CodeInv
  <2> QED
    BY <2>4, <2>5
<1> QED
    BY <1>2, <1>3 DEF AcceptCounter

\* RotatePending mints a session with the counter its request was handed, which
\* no other request and no other session has.
LEMMA RotateStep ==
    ASSUME TypeOK, TypeOK', CodeInv, NEW r \in Requests, RotatePending(r)
    PROVE  CodeInv'
<1>1. user' = user /\ epoch' = epoch /\ Answered(r)
    BY DEF RotatePending
<1>2. CASE rotations' = rotations
    BY <1>1, <1>2, Leaves, ForwardIfSame, CodeFrame
<1>3. CASE rotations' # rotations
  <2>1. PICK s \in SessionIds :
           rotations' = rotations \cup
                 {[from |-> req[r].cookie, to |-> s, secret |-> req[r].secret,
                   step |-> req[r].counter, epoch |-> req[r].epoch,
                   attempts |-> sessions[req[r].cookie].attempts]}
    BY <1>3 DEF RotatePending
  <2> DEFINE new == [from |-> req[r].cookie, to |-> s, secret |-> req[r].secret,
                     step |-> req[r].counter, epoch |-> req[r].epoch,
                     attempts |-> sessions[req[r].cookie].attempts]
  <2>2. /\ rotations' = rotations \cup {new}
        /\ new.step = req[r].counter /\ new.epoch = req[r].epoch
    BY <2>1
  <2> HIDE DEF new
  <2>3. r \in InFlight /\ \A p \in InFlight' : p # r /\ p \in InFlight /\ req'[p] = req[p]
    BY <1>1 DEF RotatePending, InFlight, At, Answered, Idle, TypeOK
  <2>4. (\A a \in rotations : Burned(a.step, a.epoch))'
    BY <1>1, <2>2, <2>3 DEF CodeInv, Burned
  <2>5. (\A p \in InFlight : Burned(req[p].counter, req[p].epoch))'
    BY <1>1, <2>3 DEF CodeInv, Burned
  <2>6. (\A p \in InFlight, a \in rotations :
             req[p].epoch = a.epoch => req[p].counter # a.step)'
    BY <2>2, <2>3 DEF CodeInv
  <2>7. (\A p, t \in InFlight :
             req[p].epoch = req[t].epoch /\ req[p].counter = req[t].counter
               => p = t)'
    BY <2>3 DEF CodeInv
  <2>8. OneSessionPerCode'
    BY <2>2, <2>3 DEF CodeInv, OneSessionPerCode
  <2> QED
    BY <2>4, <2>5, <2>6, <2>7, <2>8 DEF CodeInv
<1> QED
    BY <1>2, <1>3

\* Every step keeps the invariant behind OneSessionPerCode.
LEMMA CodeStep == TypeOK /\ TypeOK' /\ CodeInv /\ [Next]_vars => CodeInv'
<1> SUFFICES ASSUME TypeOK, TypeOK', CodeInv, [Next]_vars PROVE CodeInv'
    OBVIOUS
<1>1. ASSUME NEW r \in Requests, Arrival(r) PROVE CodeInv'
    BY <1>1, ArrivalFrame, ForwardIfSame, CodeFrame
<1>2. ASSUME NEW r \in Requests,
             \/ CreateSession(r) \/ LockOut(r) \/ EnableTOTP(r) \/ StoreSecret(r)
             \/ WipeTOTP(r) \/ DeleteUser(r) \/ Logout(r) \/ Refused(r)
      PROVE  CodeInv'
  <2>1. Answered(r) /\ rotations' = rotations
    BY <1>2 DEF CreateSession, LockOut, EnableTOTP, StoreSecret, WipeTOTP,
                DeleteUser, Logout, Refused, history
  <2>2. Forward
    <3>1. CASE user' = user /\ epoch' = epoch
      BY <3>1, ForwardIfSame
    <3>2. CASE epoch' = epoch + 1
      BY <3>2 DEF Forward, TypeOK
    <3>3. CASE EnableTOTP(r)
      BY <3>3 DEF EnableTOTP, Forward, TypeOK, UserRow, history, Confirmable
    <3>4. CASE DeleteUser(r)
      BY <3>4 DEF DeleteUser, Forward, history
    <3> QED
      BY <1>2, <3>1, <3>2, <3>3, <3>4
      DEF CreateSession, LockOut, StoreSecret, WipeTOTP, Logout, Refused, history
  <2> QED
    BY <2>1, <2>2, Leaves, CodeFrame
<1>3. ASSUME NEW r \in Requests, FetchUser(r) PROVE CodeInv'
  <2>1. user' = user /\ epoch' = epoch /\ rotations' = rotations
    BY <1>3 DEF FetchUser, history
  <2>2. CASE Holds(r, [req[r] EXCEPT !.pc = "check", !.secret = user.secret])
    <3>1. [req[r] EXCEPT !.pc = "check", !.secret = user.secret].pc # "rotate"
      BY DEF TypeOK, Request
    <3> QED
      BY <2>1, <2>2, <3>1, OnlyMine, ForwardIfSame, CodeFrame
  <2>3. CASE CodeRejected(r) \/ Goto(r, "delete")
    BY <2>1, <2>3, Leaves, ForwardIfSame, CodeFrame DEF Labels
  <2> QED
    BY <1>3, <2>2, <2>3 DEF FetchUser
<1>4. ASSUME NEW r \in Requests, CheckCode(r) PROVE CodeInv'
  <2>1. user' = user /\ epoch' = epoch /\ rotations' = rotations
    BY <1>4 DEF CheckCode
  <2>2. ASSUME NEW c \in Window(now),
               Holds(r, [req[r] EXCEPT !.pc = "accept", !.counter = c])
        PROVE  CodeInv'
    <3>1. [req[r] EXCEPT !.pc = "accept", !.counter = c].pc # "rotate"
      BY DEF TypeOK, Request
    <3> QED
      BY <2>1, <2>2, <3>1, OnlyMine, ForwardIfSame, CodeFrame
  <2>3. CASE CodeRejected(r)
    BY <2>1, <2>3, Leaves, ForwardIfSame, CodeFrame
  <2> QED
    BY <1>4, <2>2, <2>3 DEF CheckCode
<1>5. ASSUME NEW r \in Requests, AcceptCounter(r) PROVE CodeInv'
    BY <1>5, AcceptStep
<1>6. ASSUME NEW r \in Requests, RotatePending(r) PROVE CodeInv'
    BY <1>6, RotateStep
<1>7. ASSUME NEW r \in Requests, RecordFailure(r) PROVE CodeInv'
  <2>1. /\ user' = user /\ epoch' = epoch /\ rotations' = rotations
        /\ Answered(r) \/ Goto(r, "lockout")
    BY <1>7 DEF RecordFailure, history
  <2> QED
    BY <2>1, Leaves, ForwardIfSame, CodeFrame DEF Labels
<1>8. CASE \/ \E s \in SessionIds : Expire(s)
           \/ Tick \/ Quiescent \/ UNCHANGED vars
  <2>1. user' = user /\ epoch' = epoch /\ rotations' = rotations /\ req' = req
    BY <1>8 DEF Expire, Tick, Quiescent, vars, history
  <2> QED
    BY <2>1, ForwardIfSame, CodeFrame
<1> QED
    BY <1>1, <1>2, <1>3, <1>4, <1>5, <1>6, <1>7, <1>8 DEF Next, Handler

\* A code mints at most one verified session between two resets of the replay
\* counter, for any number of logins, verifies and pending sessions
\* (AcceptTOTPCounter followed by RotatePending).
THEOREM CodeSpentOnce == Spec => []OneSessionPerCode
<1>1. Init => CodeInv
    BY DEF Init, CodeInv, InFlight, At, Idle, OneSessionPerCode
<1>2. CodeInv => OneSessionPerCode
    BY DEF CodeInv
<1> QED
    BY <1>1, <1>2, CodeStep, TypeCorrect, PTL DEF Spec

-----------------------------------------------------------------------------
(* What a step does to the account's row.                                   *)

Burns == \E c \in Nat : user' = [user EXCEPT !.counter = c]
Enrolls == /\ ~user.enabled
           /\ \E new \in Secrets :
                user' = [user EXCEPT !.secret = new, !.enabled = FALSE, !.counter = 0]
Arms == user.secret # NoSecret /\ user' = [user EXCEPT !.enabled = TRUE]
Clears == user'.secret = NoSecret /\ user'.enabled = FALSE

\* A step leaves the row alone, burns a code, stores a secret that is not armed,
\* arms the secret that is stored, or clears both.
LEMMA UserMoves ==
    ASSUME TypeOK, [Next]_vars
    PROVE  user' = user \/ Burns \/ Enrolls \/ Arms \/ Clears
<1> user \in UserRow /\ ReqOK
    BY DEF TypeOK, ReqOK
<1>1. ASSUME NEW r \in Requests, AcceptCounter(r) PROVE user' = user \/ Burns
  <2>1. req[r].counter \in Nat
    BY DEF ReqOK, Request
  <2> QED
    BY <1>1, <2>1 DEF AcceptCounter, Burns
<1>2. ASSUME NEW r \in Requests, StoreSecret(r) PROVE user' = user \/ Enrolls
    BY <1>2 DEF StoreSecret, Enrollable, Enrolls
<1>3. ASSUME NEW r \in Requests, EnableTOTP(r) PROVE user' = user \/ Arms
    BY <1>3 DEF EnableTOTP, Confirmable, Arms
<1>4. ASSUME NEW r \in Requests, WipeTOTP(r) PROVE user' = user \/ Clears
    BY <1>4 DEF WipeTOTP, Clears, UserRow
<1>5. ASSUME NEW r \in Requests, DeleteUser(r) PROVE Clears
    BY <1>5 DEF DeleteUser, Clears
<1>6. ASSUME NEW r \in Requests,
             \/ Arrival(r) \/ CreateSession(r) \/ FetchUser(r) \/ CheckCode(r)
             \/ RotatePending(r) \/ RecordFailure(r) \/ LockOut(r) \/ Logout(r)
             \/ Refused(r)
      PROVE  user' = user
    BY <1>6 DEF Arrival, Login, Verify2FA, CodeRequest, Enroll2FA, LogoutRequest,
                CreateSession, FetchUser, CheckCode, RotatePending, RecordFailure,
                LockOut, Logout, Refused
<1>7. CASE (\E s \in SessionIds : Expire(s)) \/ Tick \/ Quiescent \/ UNCHANGED vars
    BY <1>7 DEF Expire, Tick, Quiescent, vars
<1> QED
    BY <1>1, <1>2, <1>3, <1>4, <1>5, <1>6, <1>7 DEF Next, Handler

\* An account that demands a code has a secret to check it against, for any
\* number of enrolls, confirms and disables in flight (handleEnroll2FA,
\* handleConfirm2FA and handleDisable2FA write under conditions of their own).
THEOREM ArmedHasSecret == Spec => []EnabledHasSecret
<1>1. Init => EnabledHasSecret
    BY NoSecretIsNone DEF Init, EnabledHasSecret, NotEnrolled, Armed
<1>2. TypeOK /\ EnabledHasSecret /\ [Next]_vars => EnabledHasSecret'
  <2> SUFFICES ASSUME TypeOK, EnabledHasSecret, [Next]_vars PROVE EnabledHasSecret'
    OBVIOUS
  <2>1. user \in UserRow
    BY DEF TypeOK
  <2> QED
    BY <2>1, UserMoves
       DEF EnabledHasSecret, UserRow, Burns, Enrolls, Arms, Clears
<1> QED
    BY <1>1, <1>2, TypeCorrect, PTL DEF Spec

\* The secret of an armed account is wiped or stays, but is never swapped for
\* another, for any number of enrolls in flight (handleEnroll2FA's guard).
THEOREM SecretNeverSwapped == Spec => NoSilentSwap
<1>1. TypeOK /\ [Next]_vars =>
        [user.enabled => user'.secret \in {user.secret, NoSecret}]_user
  <2> SUFFICES ASSUME TypeOK, [Next]_vars, user.enabled
               PROVE  user'.secret \in {user.secret, NoSecret}
    OBVIOUS
  <2>1. user \in UserRow
    BY DEF TypeOK
  <2> QED
    BY <2>1, UserMoves DEF UserRow, Burns, Enrolls, Arms, Clears
<1> QED
    BY <1>1, TypeCorrect, PTL DEF Spec, NoSilentSwap

-----------------------------------------------------------------------------
(* What a step does to the sessions and to what has been rotated.           *)

Creates(s, st) == /\ sessions[s].st = "unissued"
                  /\ sessions' = [sessions EXCEPT ![s] = NewRow(st)]
                  /\ rotations' = rotations
Counts(s) == /\ sessions' = [sessions EXCEPT ![s].attempts = @ + 1]
             /\ rotations' = rotations
Deletes(S) == sessions' = Without(S) /\ rotations' = rotations
Rotating(p, s) == /\ sessions[p].st = "pending" /\ sessions[s].st = "unissued"
                  /\ sessions' = Rotated(p, s)
                  /\ \E a : a.from = p /\ rotations' = rotations \cup {a}

\* A step leaves both alone, creates a session with a fresh token, counts a
\* failure, deletes sessions, or rotates a pending one into a fresh token.
LEMMA SessionMoves ==
    ASSUME TypeOK, [Next]_vars
    PROVE  \/ UNCHANGED <<sessions, rotations>>
           \/ \E s \in SessionIds, st \in {"pending", "verified"} : Creates(s, st)
           \/ \E s \in SessionIds : Counts(s)
           \/ \E S \in SUBSET SessionIds : Deletes(S)
           \/ \E p, s \in SessionIds : Rotating(p, s)
<1> ReqOK /\ sessions \in [SessionIds -> SessionRow]
    BY DEF TypeOK, ReqOK
<1>1. ASSUME NEW r \in Requests, CreateSession(r)
      PROVE  \E s \in SessionIds, st \in {"pending", "verified"} : Creates(s, st)
    BY <1>1 DEF CreateSession, history, Creates
<1>2. ASSUME NEW r \in Requests, RecordFailure(r)
      PROVE  UNCHANGED <<sessions, rotations>> \/ \E s \in SessionIds : Counts(s)
  <2>1. req[r].cookie \in SessionIds
    BY <1>2, VerifyPlaces DEF RecordFailure, At
  <2>2. rotations' = rotations
    BY <1>2 DEF RecordFailure, history
  <2> QED
    BY <2>1, <2>2, <1>2 DEF RecordFailure, Counts
<1>3. ASSUME NEW r \in Requests, RotatePending(r)
      PROVE  \/ UNCHANGED <<sessions, rotations>>
             \/ \E p, s \in SessionIds : Rotating(p, s)
  <2>1. req[r].cookie \in SessionIds
    BY <1>3, VerifyPlaces DEF RotatePending, At
  <2>2. CASE ~Rotates(req[r].cookie)
    BY <1>3, <2>2 DEF RotatePending
  <2>3. CASE Rotates(req[r].cookie)
    <3>1. PICK s \in SessionIds :
             /\ sessions[s].st = "unissued"
             /\ sessions' = Rotated(req[r].cookie, s)
             /\ rotations' = rotations \cup
                   {[from |-> req[r].cookie, to |-> s, secret |-> req[r].secret,
                     step |-> req[r].counter, epoch |-> req[r].epoch,
                     attempts |-> sessions[req[r].cookie].attempts]}
      BY <1>3, <2>3 DEF RotatePending
    <3> QED
      BY <2>1, <2>3, <3>1 DEF Rotates, ValidatesPending, Rotating
  <2> QED
    BY <2>2, <2>3
<1>4. ASSUME NEW r \in Requests, LockOut(r) \/ DeleteUser(r) \/ Logout(r)
      PROVE  \/ UNCHANGED <<sessions, rotations>>
             \/ \E S \in SUBSET SessionIds : Deletes(S)
  <2>1. rotations' = rotations
    BY <1>4 DEF LockOut, DeleteUser, Logout, history
  <2>2. \/ UNCHANGED sessions
        \/ \E S \in SUBSET SessionIds : sessions' = Without(S)
    <3>1. \/ UNCHANGED sessions \/ sessions' = Without({req[r].cookie})
          \/ sessions' = Without(Stored)
      BY <1>4 DEF LockOut, DeleteUser, Logout
    <3>2. Without({req[r].cookie}) = Without({req[r].cookie} \cap SessionIds)
      BY DEF Without
    <3> QED
      BY <3>1, <3>2 DEF Stored
  <2> QED
    BY <2>1, <2>2 DEF Deletes
<1>5. ASSUME NEW s \in SessionIds, Expire(s)
      PROVE  \E S \in SUBSET SessionIds : Deletes(S)
  <2>1. sessions' = Without({s}) /\ rotations' = rotations
    BY <1>5 DEF Expire, history
  <2> QED
    BY <2>1 DEF Deletes
<1>6. ASSUME NEW r \in Requests,
             \/ Arrival(r) \/ FetchUser(r) \/ CheckCode(r) \/ AcceptCounter(r)
             \/ StoreSecret(r) \/ EnableTOTP(r) \/ WipeTOTP(r) \/ Refused(r)
      PROVE  UNCHANGED <<sessions, rotations>>
    BY <1>6 DEF Arrival, Login, Verify2FA, CodeRequest, Enroll2FA, LogoutRequest,
                FetchUser, CheckCode, AcceptCounter, StoreSecret, EnableTOTP,
                WipeTOTP, Refused, history
<1>7. CASE Tick \/ Quiescent \/ UNCHANGED vars
    BY <1>7 DEF Tick, Quiescent, vars, history
<1> QED
    BY <1>1, <1>2, <1>3, <1>4, <1>5, <1>6, <1>7 DEF Next, Handler

\* No session that was pending is ever verified and no dead one revives, for any
\* interleaving (SessionStore.RotatePending mints a fresh token and returns it
\* only if its DELETE found a pending row).
THEOREM NeverPromoted == Spec => NoPromotion
<1>1. TypeOK /\ [Next]_vars =>
        [\A s \in SessionIds :
           /\ sessions[s].st = "pending" => sessions'[s].st # "verified"
           /\ sessions[s].st = "dead" => sessions'[s].st = "dead"]_sessions
  <2> DEFINE Kept(t) == /\ sessions[t].st = "pending" => sessions'[t].st # "verified"
                        /\ sessions[t].st = "dead" => sessions'[t].st = "dead"
  <2> SUFFICES ASSUME TypeOK, [Next]_vars, NEW t \in SessionIds
               PROVE  Kept(t)
    OBVIOUS
  <2> sessions \in [SessionIds -> SessionRow]
    BY DEF TypeOK
  <2>1. ASSUME NEW s \in SessionIds, NEW st \in {"pending", "verified"}, Creates(s, st)
        PROVE  Kept(t)
    BY <2>1 DEF Creates
  <2>2. ASSUME NEW s \in SessionIds, Counts(s) PROVE Kept(t)
    BY <2>2 DEF Counts, SessionRow
  <2>3. ASSUME NEW S \in SUBSET SessionIds, Deletes(S)
        PROVE  Kept(t)
    BY <2>3, WithoutType DEF Deletes, NewRow
  <2>4. ASSUME NEW p \in SessionIds, NEW s \in SessionIds, Rotating(p, s)
        PROVE  Kept(t)
    BY <2>4, WithoutType DEF Rotating, Rotated, NewRow
  <2>5. CASE UNCHANGED sessions
    BY <2>5
  <2> QED
    BY <2>1, <2>2, <2>3, <2>4, <2>5, SessionMoves
<1> QED
    BY <1>1, TypeCorrect, PTL DEF Spec, NoPromotion

\* The pending sessions implement one-time secrets, for any number of tokens
\* and requests: every step issues one, uses a usable one, withdraws some or
\* leaves them alone (session.go).
THEOREM PendingOneTime == Spec => PendingIsOneTime
<1> USE DEF OneTime!Init, OneTime!Next, OneTime!Issue, OneTime!Use,
            OneTime!Withdraw, OneTime!secretVars
<1>1. Init => OneTime!Init
    BY DEF Init, NewRow
<1>2. TypeOK /\ [Next]_vars => [OneTime!Next]_(OneTime!secretVars)
  <2> SUFFICES ASSUME TypeOK, [Next]_vars
               PROVE  OneTime!Next \/ UNCHANGED OneTime!secretVars
    OBVIOUS
  <2> sessions \in [SessionIds -> SessionRow]
    BY DEF TypeOK
  <2>1. CASE UNCHANGED <<sessions, rotations>>
    BY <2>1
  <2>2. ASSUME NEW s \in SessionIds, Creates(s, "pending") PROVE OneTime!Issue(s)
    BY <2>2 DEF Creates, NewRow, SessionRow
  <2>3. ASSUME NEW s \in SessionIds, Creates(s, "verified")
        PROVE  OneTime!Withdraw({s})
    BY <2>3 DEF Creates, NewRow, SessionRow
  <2>4. ASSUME NEW s \in SessionIds, Counts(s) PROVE UNCHANGED OneTime!secretVars
    BY <2>4 DEF Counts, SessionRow
  <2>5. ASSUME NEW S \in SUBSET SessionIds, Deletes(S) PROVE OneTime!Withdraw(S)
    BY <2>5, WithoutType DEF Deletes, NewRow
  <2>6. ASSUME NEW p \in SessionIds, NEW s \in SessionIds, Rotating(p, s)
        PROVE  OneTime!Use(p, {s})
    BY <2>6, WithoutType DEF Rotating, Rotated, NewRow
  <2> QED
    BY <2>1, <2>2, <2>3, <2>4, <2>5, <2>6, SessionMoves
<1> QED
    BY <1>1, <1>2, TypeCorrect, PTL DEF Spec, PendingIsOneTime, OneTime!Spec

-----------------------------------------------------------------------------
(* A pending session over its budget is about to be deleted, or its DELETE  *)
(* has been lost.                                                           *)

OverBudget(s) == sessions[s].st = "pending" /\ sessions[s].attempts >= MaxAttempts
LockingOut(r, s) == At(r, "lockout") /\ req[r].cookie = s

\* What has been spared once stays so.
LEMMA SparedStay ==
    ASSUME [Next]_vars
    PROVE  spared \subseteq spared'
BY DEF Next, Arrival, Handler, Login, Verify2FA, CodeRequest, Enroll2FA,
       LogoutRequest, CreateSession, FetchUser, CheckCode, AcceptCounter,
       RotatePending, RecordFailure, LockOut, StoreSecret, EnableTOTP, WipeTOTP,
       DeleteUser, Logout, Refused, Expire, Tick, Quiescent, vars, history

\* A request that has to lock a session out stays there until it has, or until
\* its DELETE is lost.
LEMMA LockOutPending ==
    ASSUME TypeOK, [Next]_vars, NEW q \in Requests, NEW s \in SessionIds,
           LockingOut(q, s)
    PROVE  LockingOut(q, s)' \/ s \in spared' \/ sessions'[s].st = "dead"
<1> /\ req \in [Requests -> Request] /\ sessions \in [SessionIds -> SessionRow]
    BY DEF TypeOK
<1> USE DEF LockingOut, At
<1>1. ASSUME NEW r \in Requests, r # q, Arrival(r) \/ Handler(r) \/ Refused(r)
      PROVE  req'[q] = req[q]
    BY <1>1 DEF Arrival, Handler, Login, Verify2FA, CodeRequest, Enroll2FA,
                LogoutRequest, CreateSession, FetchUser, CheckCode, AcceptCounter,
                RotatePending, RecordFailure, LockOut, StoreSecret, EnableTOTP,
                WipeTOTP, DeleteUser, Logout, Refused, Arrives, Holds, Goto,
                Answered, CodeRejected
<1>2. CASE LockOut(q)
  <2>1. CASE sessions' = Without({req[q].cookie})
    BY <2>1, WithoutType DEF NewRow
  <2>2. CASE spared' = spared \cup {req[q].cookie}
    BY <2>2
  <2> QED
    BY <1>2, <2>1, <2>2 DEF LockOut
<1>3. CASE Refused(q)
    BY <1>3 DEF Refused
<1>4. ~ Arrival(q)
    BY DEF Arrival, Login, Verify2FA, CodeRequest, Enroll2FA, LogoutRequest, Arrives
<1>5. ASSUME Handler(q) PROVE LockOut(q)
    BY <1>5 DEF Handler, CreateSession, FetchUser, CheckCode, AcceptCounter,
                RotatePending, RecordFailure, StoreSecret, EnableTOTP, WipeTOTP,
                DeleteUser, Logout
<1>6. CASE (\E t \in SessionIds : Expire(t)) \/ Tick \/ Quiescent \/ UNCHANGED vars
    BY <1>6 DEF Expire, Tick, Quiescent, vars
<1> QED
    BY <1>1, <1>2, <1>3, <1>4, <1>5, <1>6 DEF Next

\* Only the request that counts the last failure takes a session over its
\* budget, and that request goes on to lock it out.
LEMMA OverBudgetComesFrom ==
    ASSUME TypeOK, [Next]_vars, NEW s \in SessionIds, OverBudget(s)'
    PROVE  OverBudget(s) \/ \E r \in Requests : LockingOut(r, s)'
<1> /\ req \in [Requests -> Request] /\ sessions \in [SessionIds -> SessionRow]
    BY DEF TypeOK
<1> USE DEF OverBudget
<1>1. ASSUME NEW r \in Requests, RecordFailure(r)
      PROVE  OverBudget(s) \/ LockingOut(r, s)'
  <2>1. CASE ~ValidatesPending(req[r].cookie) \/ s # req[r].cookie
    BY <1>1, <2>1 DEF RecordFailure
  <2>2. CASE ValidatesPending(req[r].cookie) /\ s = req[r].cookie
    <3>1. sessions' = [sessions EXCEPT ![s].attempts = sessions[s].attempts + 1]
      BY <1>1, <2>2 DEF RecordFailure
    <3>2. SpendsBudget(sessions[s].attempts + 1)
      BY <3>1 DEF SpendsBudget, SessionRow
    <3>3. Goto(r, "lockout")
      BY <1>1, <2>2, <3>2 DEF RecordFailure
    <3> QED
      BY <2>2, <3>3 DEF Goto, Holds, LockingOut, At, Request
  <2> QED
    BY <2>1, <2>2
<1>2. ASSUME NEW r \in Requests, CreateSession(r) PROVE OverBudget(s)
  <2>1. PICK t \in SessionIds, st \in {"pending", "verified"} :
           sessions' = [sessions EXCEPT ![t] = NewRow(st)]
    BY <1>2 DEF CreateSession
  <2>2. s # t
    BY <2>1, AttemptsPositive DEF NewRow
  <2> QED
    BY <2>1, <2>2
<1>3. ASSUME NEW r \in Requests, RotatePending(r) PROVE OverBudget(s)
  <2>1. ASSUME NEW p, NEW t \in SessionIds, sessions' = Rotated(p, t)
        PROVE  OverBudget(s)
    BY <2>1, WithoutType DEF Rotated, NewRow
  <2> QED
    BY <2>1, <1>3 DEF RotatePending
<1>4. ASSUME NEW S, sessions' = Without(S) PROVE OverBudget(s)
    BY <1>4, WithoutType DEF NewRow
<1>5. ASSUME NEW r \in Requests, LockOut(r) \/ DeleteUser(r) \/ Logout(r)
      PROVE  OverBudget(s)
    BY <1>4, <1>5 DEF LockOut, DeleteUser, Logout
<1>6. ASSUME NEW t \in SessionIds, Expire(t) PROVE OverBudget(s)
    BY <1>4, <1>6 DEF Expire
<1>7. ASSUME NEW r \in Requests,
             \/ Arrival(r) \/ FetchUser(r) \/ CheckCode(r) \/ AcceptCounter(r)
             \/ StoreSecret(r) \/ EnableTOTP(r) \/ WipeTOTP(r) \/ Refused(r)
      PROVE  OverBudget(s)
    BY <1>7 DEF Arrival, Login, Verify2FA, CodeRequest, Enroll2FA, LogoutRequest,
                FetchUser, CheckCode, AcceptCounter, StoreSecret, EnableTOTP,
                WipeTOTP, Refused
<1>8. CASE Tick \/ Quiescent \/ UNCHANGED vars
    BY <1>8 DEF Tick, Quiescent, vars
<1> QED
    BY <1>1, <1>2, <1>3, <1>5, <1>6, <1>7, <1>8 DEF Next, Handler

\* A pending session that has used up its budget is about to be deleted, unless
\* its DELETE was lost, for any number of verifies of one cookie in flight
\* (RecordTOTPFailure and recordVerifyFailure).
THEOREM BudgetEnforced == Spec => []OverBudgetIsDoomed
<1>1. Init => OverBudgetIsDoomed
    BY DEF Init, OverBudgetIsDoomed, NewRow
<1>2. TypeOK /\ OverBudgetIsDoomed /\ [Next]_vars => OverBudgetIsDoomed'
  <2> SUFFICES ASSUME TypeOK, OverBudgetIsDoomed, [Next]_vars,
                      NEW s \in SessionIds, OverBudget(s)'
               PROVE  s \in spared' \/ \E r \in Requests : LockingOut(r, s)'
    BY DEF OverBudgetIsDoomed, OverBudget, LockingOut, At
  <2>1. CASE OverBudget(s)
    <3>1. s \in spared \/ \E r \in Requests : LockingOut(r, s)
      BY <2>1 DEF OverBudgetIsDoomed, OverBudget, LockingOut, At
    <3>2. sessions'[s].st # "dead"
      BY DEF OverBudget
    <3> QED
      BY <3>1, <3>2, SparedStay, LockOutPending
  <2> QED
    BY <2>1, OverBudgetComesFrom
<1> QED
    BY <1>1, <1>2, TypeCorrect, PTL DEF Spec
=============================================================================
