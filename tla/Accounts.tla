------------------------------ MODULE Accounts ------------------------------
(***************************************************************************)
(* Email addresses, passwords and the sessions they are worth: profile     *)
(* update, email and password change (internal/auth/{handler,database}.go),*)
(* an admin's edit (internal/admin/member.go), registration                *)
(* (internal/register), login and erasure.                                 *)
(*                                                                         *)
(* A member's own update reads the row in one statement and writes every   *)
(* editable column in a later one; an admin's, who may not give an address,*)
(* does so in a transaction that locks the row.  Of the editable columns   *)
(* only "email" is kept: it is the login name, unique, and the one that    *)
(* asks for the password.  The roles of admins are left to MemberAdmin.    *)
(***************************************************************************)
EXTENDS Naturals, FiniteSets

CONSTANTS
    Requests,       \* requests the server can have in flight
    Users,          \* ids the table "users" can hand out
    Emails,         \* addresses, in the lower case they are stored in
    Passwords,      \* passwords that members change to, each once
    SessionIds,     \* session tokens the generator can produce
    FirstPassword,  \* the password of a registration
    NoEmail,        \* an update without an address
    NoUser, NoRequest

ASSUME NullsAreNone ==
    /\ FirstPassword \notin Passwords /\ NoEmail \notin Emails
    /\ NoUser \notin Users /\ NoRequest \notin Requests

VARIABLES
    row,        \* user -> the committed row
    sessions,   \* session id -> owner and whether it is still stored
    rowLock,    \* user -> the admin's transaction that holds the row
    req,        \* request -> where its handler is and what it holds
    unused,     \* passwords nobody has chosen yet
    \* history, read by properties only
    retired,    \* user -> passwords that have been replaced
    promised    \* sessions a plain "ok" has said are signed out

history == <<retired, promised>>
vars == <<row, sessions, rowLock, req, unused, history>>

-----------------------------------------------------------------------------
(* Rows.                                                                    *)

NoRow(st) == [st |-> st, email |-> NoEmail, password |-> FirstPassword]
NewRow(e) == [st |-> "stored", email |-> e, password |-> FirstPassword]

Exists(u) == row[u].st = "stored"
Unlocked(u) == rowLock[u] = NoRequest

SessionsOf(u) ==
    {s \in SessionIds : sessions[s].st = "stored" /\ sessions[s].owner = u}

\* DELETE of all sessions of u, and INSERT of one.
SignedOut(u) ==
    [s \in SessionIds |->
        IF s \in SessionsOf(u) THEN [sessions[s] EXCEPT !.st = "dead"] ELSE sessions[s]]
SignedIn(u, s) == [sessions EXCEPT ![s] = [st |-> "stored", owner |-> u]]

Mintable(s) == sessions[s].st = "unissued"

\* No other row has the address.
FreeAddress(e, u) == \A v \in Users \ {u} : Exists(v) => row[v].email # e

\* Not the code: lower(email) is not unique.
NoIndex(e, u) == TRUE

\* What the unique index on lower(email) lets a statement write.
Storable(e, u) == FreeAddress(e, u)

-----------------------------------------------------------------------------
(* Requests.  "ask" is the address an update asks for, "email" the one it   *)
(* is going to write, "changed" whether these made it change the one it     *)
(* read; "before" are the sessions at the write, "password" the new one.    *)

Idle == [pc |-> "idle", kind |-> "none", user |-> NoUser, ask |-> NoEmail,
         email |-> NoEmail, changed |-> FALSE, password |-> FirstPassword,
         before |-> {}]

At(r, l) == req[r].pc = l
Kind(r, k) == req[r].kind = k
Holds(r, q) == req' = [req EXCEPT ![r] = q]
Goto(r, l) == Holds(r, [req[r] EXCEPT !.pc = l])
Answered(r) == Holds(r, Idle)

\* Not the code: a transaction that ends early is left open.
NotReleased(r) == UNCHANGED rowLock

\* COMMIT and ROLLBACK give the row back.
Released(r) ==
    rowLock' = [u \in Users |-> IF rowLock[u] = r THEN NoRequest ELSE rowLock[u]]

-----------------------------------------------------------------------------
(* Arrivals.  Everything a handler refuses before its first statement is    *)
(* Refused; sessionRequired looks at the session once.                      *)

Arrives(r, q) ==
    /\ At(r, "idle")
    /\ Holds(r, q)
    /\ UNCHANGED <<row, sessions, rowLock, history>>

\* POST /register: the payload passes every rule and is about to be stored.
Register(r, e) ==
    /\ Arrives(r, [Idle EXCEPT !.kind = "register", !.email = e, !.pc = "insert"])
    /\ UNCHANGED unused

\* POST /auth/login with the right password.
Login(r, u) ==
    /\ Exists(u)
    /\ Arrives(r, [Idle EXCEPT !.kind = "login", !.user = u, !.pc = "create"])
    /\ UNCHANGED unused

\* PUT /auth/profile, with an address or without.
UpdateProfile(r, u, e) ==
    /\ SessionsOf(u) # {}
    /\ Arrives(r, [Idle EXCEPT !.kind = "profile", !.user = u, !.ask = e, !.pc = "fetch"])
    /\ UNCHANGED unused

\* POST /auth/password.
ChangePassword(r, u, p) ==
    /\ SessionsOf(u) # {}
    /\ Arrives(r, [Idle EXCEPT !.kind = "password", !.user = u, !.password = p,
                               !.pc = "fetch"])
    /\ unused' = unused \ {p}

\* PUT /admin/users/:id, by an admin who is allowed to; never with an address.
AdminUpdate(r, u) ==
    /\ Arrives(r, [Idle EXCEPT !.kind = "admin", !.user = u, !.pc = "select"])
    /\ UNCHANGED unused

\* POST /auth/delete.
Erase(r, u) ==
    /\ SessionsOf(u) # {}
    /\ Arrives(r, [Idle EXCEPT !.kind = "erase", !.user = u, !.pc = "delete"])
    /\ UNCHANGED unused

-----------------------------------------------------------------------------
(* Registration and login.                                                  *)

\* dbInsertUser: 201, or 409 by the unique index.
InsertUser(r) ==
    /\ At(r, "insert")
    /\ LET e == req[r].email IN
       \/ /\ Storable(e, NoUser)
          /\ \E u \in Users : row[u].st = "unissued"
                                /\ row' = [row EXCEPT ![u] = NewRow(e)]
       \/ /\ ~Storable(e, NoUser)
          /\ UNCHANGED row
    /\ Answered(r)
    /\ UNCHANGED <<sessions, rowLock, unused, history>>

\* SessionStore.Create; the foreign key waits for the lock of an admin's edit.
CreateSession(r) ==
    /\ At(r, "create")
    /\ Exists(req[r].user) /\ Unlocked(req[r].user)
    /\ \E s \in SessionIds : Mintable(s) /\ sessions' = SignedIn(req[r].user, s)
    /\ Answered(r)
    /\ UNCHANGED <<row, rowLock, unused, history>>

-----------------------------------------------------------------------------
(* Updates.                                                                 *)

\* What an update that has read the row of u is going to write.  All but the
\* address asked for is written as it was read.
Merged(r, u) ==
    LET changes == req[r].ask \notin {NoEmail, row[u].email} IN
    [req[r] EXCEPT !.changed = changes,
                   !.email = IF changes THEN req[r].ask ELSE row[u].email,
                   !.pc = IF changes THEN "count" ELSE "update"]

\* GetUserByID.  A member who asks for another address, or for another
\* password, has proved the current one now, or has been refused.
FetchUser(r) ==
    /\ At(r, "fetch")
    /\ LET u == req[r].user IN
       \/ ~Exists(u) /\ Answered(r)
       \/ Exists(u) /\ Kind(r, "profile") /\ Holds(r, Merged(r, u))
       \/ Exists(u) /\ Kind(r, "password") /\ Goto(r, "write")
    /\ UNCHANGED <<row, sessions, rowLock, unused, history>>

\* Not the code: the row is read without FOR UPDATE.
SelectedPlainly(r, u) == rowLock' = rowLock

\* SELECT ... FOR UPDATE
SelectedForUpdate(r, u) == rowLock' = [rowLock EXCEPT ![u] = r]

SelectMember(r) ==
    /\ At(r, "select")
    /\ LET u == req[r].user IN
         /\ Unlocked(u)
         /\ \/ ~Exists(u) /\ Answered(r) /\ UNCHANGED rowLock
            \/ Exists(u) /\ Holds(r, Merged(r, u)) /\ SelectedForUpdate(r, u)
    /\ UNCHANGED <<row, sessions, unused, history>>

\* The conflict check of ApplyProfileUpdate.
CountEmail(r) ==
    /\ At(r, "count")
    /\ IF FreeAddress(req[r].email, req[r].user) THEN Goto(r, "update") ELSE Answered(r)
    /\ UNCHANGED <<row, sessions, rowLock, unused, history>>

\* Not the code: the UPDATE writes all columns, as they were at registration.
WrittenWhole(r) == [row[req[r].user] EXCEPT !.email = req[r].email,
                                            !.password = FirstPassword]

\* The columns an UPDATE writes.
Written(r) == [row[req[r].user] EXCEPT !.email = req[r].email]

\* The UPDATE of a member's own request; of an erased account it finds no row,
\* which is not noticed.
UpdateOwnRow(r) ==
    /\ At(r, "update") /\ Kind(r, "profile")
    /\ LET u    == req[r].user
           free == Storable(req[r].email, u)
           next == IF req[r].changed
                     THEN [req[r] EXCEPT !.pc = "kill", !.before = SessionsOf(u)]
                     ELSE Idle
       IN /\ Unlocked(u)
          /\ \/ ~Exists(u) /\ Holds(r, next) /\ UNCHANGED row
             \/ Exists(u) /\ free /\ Holds(r, next) /\ row' = [row EXCEPT ![u] = Written(r)]
             \/ Exists(u) /\ ~free /\ Answered(r) /\ UNCHANGED row
    /\ UNCHANGED <<sessions, rowLock, unused, history>>

\* The same statement in an admin's transaction, and its COMMIT.
EditMember(r) ==
    /\ At(r, "update") /\ Kind(r, "admin")
    /\ row' = [row EXCEPT ![req[r].user] = Written(r)]
    /\ Answered(r) /\ Released(r)
    /\ UNCHANGED <<sessions, unused, history>>

\* UpdateUserPassword
WritePassword(r) ==
    /\ At(r, "write")
    /\ LET u == req[r].user IN
         /\ Unlocked(u)
         /\ IF Exists(u)
              THEN /\ row' = [row EXCEPT ![u].password = req[r].password]
                   /\ retired' = [retired EXCEPT ![u] = @ \cup {row[u].password}]
              ELSE UNCHANGED <<row, retired>>
         /\ Holds(r, [req[r] EXCEPT !.pc = "kill", !.before = SessionsOf(u)])
    /\ UNCHANGED <<sessions, rowLock, unused, promised>>

-----------------------------------------------------------------------------
(* killAndReissue.                                                          *)

\* Not the code: the failure of InvalidateAll is logged only.
WarningDropped(r) == Goto(r, "reissue")

\* The answer carries a warning.
Warned(r) == Answered(r)

KillSessions(r) ==
    /\ At(r, "kill")
    /\ \/ sessions' = SignedOut(req[r].user) /\ Goto(r, "reissue")
       \/ Warned(r) /\ UNCHANGED sessions
    /\ UNCHANGED <<row, rowLock, unused, history>>

\* A new session for the requester; "ok" with it or without.
Reissue(r) ==
    /\ At(r, "reissue")
    /\ \/ /\ Exists(req[r].user) /\ Unlocked(req[r].user)
          /\ \E s \in SessionIds : Mintable(s) /\ sessions' = SignedIn(req[r].user, s)
       \/ UNCHANGED sessions
    /\ promised' = promised \cup req[r].before
    /\ Answered(r)
    /\ UNCHANGED <<row, rowLock, unused, retired>>

-----------------------------------------------------------------------------
(* Erasure, and the environment.                                            *)

\* DELETE FROM users, with its cascade.
DeleteUser(r) ==
    /\ At(r, "delete")
    /\ LET u == req[r].user IN
         /\ Unlocked(u)
         /\ row' = [row EXCEPT ![u] = NoRow("gone")]
         /\ sessions' = SignedOut(u)
    /\ Answered(r)
    /\ UNCHANGED <<rowLock, unused, history>>

\* A session is logged out or expires.
SessionEnds(s) ==
    /\ sessions[s].st = "stored"
    /\ sessions' = [sessions EXCEPT ![s].st = "dead"]
    /\ UNCHANGED <<row, rowLock, req, unused, history>>

\* A statement fails (500), the password is wrong (403), or the process or the
\* client goes away: a transaction is rolled back.
Refused(r) ==
    /\ ~At(r, "idle")
    /\ Answered(r) /\ Released(r)
    /\ UNCHANGED <<row, sessions, unused, history>>

\* Nothing is in flight: the bounded behaviour may end here.
Quiescent ==
    /\ \A r \in Requests : At(r, "idle")
    /\ UNCHANGED vars

-----------------------------------------------------------------------------
\* Some members are registered, each with an address of its own.
Init ==
    /\ row \in [Users -> {NoRow("unissued")} \cup {NewRow(e) : e \in Emails}]
    /\ \A u, v \in Users : Exists(u) /\ Exists(v) /\ row[u].email = row[v].email => u = v
    /\ sessions = [s \in SessionIds |-> [st |-> "unissued", owner |-> NoUser]]
    /\ rowLock = [u \in Users |-> NoRequest]
    /\ req = [r \in Requests |-> Idle]
    /\ unused = Passwords
    /\ retired = [u \in Users |-> {}]
    /\ promised = {}

Arrival(r) ==
    \/ \E e \in Emails : Register(r, e)
    \/ \E u \in Users :
         \/ Login(r, u) \/ Erase(r, u) \/ AdminUpdate(r, u)
         \/ \E e \in Emails \cup {NoEmail} : UpdateProfile(r, u, e)
         \/ \E p \in unused : ChangePassword(r, u, p)

Handler(r) ==
    \/ InsertUser(r) \/ CreateSession(r) \/ FetchUser(r) \/ SelectMember(r)
    \/ CountEmail(r) \/ UpdateOwnRow(r) \/ EditMember(r)
    \/ WritePassword(r) \/ KillSessions(r) \/ Reissue(r) \/ DeleteUser(r)

Next ==
    \/ \E r \in Requests : Arrival(r) \/ Handler(r) \/ Refused(r)
    \/ \E s \in SessionIds : SessionEnds(s)
    \/ Quiescent

Spec == Init /\ [][Next]_vars

-----------------------------------------------------------------------------
(* Properties.                                                              *)

Labels == {"idle", "insert", "create", "fetch", "select", "count", "update",
           "write", "kill", "reissue", "delete"}
Kinds == {"none", "register", "login", "profile", "password", "admin", "erase"}

Row == [st : {"unissued", "stored", "gone"}, email : Emails \cup {NoEmail},
        password : Passwords \cup {FirstPassword}]

Request == [pc : Labels, kind : Kinds, user : Users \cup {NoUser},
            ask : Emails \cup {NoEmail}, email : Emails \cup {NoEmail},
            changed : BOOLEAN, password : Passwords \cup {FirstPassword},
            before : SUBSET SessionIds]

\* Every variable has its type; a session is stored for an account that is, and
\* a row is locked by exactly the edit that has selected it and not ended.
TypeOK ==
    /\ row \in [Users -> Row]
    /\ sessions \in [SessionIds -> [st : {"unissued", "stored", "dead"},
                                    owner : Users \cup {NoUser}]]
    /\ \A s \in SessionIds : sessions[s].st = "stored" =>
         sessions[s].owner \in Users /\ Exists(sessions[s].owner)
    /\ rowLock \in [Users -> Requests \cup {NoRequest}]
    /\ req \in [Requests -> Request]
    /\ \A r \in Requests, u \in Users :
         rowLock[u] = r <=> Kind(r, "admin") /\ At(r, "update") /\ req[r].user = u
    /\ unused \subseteq Passwords
    /\ retired \in [Users -> SUBSET (Passwords \cup {FirstPassword})]
    /\ promised \subseteq SessionIds

\* However registrations, edits and address changes interleave, an address is
\* the login name of one account: the count that says 409 is only a courtesy.
EmailsUnique ==
    \A u, v \in Users :
        Exists(u) /\ Exists(v) /\ row[u].email = row[v].email => u = v

\* A replaced password never comes back, although profile updates and edits
\* write rows they have read before it was replaced.
PasswordStaysReplaced == \A u \in Users : Exists(u) => row[u].password \notin retired[u]

\* A plain "ok" to a change of password or address tells the truth: no session
\* that was there when the row was written is there any more.
PlainOkContains == \A s \in promised : sessions[s].st # "stored"

\* An admin's edit never moves the address, nor brings back an account: the one
\* it writes with the other columns is still the stored one ("only the member
\* may change their own").
EditKeepsAddress ==
    \A r \in Requests :
        Kind(r, "admin") /\ At(r, "update") =>
            Exists(req[r].user) /\ row[req[r].user].email = req[r].email

-----------------------------------------------------------------------------
(* What a comment of the code says and its interleavings do not keep.       *)

\* "Changing it requires re-proving account ownership with the current
\* password": a member's update that changes the stored address is one that
\* asked for another address, hence for the password.
EmailChangeIsProven ==
    [][\A r \in Requests :
         At(r, "update") /\ Kind(r, "profile") /\ req'[r].pc # "update"
             /\ row'[req[r].user].email # row[req[r].user].email
           => req[r].changed]_vars
=============================================================================
