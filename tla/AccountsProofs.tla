--------------------------- MODULE AccountsProofs ---------------------------
(***************************************************************************)
(* Proofs about Accounts: its type invariant with the locks, that an       *)
(* admin's edit keeps the address, that addresses are unique, that         *)
(* replaced passwords stay replaced and that a plain "ok" tells the truth. *)
(***************************************************************************)
EXTENDS Accounts, TLAPS

-----------------------------------------------------------------------------
(* The invariant.                                                           *)

Typed ==
    /\ row \in [Users -> Row]
    /\ sessions \in [SessionIds -> [st : {"unissued", "stored", "dead"},
                                    owner : Users \cup {NoUser}]]
    /\ rowLock \in [Users -> Requests \cup {NoRequest}]
    /\ req \in [Requests -> Request]
    /\ unused \subseteq Passwords
    /\ retired \in [Users -> SUBSET (Passwords \cup {FirstPassword})]
    /\ promised \subseteq SessionIds

OwnersExist ==
    \A s \in SessionIds : sessions[s].st = "stored" =>
        sessions[s].owner \in Users /\ Exists(sessions[s].owner)

\* The request holds the row of its target.
Editing(q, u) == q.kind = "admin" /\ q.pc = "update" /\ q.user = u

Locks == \A r \in Requests, u \in Users : rowLock[u] = r <=> Editing(req[r], u)

\* What a request holds depends on how far it is.
Sound(q) ==
    /\ q.pc \in {"idle", "insert"} \/ q.user \in Users
    /\ q.pc = "insert" => q.email \in Emails
    /\ q.kind = "admin" => q.pc \in {"select", "update"} /\ q.ask = NoEmail
    /\ q.pc = "select" => q.kind = "admin"
    /\ q.pc = "update" => q.kind \in {"profile", "admin"}
    /\ q.pc \in {"fetch", "count", "write"} => q.kind \in {"profile", "password"}
    /\ q.pc = "write" => q.kind = "password"
    /\ q.kind = "password" =>
         q.password \in Passwords /\ q.pc \in {"fetch", "write", "kill", "reissue"}

Reqs == \A r \in Requests : Sound(req[r])

Inv == Typed /\ OwnersExist /\ Locks /\ Reqs

\* The invariant is more than the type invariant.
LEMMA InvImpliesTypeOK == Inv => TypeOK
BY DEF Inv, TypeOK, Typed, OwnersExist, Locks, Editing, Kind, At

\* It holds when the service starts.
LEMMA InvInit == Init => Inv
<1> SUFFICES ASSUME Init PROVE Inv
    OBVIOUS
<1>1. Idle \in Request /\ Sound(Idle) /\ \A u \in Users : ~Editing(Idle, u)
    BY DEF Idle, Request, Labels, Kinds, Sound, Editing
<1>2. \A e \in Emails : NewRow(e) \in Row /\ NoRow("unissued") \in Row
    BY DEF NewRow, NoRow, Row
<1>3. row \in [Users -> Row]
    <2>1. CASE Emails = {}
        BY <2>1 DEF Init, NoRow, Row
    <2>2. CASE Emails # {}
        BY <2>2, <1>2 DEF Init
    <2> QED
        BY <2>1, <2>2
<1>4. Typed
    BY <1>1, <1>3 DEF Init, Typed
<1>5. Locks
    BY <1>1, NullsAreNone DEF Init, Locks
<1>6. OwnersExist /\ Reqs
    BY <1>1 DEF Init, OwnersExist, Reqs
<1> QED
    BY <1>4, <1>5, <1>6 DEF Inv

-----------------------------------------------------------------------------
(* Every step of a request leaves it well formed.                           *)

Step(r) == Arrival(r) \/ Handler(r) \/ Refused(r)

\* What an update that has read a row holds is well formed.
LEMMA MergedSound ==
    ASSUME Inv, NEW r \in Requests, NEW u \in Users, Exists(u), req[r].user = u,
           req[r].kind \in {"profile", "admin"}
    PROVE  /\ Merged(r, u) \in Request /\ Sound(Merged(r, u))
           /\ Merged(r, u).kind = req[r].kind /\ Merged(r, u).user = u
           /\ req[r].kind = "admin" =>
                /\ Merged(r, u).pc = "update" /\ Merged(r, u).email = row[u].email
<1>1. req[r] \in Request /\ Sound(req[r]) /\ row[u] \in Row
    BY DEF Inv, Typed, Reqs
<1>2. row[u].email \in Emails \cup {NoEmail}
    BY <1>1 DEF Row
<1> QED
    BY <1>1, <1>2 DEF Merged, Request, Labels, Kinds, Sound

\* So is what one holds that has written and is to end the sessions.
LEMMA KillSound ==
    ASSUME NEW q \in Request, Sound(q), q.user \in Users, NEW B \in SUBSET SessionIds,
           q.kind \in {"profile", "password"}
    PROVE  LET p == [q EXCEPT !.pc = "kill", !.before = B] IN p \in Request /\ Sound(p)
<1> DEFINE p == [q EXCEPT !.pc = "kill", !.before = B]
<1>1. p \in Request
    BY DEF Request, Labels
<1>2. /\ p.pc = "kill" /\ p.kind = q.kind /\ p.user = q.user /\ p.password = q.password
    BY DEF Request
<1>3. Sound(p)
    BY <1>2 DEF Sound
<1> QED
    BY <1>1, <1>3

\* A request that arrives changes nothing yet but takes the password it chooses.
LEMMA Arrived ==
    ASSUME Inv, NEW r \in Requests, Arrival(r)
    PROVE  /\ req[r].pc = "idle"
           /\ UNCHANGED <<row, sessions, rowLock, retired, promised>>
           /\ \E q \in Request :
                /\ Sound(q)
                /\ q.pc \in {"insert", "create", "fetch", "select", "delete"}
                /\ IF q.kind = "password" THEN q.password \in unused /\ unused' = unused \ {q.password}
                                          ELSE unused' = unused
                /\ req' = [req EXCEPT ![r] = q]
<1> DEFINE Goal(q) ==
                /\ Sound(q)
                /\ q.pc \in {"insert", "create", "fetch", "select", "delete"}
                /\ IF q.kind = "password" THEN q.password \in unused /\ unused' = unused \ {q.password}
                                          ELSE unused' = unused
                /\ req' = [req EXCEPT ![r] = q]
<1>1. req[r].pc = "idle" /\ UNCHANGED <<row, sessions, rowLock, retired, promised>>
    BY DEF Arrival, Register, Login, Erase, AdminUpdate, UpdateProfile, ChangePassword, Arrives,
        At, history
<1>2. ASSUME NEW e \in Emails, Register(r, e)
      PROVE  \E q \in Request : Goal(q)
    <2> DEFINE p == [Idle EXCEPT !.kind = "register", !.email = e, !.pc = "insert"]
    <2>1. p \in Request /\ Sound(p) /\ p.pc = "insert" /\ p.kind = "register"
        BY DEF Idle, Request, Labels, Kinds, Sound
    <2> QED
        BY <1>2, <2>1 DEF Register, Arrives, Holds
<1>3. ASSUME NEW u \in Users, Login(r, u)
      PROVE  \E q \in Request : Goal(q)
    <2> DEFINE p == [Idle EXCEPT !.kind = "login", !.user = u, !.pc = "create"]
    <2>1. p \in Request /\ Sound(p) /\ p.pc = "create" /\ p.kind = "login"
        BY DEF Idle, Request, Labels, Kinds, Sound
    <2> QED
        BY <1>3, <2>1 DEF Login, Arrives, Holds
<1>4. ASSUME NEW u \in Users, Erase(r, u)
      PROVE  \E q \in Request : Goal(q)
    <2> DEFINE p == [Idle EXCEPT !.kind = "erase", !.user = u, !.pc = "delete"]
    <2>1. p \in Request /\ Sound(p) /\ p.pc = "delete" /\ p.kind = "erase"
        BY DEF Idle, Request, Labels, Kinds, Sound
    <2> QED
        BY <1>4, <2>1 DEF Erase, Arrives, Holds
<1>5. ASSUME NEW u \in Users, AdminUpdate(r, u)
      PROVE  \E q \in Request : Goal(q)
    <2> DEFINE p == [Idle EXCEPT !.kind = "admin", !.user = u, !.pc = "select"]
    <2>1. p \in Request /\ Sound(p) /\ p.pc = "select" /\ p.kind = "admin"
        BY DEF Idle, Request, Labels, Kinds, Sound
    <2> QED
        BY <1>5, <2>1 DEF AdminUpdate, Arrives, Holds
<1>6. ASSUME NEW u \in Users, NEW e \in Emails \cup {NoEmail}, UpdateProfile(r, u, e)
      PROVE  \E q \in Request : Goal(q)
    <2> DEFINE p == [Idle EXCEPT !.kind = "profile", !.user = u, !.ask = e, !.pc = "fetch"]
    <2>1. p \in Request /\ Sound(p) /\ p.pc = "fetch" /\ p.kind = "profile"
        BY DEF Idle, Request, Labels, Kinds, Sound
    <2> QED
        BY <1>6, <2>1 DEF UpdateProfile, Arrives, Holds
<1>7. ASSUME NEW u \in Users, NEW w \in unused, ChangePassword(r, u, w)
      PROVE  \E q \in Request : Goal(q)
    <2> DEFINE p == [Idle EXCEPT !.kind = "password", !.user = u, !.password = w, !.pc = "fetch"]
    <2>1. w \in Passwords
        BY DEF Inv, Typed
    <2>2. p \in Request /\ Sound(p) /\ p.pc = "fetch" /\ p.kind = "password" /\ p.password = w
        BY <2>1 DEF Idle, Request, Labels, Kinds, Sound
    <2> QED
        BY <1>7, <2>2 DEF ChangePassword, Arrives, Holds
<1> QED
    BY <1>1, <1>2, <1>3, <1>4, <1>5, <1>6, <1>7 DEF Arrival

\* A request only ever changes what it holds itself, and stays well formed.
LEMMA StepReq ==
    ASSUME Inv, NEW r \in Requests, Step(r)
    PROVE  \E q \in Request : Sound(q) /\ req' = [req EXCEPT ![r] = q]
<1> DEFINE q == req[r]
<1>1. q \in Request /\ Sound(q) /\ Idle \in Request /\ Sound(Idle)
    BY DEF Inv, Typed, Reqs, Idle, Request, Labels, Kinds, Sound
<1>2. CASE Arrival(r)
    BY <1>2, Arrived
<1>3. CASE FetchUser(r)
    <2>1. q.user \in Users /\ q.pc = "fetch"
        BY <1>1, <1>3 DEF FetchUser, At, Sound
    <2>2. CASE req' = [req EXCEPT ![r] = Idle]
        BY <1>1, <2>2
    <2>3. CASE Exists(q.user) /\ q.kind = "profile" /\ req' = [req EXCEPT ![r] = Merged(r, q.user)]
        BY <2>1, <2>3, MergedSound
    <2>4. CASE q.kind = "password" /\ req' = [req EXCEPT ![r] = [q EXCEPT !.pc = "write"]]
        <3>1. [q EXCEPT !.pc = "write"] \in Request /\ Sound([q EXCEPT !.pc = "write"])
            BY <1>1, <2>1, <2>4 DEF Request, Labels, Kinds, Sound
        <3> QED
            BY <2>4, <3>1
    <2> QED
        BY <1>3, <2>2, <2>3, <2>4 DEF FetchUser, Holds, Goto, Answered, Kind
<1>4. CASE SelectMember(r)
    <2>1. q.user \in Users /\ q.kind = "admin"
        BY <1>1, <1>4 DEF SelectMember, At, Sound
    <2>2. CASE req' = [req EXCEPT ![r] = Idle]
        BY <1>1, <2>2
    <2>3. CASE Exists(q.user) /\ req' = [req EXCEPT ![r] = Merged(r, q.user)]
        BY <2>1, <2>3, MergedSound
    <2> QED
        BY <1>4, <2>2, <2>3 DEF SelectMember, Holds, Answered
<1>5. CASE CountEmail(r)
    <2>1. q.pc = "count" /\ q.user \in Users /\ q.kind = "profile"
        BY <1>1, <1>5 DEF CountEmail, At, Sound
    <2>2. [q EXCEPT !.pc = "update"] \in Request /\ Sound([q EXCEPT !.pc = "update"])
        BY <1>1, <2>1 DEF Request, Labels, Kinds, Sound
    <2> QED
        BY <1>1, <1>5, <2>2 DEF CountEmail, Goto, Holds, Answered
<1>6. CASE UpdateOwnRow(r)
    <2> DEFINE p == [q EXCEPT !.pc = "kill", !.before = SessionsOf(q.user)]
    <2>1. q.pc = "update" /\ q.user \in Users /\ q.kind = "profile"
        BY <1>1, <1>6 DEF UpdateOwnRow, At, Kind, Sound
    <2>2. p \in Request /\ Sound(p)
        BY <1>1, <2>1, KillSound, SessionsOf(q.user) \in SUBSET SessionIds DEF SessionsOf
    <2>3. req' = [req EXCEPT ![r] = p] \/ req' = [req EXCEPT ![r] = Idle]
        <3>1. CASE q.changed
            BY <1>6, <3>1 DEF UpdateOwnRow, Holds, Answered
        <3>2. CASE ~q.changed
            BY <1>6, <3>2 DEF UpdateOwnRow, Holds, Answered
        <3> QED
            BY <3>1, <3>2
    <2>4. CASE req' = [req EXCEPT ![r] = p]
        BY <2>2, <2>4
    <2>5. CASE req' = [req EXCEPT ![r] = Idle]
        BY <1>1, <2>5
    <2> QED
        BY <2>3, <2>4, <2>5
<1>7. CASE WritePassword(r)
    <2> DEFINE p == [q EXCEPT !.pc = "kill", !.before = SessionsOf(q.user)]
    <2>1. q.pc = "write" /\ q.user \in Users /\ q.kind = "password"
        BY <1>1, <1>7 DEF WritePassword, At, Sound
    <2>2. p \in Request /\ Sound(p)
        BY <1>1, <2>1, KillSound, SessionsOf(q.user) \in SUBSET SessionIds DEF SessionsOf
    <2> QED
        BY <1>7, <2>2 DEF WritePassword, Holds
<1>8. CASE KillSessions(r)
    <2>1. q.pc = "kill" /\ q.user \in Users /\ q.kind # "admin"
        BY <1>1, <1>8 DEF KillSessions, At, Sound
    <2>2. [q EXCEPT !.pc = "reissue"] \in Request /\ Sound([q EXCEPT !.pc = "reissue"])
        BY <1>1, <2>1 DEF Request, Labels, Kinds, Sound
    <2> QED
        BY <1>1, <1>8, <2>2 DEF KillSessions, Warned, Goto, Holds, Answered
<1>9. CASE \/ InsertUser(r) \/ CreateSession(r) \/ EditMember(r) \/ Reissue(r)
            \/ DeleteUser(r) \/ Refused(r)
    BY <1>1, <1>9 DEF InsertUser, CreateSession, EditMember, Reissue, DeleteUser, Refused,
        Answered, Holds
<1> QED
    BY <1>2, <1>3, <1>4, <1>5, <1>6, <1>7, <1>8, <1>9 DEF Step, Handler

\* Only the SELECT of an edit begins one, and only its own end ends it.
LEMMA OtherSteps ==
    ASSUME Inv, NEW r \in Requests, Step(r), ~SelectMember(r), ~EditMember(r), ~Refused(r)
    PROVE  rowLock' = rowLock /\ \A u \in Users : ~Editing(req[r], u) /\ ~Editing(req'[r], u)
<1> DEFINE q == req[r]
<1>1. q \in Request /\ Sound(q) /\ req \in [Requests -> Request]
    BY DEF Inv, Typed, Reqs
<1>2. CASE Arrival(r)
    <2>1. rowLock' = rowLock /\ q.pc = "idle" /\ req'[r].pc # "update"
        BY <1>1, <1>2, Arrived
    <2> QED
        BY <2>1 DEF Editing
<1>3. CASE /\ \/ InsertUser(r) \/ CreateSession(r) \/ FetchUser(r) \/ CountEmail(r)
              \/ WritePassword(r) \/ KillSessions(r) \/ Reissue(r) \/ DeleteUser(r)
    <2>1. rowLock' = rowLock
        BY <1>3 DEF InsertUser, CreateSession, FetchUser, CountEmail, WritePassword, KillSessions,
            Reissue, DeleteUser
    <2>2. q.pc \notin {"select", "update"}
        BY <1>3 DEF InsertUser, CreateSession, FetchUser, CountEmail, WritePassword, KillSessions,
            Reissue, DeleteUser, At
    <2>3. q.kind # "admin"
        BY <1>1, <2>2 DEF Sound
    <2>4. req'[r].kind \in {q.kind, "none"}
        <3>1. CASE FetchUser(r)
            <4>1. q.user \in Users /\ q.kind \in {"profile", "password"}
                BY <1>1, <3>1 DEF FetchUser, At, Sound
            <4>2. CASE req' = [req EXCEPT ![r] = Idle]
                BY <1>1, <4>2 DEF Idle
            <4>3. CASE Exists(q.user) /\ q.kind = "profile" /\ req' = [req EXCEPT ![r] = Merged(r, q.user)]
                BY <1>1, <4>1, <4>3, MergedSound
            <4>4. CASE req' = [req EXCEPT ![r] = [q EXCEPT !.pc = "write"]]
                BY <1>1, <4>4 DEF Request
            <4> QED
                BY <3>1, <4>2, <4>3, <4>4 DEF FetchUser, Holds, Goto, Answered, Kind
        <3>2. CASE CountEmail(r) \/ KillSessions(r)
            BY <1>1, <3>2 DEF CountEmail, KillSessions, Answered, Holds, Goto, Warned, Idle, Request
        <3>3. CASE WritePassword(r)
            BY <1>1, <3>3 DEF WritePassword, Holds, Request
        <3>4. CASE InsertUser(r) \/ CreateSession(r) \/ Reissue(r) \/ DeleteUser(r)
            BY <1>1, <3>4 DEF InsertUser, CreateSession, Reissue, DeleteUser, Answered, Holds, Idle
        <3> QED
            BY <1>3, <3>1, <3>2, <3>3, <3>4
    <2> QED
        BY <2>1, <2>2, <2>3, <2>4 DEF Editing
<1>4. CASE UpdateOwnRow(r)
    <2>1. rowLock' = rowLock /\ q.kind = "profile"
        BY <1>4 DEF UpdateOwnRow, Kind
    <2>2. req'[r].kind \in {"profile", "none"}
        <3>1. CASE q.changed
            <4> DEFINE p == [q EXCEPT !.pc = "kill", !.before = SessionsOf(q.user)]
            <4>1. p.kind = "profile"
                BY <1>1, <2>1 DEF Request
            <4>2. req' = [req EXCEPT ![r] = p] \/ req' = [req EXCEPT ![r] = Idle]
                BY <1>4, <3>1 DEF UpdateOwnRow, Holds, Answered
            <4> HIDE DEF p
            <4> QED
                BY <1>1, <4>1, <4>2 DEF Idle
        <3>2. CASE ~q.changed
            BY <1>1, <1>4, <2>1, <3>2 DEF UpdateOwnRow, Answered, Holds, Idle, Request
        <3> QED
            BY <3>1, <3>2
    <2> QED
        BY <2>1, <2>2 DEF Editing
<1> QED
    BY <1>2, <1>3, <1>4 DEF Step, Handler

\* A request holds the rows it edits and no others, and leaves those of others alone.
LEMMA StepLocks ==
    ASSUME Inv, NEW r \in Requests, Step(r)
    PROVE  rowLock' \in [Users -> Requests \cup {NoRequest}] /\ Locks'
<1> DEFINE q == req[r]
<1>1. q \in Request /\ Sound(q) /\ req \in [Requests -> Request]
    BY DEF Inv, Typed, Reqs
<1>2. /\ rowLock \in [Users -> Requests \cup {NoRequest}]
      /\ \A u \in Users : rowLock[u] = r <=> Editing(q, u)
    BY DEF Inv, Typed, Locks
<1>3. \A o \in Requests \ {r} : req'[o] = req[o]
    BY <1>1, StepReq
<1>4. \A u \in Users : ~Editing(Idle, u)
    BY DEF Idle, Editing
<1>5. ASSUME rowLock' \in [Users -> Requests \cup {NoRequest}],
             \A u \in Users : rowLock'[u] = r <=> Editing(req'[r], u),
             \A u \in Users : rowLock'[u] = rowLock[u] \/ {rowLock[u], rowLock'[u]} = {r, NoRequest}
      PROVE  rowLock' \in [Users -> Requests \cup {NoRequest}] /\ Locks'
    <2> SUFFICES ASSUME NEW o \in Requests, NEW u \in Users
                 PROVE  rowLock'[u] = o <=> Editing(req'[o], u)
        BY <1>5 DEF Locks, Editing
    <2>1. CASE o = r
        BY <1>5, <2>1
    <2>2. CASE o # r
        <3>1. rowLock[u] = o <=> Editing(req[o], u)
            BY DEF Inv, Locks
        <3>2. rowLock'[u] = o <=> rowLock[u] = o
            BY <1>5, <2>2, NullsAreNone
        <3> QED
            BY <3>1, <3>2, <1>3, <2>2
    <2> QED
        BY <2>1, <2>2
<1>6. ASSUME rowLock' = rowLock, \A u \in Users : ~Editing(q, u) /\ ~Editing(req'[r], u)
      PROVE  rowLock' \in [Users -> Requests \cup {NoRequest}] /\ Locks'
    BY <1>2, <1>5, <1>6
<1>7. CASE SelectMember(r)
    <2>1. q.pc = "select" /\ q.kind = "admin" /\ q.user \in Users
        BY <1>1, <1>7 DEF SelectMember, At, Sound
    <2>2. \A u \in Users : ~Editing(q, u)
        BY <2>1 DEF Editing
    <2>3. CASE req' = [req EXCEPT ![r] = Idle] /\ rowLock' = rowLock
        BY <1>1, <1>4, <1>6, <2>2, <2>3
    <2>4. CASE /\ Exists(q.user) /\ Unlocked(q.user)
               /\ req' = [req EXCEPT ![r] = Merged(r, q.user)]
               /\ rowLock' = [rowLock EXCEPT ![q.user] = r]
        <3>1. req'[r].kind = "admin" /\ req'[r].user = q.user /\ req'[r].pc = "update"
            BY <1>1, <2>1, <2>4, MergedSound
        <3> QED
            BY <1>2, <1>5, <2>1, <2>2, <2>4, <3>1 DEF Editing, Unlocked
    <2> QED
        BY <1>7, <2>3, <2>4 DEF SelectMember, Holds, Answered, SelectedForUpdate
<1>8. CASE ~SelectMember(r) /\ ~EditMember(r) /\ ~Refused(r)
    BY <1>6, <1>8, OtherSteps
<1>9. CASE EditMember(r) \/ Refused(r)
    <2>1. /\ req'[r] = Idle
          /\ rowLock' = [u \in Users |-> IF rowLock[u] = r THEN NoRequest ELSE rowLock[u]]
        BY <1>1, <1>9 DEF EditMember, Refused, Answered, Holds, Released
    <2> QED
        BY <1>2, <1>4, <1>5, <2>1, NullsAreNone
<1> QED
    BY <1>7, <1>8, <1>9

-----------------------------------------------------------------------------
(* What a step does to the rows and the sessions.                           *)

\* The statements that write a row: each keeps what the others wrote.
RowWritten(r, u) ==
    \/ UNCHANGED row
    \/ /\ InsertUser(r) /\ row[u].st = "unissued" /\ Storable(req[r].email, NoUser)
       /\ row' = [row EXCEPT ![u] = NewRow(req[r].email)]
    \/ /\ UpdateOwnRow(r) /\ u = req[r].user /\ Exists(u) /\ Unlocked(u)
       /\ Storable(req[r].email, u)
       /\ row' = [row EXCEPT ![u].email = req[r].email]
    \/ /\ EditMember(r) /\ u = req[r].user
       /\ row' = [row EXCEPT ![u].email = req[r].email]
    \/ /\ WritePassword(r) /\ u = req[r].user /\ Exists(u) /\ Unlocked(u)
       /\ row' = [row EXCEPT ![u].password = req[r].password]
    \/ /\ DeleteUser(r) /\ u = req[r].user /\ Unlocked(u)
       /\ row' = [row EXCEPT ![u] = NoRow("gone")]

\* One row at most is written in a step.
LEMMA StepWrites ==
    ASSUME Inv, NEW r \in Requests, Step(r)
    PROVE  UNCHANGED row \/ \E u \in Users : RowWritten(r, u)
<1>1. Sound(req[r])
    BY DEF Inv, Reqs
<1>2. CASE Arrival(r)
    BY <1>2, Arrived
<1>3. CASE \/ CreateSession(r) \/ FetchUser(r) \/ SelectMember(r) \/ CountEmail(r)
           \/ KillSessions(r) \/ Reissue(r) \/ Refused(r)
    BY <1>3 DEF CreateSession, FetchUser, SelectMember, CountEmail, KillSessions, Reissue, Refused
<1>4. CASE InsertUser(r)
    BY <1>4 DEF InsertUser, RowWritten
<1>5. CASE UpdateOwnRow(r)
    <2>1. req[r].user \in Users
        BY <1>1, <1>5 DEF UpdateOwnRow, At, Sound
    <2> QED
        BY <1>5, <2>1 DEF UpdateOwnRow, RowWritten, Written
<1>6. CASE EditMember(r)
    <2>1. req[r].user \in Users
        BY <1>1, <1>6 DEF EditMember, At, Sound
    <2> QED
        BY <1>6, <2>1 DEF EditMember, RowWritten, Written
<1>7. CASE WritePassword(r)
    <2>1. req[r].user \in Users
        BY <1>1, <1>7 DEF WritePassword, At, Sound
    <2> QED
        BY <1>7, <2>1 DEF WritePassword, RowWritten
<1>8. CASE DeleteUser(r)
    <2>1. req[r].user \in Users
        BY <1>1, <1>8 DEF DeleteUser, At, Sound
    <2> QED
        BY <1>8, <2>1 DEF DeleteUser, RowWritten
<1> QED
    BY <1>2, <1>3, <1>4, <1>5, <1>6, <1>7, <1>8 DEF Step, Handler

\* Rows stay rows; an account is gone only by its erasure.
LEMMA StepRows ==
    ASSUME Inv, NEW r \in Requests, Step(r)
    PROVE  /\ row' \in [Users -> Row]
           /\ \A u \in Users : Exists(u) => Exists(u)' \/ (DeleteUser(r) /\ u = req[r].user)
<1>1. row \in [Users -> Row] /\ req[r] \in Request /\ Sound(req[r])
    BY DEF Inv, Typed, Reqs
<1>2. CASE UNCHANGED row
    BY <1>1, <1>2 DEF Exists
<1>3. ASSUME NEW u \in Users, RowWritten(r, u), row' # row
      PROVE  /\ row' \in [Users -> Row]
             /\ \A v \in Users : Exists(v) => Exists(v)' \/ (DeleteUser(r) /\ v = req[r].user)
    <2>1. CASE InsertUser(r) /\ row[u].st = "unissued" /\ row' = [row EXCEPT ![u] = NewRow(req[r].email)]
        <3>1. req[r].email \in Emails
            BY <1>1, <2>1 DEF InsertUser, At, Sound
        <3>2. NewRow(req[r].email) \in Row /\ NewRow(req[r].email).st = "stored"
            BY <3>1 DEF NewRow, Row
        <3> QED
            BY <1>1, <2>1, <3>2 DEF Exists
    <2>2. CASE row' = [row EXCEPT ![u].email = req[r].email]
        <3>1. [row[u] EXCEPT !.email = req[r].email] \in Row
            BY <1>1 DEF Row, Request
        <3>2. [row[u] EXCEPT !.email = req[r].email].st = row[u].st
            BY <1>1 DEF Row
        <3> QED
            BY <1>1, <2>2, <3>1, <3>2 DEF Exists
    <2>3. CASE row' = [row EXCEPT ![u].password = req[r].password]
        <3>1. [row[u] EXCEPT !.password = req[r].password] \in Row
            BY <1>1 DEF Row, Request
        <3>2. [row[u] EXCEPT !.password = req[r].password].st = row[u].st
            BY <1>1 DEF Row
        <3> QED
            BY <1>1, <2>3, <3>1, <3>2 DEF Exists
    <2>4. CASE DeleteUser(r) /\ u = req[r].user /\ row' = [row EXCEPT ![u] = NoRow("gone")]
        <3>1. NoRow("gone") \in Row
            BY DEF NoRow, Row
        <3> QED
            BY <1>1, <2>4, <3>1 DEF Exists
    <2> QED
        BY <1>3, <2>1, <2>2, <2>3, <2>4 DEF RowWritten
<1> QED
    BY <1>2, <1>3, StepWrites

Session == [st : {"unissued", "stored", "dead"}, owner : Users \cup {NoUser}]

\* The DELETE of the sessions of u leaves no stored one.
LEMMA SignedOutSound ==
    ASSUME sessions \in [SessionIds -> Session], NEW u \in Users
    PROVE  /\ SignedOut(u) \in [SessionIds -> Session]
           /\ \A s \in SessionIds :
                /\ SignedOut(u)[s].owner = sessions[s].owner
                /\ SignedOut(u)[s].st = IF sessions[s].st = "stored" /\ sessions[s].owner = u
                                          THEN "dead" ELSE sessions[s].st
<1> DEFINE gone(s) == [sessions[s] EXCEPT !.st = "dead"]
<1>1. \A s \in SessionIds : gone(s) \in Session /\ gone(s).owner = sessions[s].owner /\ gone(s).st = "dead"
    BY DEF Session
<1>2. SignedOut(u) = [s \in SessionIds |->
                        IF sessions[s].st = "stored" /\ sessions[s].owner = u THEN gone(s) ELSE sessions[s]]
    BY DEF SignedOut, SessionsOf
<1> HIDE DEF gone
<1> QED
    BY <1>1, <1>2

\* The ways a step of a request changes sessions.
SessionsWritten(r) ==
    LET u == req[r].user IN
    \/ UNCHANGED sessions
    \/ /\ CreateSession(r) \/ Reissue(r)
       /\ u \in Users /\ Exists(u) /\ Unlocked(u)
       /\ \E s \in SessionIds : Mintable(s) /\ sessions' = SignedIn(u, s)
    \/ /\ KillSessions(r) \/ DeleteUser(r)
       /\ u \in Users
       /\ sessions' = SignedOut(u)

\* A request signs its own member in or out, or nobody.
LEMMA StepSessions ==
    ASSUME Inv, NEW r \in Requests, Step(r)
    PROVE  SessionsWritten(r)
<1>1. Sound(req[r])
    BY DEF Inv, Reqs
<1>2. CASE Arrival(r)
    BY <1>2, Arrived DEF SessionsWritten
<1>3. CASE \/ InsertUser(r) \/ FetchUser(r) \/ SelectMember(r) \/ CountEmail(r)
           \/ UpdateOwnRow(r) \/ EditMember(r) \/ WritePassword(r) \/ Refused(r)
    BY <1>3 DEF InsertUser, FetchUser, SelectMember, CountEmail, UpdateOwnRow, EditMember,
        WritePassword, Refused, SessionsWritten
<1>4. CASE CreateSession(r)
    <2>1. req[r].user \in Users
        BY <1>1, <1>4 DEF CreateSession, At, Sound
    <2> QED
        BY <1>4, <2>1 DEF CreateSession, SessionsWritten
<1>5. CASE Reissue(r)
    <2>1. req[r].user \in Users
        BY <1>1, <1>5 DEF Reissue, At, Sound
    <2> QED
        BY <1>5, <2>1 DEF Reissue, SessionsWritten
<1>6. CASE KillSessions(r)
    <2>1. req[r].user \in Users
        BY <1>1, <1>6 DEF KillSessions, At, Sound
    <2> QED
        BY <1>6, <2>1 DEF KillSessions, SessionsWritten
<1>7. CASE DeleteUser(r)
    <2>1. req[r].user \in Users
        BY <1>1, <1>7 DEF DeleteUser, At, Sound
    <2> QED
        BY <1>7, <2>1 DEF DeleteUser, SessionsWritten
<1> QED
    BY <1>2, <1>3, <1>4, <1>5, <1>6, <1>7 DEF Step, Handler

\* A session that is stored has an owner who is; the cascade sees to it.
LEMMA StepOwners ==
    ASSUME Inv, NEW r \in Requests, Step(r)
    PROVE  sessions' \in [SessionIds -> Session] /\ OwnersExist'
<1>1. sessions \in [SessionIds -> Session] /\ OwnersExist
    BY DEF Inv, Typed, Session
<1>2. \A u \in Users : Exists(u) => Exists(u)' \/ (DeleteUser(r) /\ u = req[r].user)
    BY StepRows
<1>3. CASE DeleteUser(r)
    <2>1. req[r].user \in Users
        BY <1>3 DEF DeleteUser, At, Sound, Inv, Reqs
    <2>2. sessions' = SignedOut(req[r].user)
        BY <1>3 DEF DeleteUser
    <2> QED
        BY <1>1, <1>2, <2>1, <2>2, SignedOutSound DEF OwnersExist, Exists
<1>4. CASE ~DeleteUser(r) /\ UNCHANGED sessions
    BY <1>1, <1>2, <1>4 DEF OwnersExist, Exists
<1>5. CASE ~DeleteUser(r) /\ req[r].user \in Users /\ sessions' = SignedOut(req[r].user)
    BY <1>1, <1>2, <1>5, SignedOutSound DEF OwnersExist, Exists
<1>6. ASSUME ~DeleteUser(r), req[r].user \in Users, Exists(req[r].user), NEW s \in SessionIds,
             sessions' = SignedIn(req[r].user, s)
      PROVE  sessions' \in [SessionIds -> Session] /\ OwnersExist'
    <2>1. [st |-> "stored", owner |-> req[r].user] \in Session
        BY <1>6 DEF Session
    <2>2. sessions' = [sessions EXCEPT ![s] = [st |-> "stored", owner |-> req[r].user]]
        BY <1>6 DEF SignedIn
    <2>3. sessions' \in [SessionIds -> Session]
        BY <1>1, <2>1, <2>2
    <2>4. ASSUME NEW t \in SessionIds, sessions'[t].st = "stored"
          PROVE  sessions'[t].owner \in Users /\ row'[sessions'[t].owner].st = "stored"
        <3>1. CASE t = s
            BY <1>1, <1>2, <1>6, <2>2, <3>1 DEF Exists
        <3>2. CASE t # s
            BY <1>1, <1>2, <1>6, <2>2, <2>4, <3>2 DEF Exists, OwnersExist
        <3> QED
            BY <3>1, <3>2
    <2> QED
        BY <2>3, <2>4 DEF OwnersExist, Exists
<1> QED
    BY <1>3, <1>4, <1>5, <1>6, StepSessions DEF SessionsWritten

-----------------------------------------------------------------------------
(* The invariant is inductive.                                              *)

\* A step of a request keeps the passwords and the history well formed.
LEMMA StepHistory ==
    ASSUME Inv, NEW r \in Requests, Step(r)
    PROVE  /\ unused' \subseteq Passwords
           /\ retired' \in [Users -> SUBSET (Passwords \cup {FirstPassword})]
           /\ promised' \subseteq SessionIds
<1>1. /\ unused \subseteq Passwords /\ promised \subseteq SessionIds
      /\ retired \in [Users -> SUBSET (Passwords \cup {FirstPassword})]
      /\ req[r] \in Request /\ Sound(req[r]) /\ row \in [Users -> Row]
    BY DEF Inv, Typed, Reqs
<1>2. CASE Arrival(r)
    BY <1>1, <1>2, Arrived
<1>3. CASE \/ InsertUser(r) \/ CreateSession(r) \/ FetchUser(r) \/ SelectMember(r)
           \/ CountEmail(r) \/ UpdateOwnRow(r) \/ EditMember(r) \/ KillSessions(r)
           \/ DeleteUser(r) \/ Refused(r)
    BY <1>1, <1>3 DEF InsertUser, CreateSession, FetchUser, SelectMember, CountEmail,
        UpdateOwnRow, EditMember, KillSessions, DeleteUser, Refused, history
<1>4. CASE WritePassword(r)
    <2> DEFINE u == req[r].user
    <2>1. u \in Users
        BY <1>1, <1>4 DEF WritePassword, At, Sound
    <2>2. row[u].password \in Passwords \cup {FirstPassword}
        BY <1>1, <2>1 DEF Row
    <2>3. retired' = retired \/ retired' = [retired EXCEPT ![u] = @ \cup {row[u].password}]
        BY <1>4 DEF WritePassword
    <2>4. unused' = unused /\ promised' = promised
        BY <1>4 DEF WritePassword
    <2> HIDE DEF u
    <2> QED
        BY <1>1, <2>1, <2>2, <2>3, <2>4
<1>5. CASE Reissue(r)
    <2>1. req[r].before \subseteq SessionIds
        BY <1>1 DEF Request
    <2> QED
        BY <1>1, <1>5, <2>1 DEF Reissue
<1> QED
    BY <1>2, <1>3, <1>4, <1>5 DEF Step, Handler

\* A step of a request preserves the invariant.
LEMMA InvStep ==
    ASSUME Inv, NEW r \in Requests, Step(r)
    PROVE  Inv'
<1>1. req' \in [Requests -> Request] /\ Reqs'
    <2>1. PICK q \in Request : Sound(q) /\ req' = [req EXCEPT ![r] = q]
        BY StepReq
    <2> QED
        BY <2>1 DEF Inv, Typed, Reqs, Sound
<1>2. Typed'
    BY <1>1, StepRows, StepOwners, StepLocks, StepHistory DEF Typed, Session, Row, Request
<1> QED
    BY <1>1, <1>2, StepOwners, StepLocks DEF Inv

\* So does the end of a session.
LEMMA InvSessionEnds ==
    ASSUME Inv, NEW s \in SessionIds, SessionEnds(s)
    PROVE  Inv'
<1>1. sessions \in [SessionIds -> Session]
    BY DEF Inv, Typed, Session
<1>2. [sessions[s] EXCEPT !.st = "dead"] \in Session
    BY <1>1 DEF Session
<1>3. /\ sessions' = [sessions EXCEPT ![s] = [sessions[s] EXCEPT !.st = "dead"]]
      /\ [sessions[s] EXCEPT !.st = "dead"].st = "dead"
    BY <1>1 DEF SessionEnds, Session
<1>4. UNCHANGED <<row, rowLock, req, unused, history>>
    BY DEF SessionEnds
<1>5. sessions' \in [SessionIds -> Session]
    BY <1>1, <1>2, <1>3
<1>6. \A t \in SessionIds : sessions'[t].st = "stored" => sessions'[t] = sessions[t]
    BY <1>1, <1>3
<1>7. OwnersExist'
    BY <1>4, <1>5, <1>6 DEF Inv, OwnersExist, Exists
<1>8. Typed'
    BY <1>4, <1>5 DEF Inv, Typed, Session, Row, Request, history
<1> QED
    BY <1>4, <1>7, <1>8 DEF Inv, Locks, Reqs, Editing, Sound

\* The steps of Next.
LEMMA Steps ==
    ASSUME [Next]_vars
    PROVE  \/ UNCHANGED vars
           \/ \E r \in Requests : Step(r)
           \/ \E s \in SessionIds : SessionEnds(s)
BY DEF Next, Step, Quiescent

\* Every step preserves the invariant.
LEMMA InvNext == Inv /\ [Next]_vars => Inv'
<1> SUFFICES ASSUME Inv, [Next]_vars PROVE Inv'
    OBVIOUS
<1>1. CASE UNCHANGED vars
    BY <1>1 DEF vars, history, Inv, Typed, OwnersExist, Exists, Locks, Reqs, Editing, Sound,
        Row, Request
<1> QED
    BY <1>1, InvStep, InvSessionEnds, Steps

\* Every variable always has its type, every stored session an owner, and a row
\* is locked by exactly the edit that has selected it (internal/admin/member.go):
\* no path out of a handler leaves the lock behind.
THEOREM AccountsTyped == Spec => []TypeOK
<1>1. Init => Inv
    BY InvInit
<1>2. Inv /\ [Next]_vars => Inv'
    BY InvNext
<1>3. Inv => TypeOK
    BY InvImpliesTypeOK
<1> QED
    BY <1>1, <1>2, <1>3, PTL DEF Spec

\* The invariant as such.
LEMMA Invariance == Spec => []Inv
<1>1. Init => Inv
    BY InvInit
<1>2. Inv /\ [Next]_vars => Inv'
    BY InvNext
<1> QED
    BY <1>1, <1>2, PTL DEF Spec

-----------------------------------------------------------------------------
(* Addresses.                                                               *)

\* What an edit is going to write back is what is there.
EditsKnown ==
    \A r \in Requests, u \in Users :
        rowLock[u] = r => Exists(u) /\ row[u].email = req[r].email

\* Every edit that is about to write has locked its row.
LEMMA EditsKnownSuffices == Inv /\ EditsKnown => EditKeepsAddress
<1> SUFFICES ASSUME Inv, EditsKnown, NEW r \in Requests, Kind(r, "admin"), At(r, "update")
             PROVE  Exists(req[r].user) /\ row[req[r].user].email = req[r].email
    BY DEF EditKeepsAddress
<1>1. req[r].user \in Users
    BY DEF Inv, Reqs, Sound, At
<1>2. rowLock[req[r].user] = r
    BY <1>1 DEF Inv, Locks, Editing, Kind, At
<1> QED
    BY <1>1, <1>2 DEF EditsKnown

\* A row that is locked is written by nobody but the holder, who lets go of it.
LEMMA EditsKnownStep ==
    ASSUME Inv, EditsKnown, NEW r \in Requests, Step(r)
    PROVE  EditsKnown'
<1> SUFFICES ASSUME NEW o \in Requests, NEW u \in Users, rowLock'[u] = o
             PROVE  row'[u].st = "stored" /\ row'[u].email = req'[o].email
    BY DEF EditsKnown, Exists
<1>1. PICK q \in Request : Sound(q) /\ req' = [req EXCEPT ![r] = q]
    BY StepReq
<1>2. req \in [Requests -> Request] /\ row \in [Users -> Row] /\ Locks
    BY DEF Inv, Typed
<1>3. Editing(req'[o], u)
    BY StepLocks DEF Locks, Editing
<1>4. CASE o # r
    <2>1. req'[o] = req[o] /\ Editing(req[o], u)
        BY <1>1, <1>2, <1>3, <1>4
    <2>2. rowLock[u] = o /\ row[u].st = "stored" /\ row[u].email = req[o].email
        BY <1>2, <2>1 DEF Locks, EditsKnown, Exists
    <2>3. ASSUME NEW v \in Users, RowWritten(r, v)
          PROVE  row'[u] = row[u]
        <3>1. ~Unlocked(u) /\ row[u].st # "unissued"
            BY <2>2, NullsAreNone DEF Unlocked
        <3>2. ASSUME EditMember(r), v = req[r].user
              PROVE  v # u
            <4>1. Editing(req[r], v)
                BY <3>2 DEF EditMember, At, Kind, Editing
            <4>2. rowLock[v] = r
                BY <1>2, <4>1 DEF Locks
            <4> QED
                BY <4>2, <2>2, <1>4
        <3>3. row' = row \/ v # u
            BY <2>3, <3>1, <3>2 DEF RowWritten
        <3> QED
            BY <1>2, <2>3, <3>3 DEF RowWritten
    <2> QED
        BY <2>1, <2>2, <2>3, StepWrites
<1>5. CASE o = r
    <2>1. SelectMember(r)
        <3>1. CASE EditMember(r) \/ Refused(r)
            <4>1. req'[r] = Idle
                BY <1>2, <3>1 DEF EditMember, Refused, Answered, Holds
            <4> QED
                BY <1>3, <1>5, <4>1 DEF Editing, Idle
        <3> QED
            BY <1>3, <1>5, <3>1, OtherSteps
    <2>2. req[r].user \in Users /\ req[r].kind = "admin"
        BY <2>1 DEF SelectMember, At, Inv, Reqs, Sound
    <2>3. /\ Exists(req[r].user) /\ UNCHANGED row
          /\ req' = [req EXCEPT ![r] = Merged(r, req[r].user)]
        <3>1. req' # [req EXCEPT ![r] = Idle]
            BY <1>2, <1>3, <1>5 DEF Editing, Idle
        <3> QED
            BY <2>1, <3>1 DEF SelectMember, Holds, Answered
    <2>4. u = req[r].user /\ req'[r].email = row[u].email
        BY <1>2, <1>3, <1>5, <2>2, <2>3, MergedSound DEF Editing
    <2> QED
        BY <1>5, <2>3, <2>4 DEF Exists
<1> QED
    BY <1>4, <1>5

\* Every step keeps it.
LEMMA EditsKnownNext == Inv /\ EditsKnown /\ [Next]_vars => EditsKnown'
<1> SUFFICES ASSUME Inv, EditsKnown, [Next]_vars PROVE EditsKnown'
    OBVIOUS
<1>1. CASE UNCHANGED vars
    BY <1>1 DEF vars, EditsKnown, Exists
<1>2. ASSUME NEW s \in SessionIds, SessionEnds(s) PROVE EditsKnown'
    BY <1>2 DEF SessionEnds, EditsKnown, Exists
<1> QED
    BY <1>1, <1>2, EditsKnownStep, Steps

\* No row is locked when the service starts.
LEMMA EditsKnownInit == Init => EditsKnown
BY NullsAreNone DEF Init, EditsKnown

\* An admin's edit never moves the address: what it writes back with the other
\* columns (ApplyProfileUpdate) is what is stored, for any number of requests.
THEOREM EditsKeepAddresses == Spec => []EditKeepsAddress
<1>1. Init => EditsKnown
    BY EditsKnownInit
<1>2. Inv /\ EditsKnown /\ [Next]_vars => EditsKnown'
    BY EditsKnownNext
<1>3. Inv /\ EditsKnown => EditKeepsAddress
    BY EditsKnownSuffices
<1> QED
    BY <1>1, <1>2, <1>3, Invariance, PTL DEF Spec

\* A step stores an address only if no other account has it.
LEMMA EmailsUniqueStep ==
    ASSUME Inv, EditsKnown, EmailsUnique, NEW r \in Requests, Step(r)
    PROVE  EmailsUnique'
<1> SUFFICES ASSUME NEW u \in Users, NEW v \in Users, u # v,
                    row'[u].st = "stored", row'[v].st = "stored"
             PROVE  row'[u].email # row'[v].email
    BY DEF EmailsUnique, Exists
<1>1. row \in [Users -> Row] /\ NoUser \notin Users
    BY NullsAreNone DEF Inv, Typed
<1>2. \A x, y \in Users : x # y /\ row[x].st = "stored" /\ row[y].st = "stored" =>
         row[x].email # row[y].email
    BY DEF EmailsUnique, Exists
<1>3. ASSUME NEW w \in Users, RowWritten(r, w), row' # row
      PROVE  row'[u].email # row'[v].email
    <2>1. CASE InsertUser(r) /\ Storable(req[r].email, NoUser) /\ row' = [row EXCEPT ![w] = NewRow(req[r].email)]
        <3>1. \A x \in Users \ {w} : row'[x] = row[x]
            BY <1>1, <2>1
        <3>2. row'[w].email = req[r].email
            BY <1>1, <2>1 DEF NewRow
        <3>3. \A x \in Users : row[x].st = "stored" => row[x].email # req[r].email
            BY <1>1, <2>1 DEF Storable, FreeAddress, Exists
        <3> QED
            BY <1>2, <3>1, <3>2, <3>3
    <2>2. CASE Exists(w) /\ Storable(req[r].email, w) /\ row' = [row EXCEPT ![w].email = req[r].email]
        <3>1. \A x \in Users \ {w} : row'[x] = row[x]
            BY <1>1, <2>2
        <3>2. row'[w].email = req[r].email
            BY <1>1, <2>2 DEF Row
        <3>3. \A x \in Users \ {w} : row[x].st = "stored" => row[x].email # req[r].email
            BY <1>1, <2>2 DEF Storable, FreeAddress, Exists
        <3> QED
            BY <1>2, <3>1, <3>2, <3>3
    <2>3. CASE EditMember(r) /\ w = req[r].user /\ row' = [row EXCEPT ![w].email = req[r].email]
        <3>1. rowLock[w] = r
            BY <2>3 DEF EditMember, At, Kind, Editing, Inv, Locks
        <3>2. row[w].email = req[r].email /\ row[w].st = "stored"
            BY <3>1 DEF EditsKnown, Exists
        <3>3. \A x \in Users : row'[x].email = row[x].email /\ row'[x].st = row[x].st
            BY <1>1, <2>3, <3>2 DEF Row
        <3> QED
            BY <1>2, <3>3
    <2>4. CASE row' = [row EXCEPT ![w].password = req[r].password]
        <3>1. \A x \in Users : row'[x].email = row[x].email /\ row'[x].st = row[x].st
            BY <1>1, <2>4 DEF Row
        <3> QED
            BY <1>2, <3>1
    <2>5. CASE row' = [row EXCEPT ![w] = NoRow("gone")]
        <3>1. \A x \in Users \ {w} : row'[x] = row[x]
            BY <1>1, <2>5
        <3>2. row'[w].st = "gone"
            BY <1>1, <2>5 DEF NoRow
        <3> QED
            BY <1>2, <3>1, <3>2
    <2> QED
        BY <1>3, <2>1, <2>2, <2>3, <2>4, <2>5 DEF RowWritten
<1>4. CASE row' = row
    BY <1>2, <1>4
<1> QED
    BY <1>3, <1>4, StepWrites

\* However many registrations, edits and changes of address interleave, an
\* address is the login name of one account: by the unique index (migration
\* 000010), and because an admin's edit writes back the address that is there.
THEOREM AddressesUnique == Spec => []EmailsUnique
<1>1. Init => EditsKnown /\ EmailsUnique
    BY EditsKnownInit DEF Init, EmailsUnique
<1>2. Inv /\ EditsKnown /\ EmailsUnique /\ [Next]_vars => EmailsUnique'
    <2> SUFFICES ASSUME Inv, EditsKnown, EmailsUnique, [Next]_vars PROVE EmailsUnique'
        OBVIOUS
    <2>1. CASE UNCHANGED vars
        BY <2>1 DEF vars, EmailsUnique, Exists
    <2>2. ASSUME NEW s \in SessionIds, SessionEnds(s) PROVE EmailsUnique'
        BY <2>2 DEF SessionEnds, EmailsUnique, Exists
    <2> QED
        BY <2>1, <2>2, EmailsUniqueStep, Steps
<1>3. Inv /\ EditsKnown /\ [Next]_vars => EditsKnown'
    BY EditsKnownNext
<1> QED
    BY <1>1, <1>2, <1>3, Invariance, PTL DEF Spec

-----------------------------------------------------------------------------
(* Passwords.                                                               *)

\* The request holds a password it has not written yet.
Choosing(q) == q.kind = "password" /\ q.pc \in {"fetch", "write"}

\* A password is chosen once: what nobody has chosen, or somebody is about to
\* write, was never stored.
PasswordsKnown ==
    /\ \A u \in Users : row[u].st = "unissued" => retired[u] = {}
    /\ \A p \in unused, u \in Users : p \notin retired[u] /\ p # row[u].password
    /\ \A r \in Requests : Choosing(req[r]) =>
         /\ req[r].password \notin unused
         /\ \A u \in Users : req[r].password \notin retired[u] /\ req[r].password # row[u].password
    /\ \A r, o \in Requests :
         r # o /\ Choosing(req[r]) /\ Choosing(req[o]) => req[r].password # req[o].password
    /\ PasswordStaysReplaced

\* It holds when the service starts.
LEMMA PasswordsInit == Init => PasswordsKnown
<1> SUFFICES ASSUME Init PROVE PasswordsKnown
    OBVIOUS
<1>1. \A u \in Users : row[u].password = FirstPassword
    BY DEF Init, NoRow, NewRow
<1>2. \A r \in Requests : ~Choosing(req[r])
    BY DEF Init, Choosing, Idle
<1> QED
    BY <1>1, <1>2, NullsAreNone DEF Init, PasswordsKnown, PasswordStaysReplaced

\* A request has the password it holds from its arrival.
LEMMA StepChoosing ==
    ASSUME Inv, NEW r \in Requests, Step(r)
    PROVE  /\ Arrival(r) \/ unused' = unused
           /\ Choosing(req'[r]) =>
                IF Arrival(r)
                  THEN req'[r].password \in unused /\ unused' = unused \ {req'[r].password}
                  ELSE FetchUser(r) /\ Choosing(req[r]) /\ req'[r].password = req[r].password
           /\ Arrival(r) => unused' \subseteq unused
<1> DEFINE q == req[r]
<1>1. q \in Request /\ Sound(q) /\ req \in [Requests -> Request]
    BY DEF Inv, Typed, Reqs
<1>2. CASE Arrival(r)
    BY <1>1, <1>2, Arrived DEF Choosing
<1>3. ASSUME ~Arrival(r) PROVE unused' = unused
    BY <1>3 DEF Step, Handler, Refused, InsertUser, CreateSession, FetchUser, SelectMember,
        CountEmail, UpdateOwnRow, EditMember, WritePassword, KillSessions, Reissue, DeleteUser
<1>4. ASSUME ~Arrival(r), Choosing(req'[r])
      PROVE  FetchUser(r) /\ Choosing(q) /\ req'[r].password = q.password
    <2>1. ~Choosing(Idle)
        BY DEF Choosing, Idle
    <2>2. CASE FetchUser(r)
        <3>1. q.user \in Users /\ q.pc = "fetch" /\ q.kind \in {"profile", "password"}
            BY <1>1, <2>2 DEF FetchUser, At, Sound
        <3>2. CASE req' = [req EXCEPT ![r] = Idle]
            BY <1>1, <1>4, <2>1, <3>2
        <3>3. CASE Exists(q.user) /\ q.kind = "profile" /\ req' = [req EXCEPT ![r] = Merged(r, q.user)]
            BY <1>1, <1>4, <3>1, <3>3, MergedSound DEF Choosing
        <3>4. CASE q.kind = "password" /\ req' = [req EXCEPT ![r] = [q EXCEPT !.pc = "write"]]
            <4>1. [q EXCEPT !.pc = "write"].password = q.password
                BY <1>1 DEF Request
            <4> QED
                BY <1>1, <2>2, <3>1, <3>4, <4>1 DEF Choosing
        <3> QED
            BY <2>2, <3>2, <3>3, <3>4 DEF FetchUser, Holds, Goto, Answered, Kind
    <2>3. CASE CountEmail(r) \/ SelectMember(r) \/ UpdateOwnRow(r)
        <3>1. q.kind # "password"
            BY <1>1, <2>3 DEF CountEmail, SelectMember, UpdateOwnRow, At, Sound
        <3>2. CASE CountEmail(r)
            BY <1>1, <1>4, <2>1, <3>1, <3>2 DEF CountEmail, Goto, Holds, Answered, Choosing, Request
        <3>3. CASE SelectMember(r)
            <4>1. q.user \in Users /\ q.kind = "admin"
                BY <1>1, <3>3 DEF SelectMember, At, Sound
            <4>2. CASE req' = [req EXCEPT ![r] = Idle]
                BY <1>1, <1>4, <2>1, <4>2
            <4>3. CASE Exists(q.user) /\ req' = [req EXCEPT ![r] = Merged(r, q.user)]
                BY <1>1, <1>4, <4>1, <4>3, MergedSound DEF Choosing
            <4> QED
                BY <3>3, <4>2, <4>3 DEF SelectMember, Holds, Answered
        <3>4. CASE UpdateOwnRow(r)
            <4> DEFINE p == [q EXCEPT !.pc = "kill", !.before = SessionsOf(q.user)]
            <4>1. p.pc = "kill"
                BY <1>1 DEF Request
            <4>2. req' = [req EXCEPT ![r] = p] \/ req' = [req EXCEPT ![r] = Idle]
                <5>1. CASE q.changed
                    BY <3>4, <5>1 DEF UpdateOwnRow, Holds, Answered
                <5>2. CASE ~q.changed
                    BY <3>4, <5>2 DEF UpdateOwnRow, Holds, Answered
                <5> QED
                    BY <5>1, <5>2
            <4> HIDE DEF p
            <4> QED
                BY <1>1, <1>4, <2>1, <4>1, <4>2 DEF Choosing
        <3> QED
            BY <2>3, <3>2, <3>3, <3>4
    <2>4. CASE WritePassword(r)
        <3>1. [q EXCEPT !.pc = "kill", !.before = SessionsOf(q.user)].pc = "kill"
            BY <1>1 DEF Request
        <3>2. req' = [req EXCEPT ![r] = [q EXCEPT !.pc = "kill", !.before = SessionsOf(q.user)]]
            BY <2>4 DEF WritePassword, Holds
        <3> QED
            BY <1>1, <1>4, <3>1, <3>2 DEF Choosing
    <2>5. CASE KillSessions(r)
        BY <1>1, <1>4, <2>1, <2>5 DEF KillSessions, Warned, Goto, Holds, Answered, Choosing, Request
    <2>6. CASE \/ InsertUser(r) \/ CreateSession(r) \/ EditMember(r) \/ Reissue(r)
               \/ DeleteUser(r) \/ Refused(r)
        BY <1>1, <1>4, <2>1, <2>6 DEF InsertUser, CreateSession, EditMember, Reissue, DeleteUser,
            Refused, Holds, Answered
    <2> QED
        BY <1>4, <2>2, <2>3, <2>4, <2>5, <2>6 DEF Step, Handler
<1> QED
    BY <1>2, <1>3, <1>4

\* What a step does to the passwords of the rows.
LEMMA StepPasswords ==
    ASSUME Inv, PasswordsKnown, NEW r \in Requests, Step(r), ~WritePassword(r)
    PROVE  /\ retired' = retired
           /\ \A u \in Users :
                /\ row'[u].password \in {row[u].password, FirstPassword}
                /\ row'[u].st = "unissued" => row[u].st = "unissued"
                /\ row'[u].st = "stored" => row'[u].password \notin retired[u]
<1>1. row \in [Users -> Row]
    BY DEF Inv, Typed
<1>2. retired' = retired
    <2>1. CASE Arrival(r)
        BY <2>1, Arrived
    <2> QED
        BY <2>1 DEF Step, Handler, Refused, InsertUser, CreateSession, FetchUser, SelectMember,
            CountEmail, UpdateOwnRow, EditMember, KillSessions, Reissue, DeleteUser, history
<1>3. \A u \in Users : row[u].st = "stored" => row[u].password \notin retired[u]
    BY DEF PasswordsKnown, PasswordStaysReplaced, Exists
<1>4. ASSUME NEW w \in Users, RowWritten(r, w), row' # row, NEW u \in Users
      PROVE  /\ row'[u].password \in {row[u].password, FirstPassword}
             /\ row'[u].st = "unissued" => row[u].st = "unissued"
             /\ row'[u].st = "stored" => row'[u].password \notin retired[u]
    <2>1. CASE u # w
        BY <1>1, <1>3, <1>4, <2>1 DEF RowWritten
    <2>2. CASE u = w /\ row[w].st = "unissued" /\ row' = [row EXCEPT ![w] = NewRow(req[r].email)]
        BY <1>1, <2>2 DEF NewRow, PasswordsKnown
    <2>3. CASE u = w /\ row' = [row EXCEPT ![w].email = req[r].email]
        <3>1. row'[w].password = row[w].password /\ row'[w].st = row[w].st
            BY <1>1, <2>3 DEF Row
        <3> QED
            BY <1>3, <2>3, <3>1
    <2>4. CASE u = w /\ row' = [row EXCEPT ![w] = NoRow("gone")]
        BY <1>1, <2>4 DEF NoRow
    <2> QED
        BY <1>4, <2>1, <2>2, <2>3, <2>4 DEF RowWritten
<1> QED
    BY <1>2, <1>3, <1>4, StepWrites

\* Every step of a request keeps passwords apart.
LEMMA PasswordsStep ==
    ASSUME Inv, PasswordsKnown, NEW r \in Requests, Step(r)
    PROVE  PasswordsKnown'
<1> DEFINE q == req[r]
<1>1. /\ q \in Request /\ Sound(q) /\ row \in [Users -> Row] /\ unused \subseteq Passwords
      /\ retired \in [Users -> SUBSET (Passwords \cup {FirstPassword})]
      /\ FirstPassword \notin Passwords /\ req \in [Requests -> Request]
    BY NullsAreNone DEF Inv, Typed, Reqs
<1>2. \A o \in Requests \ {r} : req'[o] = req[o]
    BY <1>1, StepReq
<1>3. \A o \in Requests : Choosing(req[o]) => req[o].password \in Passwords
    BY DEF Inv, Reqs, Sound, Choosing
<1>4. unused' \subseteq unused
    BY StepChoosing
<1>5. /\ \A o \in Requests : Choosing(req'[o]) =>
           \/ Choosing(req[o]) /\ req'[o].password = req[o].password
           \/ o = r /\ Arrival(r) /\ req'[o].password \in unused
      /\ \A o \in Requests : Choosing(req'[o]) => req'[o].password \notin unused'
    <2>1. ASSUME NEW o \in Requests, Choosing(req'[o]), o # r
          PROVE  Choosing(req[o]) /\ req'[o].password = req[o].password
        BY <1>2, <2>1
    <2> QED
        BY <1>4, <2>1, StepChoosing DEF PasswordsKnown
<1>6. \A o, a \in Requests :
         o # a /\ Choosing(req'[o]) /\ Choosing(req'[a]) => req'[o].password # req'[a].password
    BY <1>5 DEF PasswordsKnown
<1>7. CASE ~WritePassword(r)
    <2>1. /\ retired' = retired
          /\ \A u \in Users :
               /\ row'[u].password \in {row[u].password, FirstPassword}
               /\ row'[u].st = "unissued" => row[u].st = "unissued"
               /\ row'[u].st = "stored" => row'[u].password \notin retired[u]
        BY <1>7, StepPasswords
    <2>2. \A p \in unused, u \in Users : p \notin retired'[u] /\ p # row'[u].password
        BY <1>1, <2>1 DEF PasswordsKnown
    <2>3. \A o \in Requests, u \in Users : Choosing(req'[o]) =>
             req'[o].password \notin retired'[u] /\ req'[o].password # row'[u].password
        <3>1. ASSUME NEW o \in Requests, NEW u \in Users, Choosing(req[o])
              PROVE  req[o].password \notin retired'[u] /\ req[o].password # row'[u].password
            BY <1>1, <1>3, <2>1, <3>1 DEF PasswordsKnown
        <3> QED
            BY <1>5, <2>2, <3>1
    <2>4. \A u \in Users : row'[u].st = "unissued" => retired'[u] = {}
        BY <2>1 DEF PasswordsKnown
    <2> QED
        BY <1>4, <1>5, <1>6, <2>1, <2>2, <2>3, <2>4 DEF PasswordsKnown, PasswordStaysReplaced,
            Exists, Choosing
<1>8. CASE WritePassword(r)
    <2> DEFINE u == q.user
    <2>1. u \in Users /\ Choosing(q)
        BY <1>1, <1>8 DEF WritePassword, At, Sound, Choosing
    <2>2. ~Arrival(r) /\ unused' = unused /\ ~Choosing(req'[r])
        <3>1. ~Arrival(r) /\ ~FetchUser(r)
            <4>1. q.pc = "write"
                BY <1>8 DEF WritePassword, At
            <4>2. ~Arrival(r)
                BY <4>1, Arrived
            <4> QED
                BY <4>1, <4>2 DEF FetchUser, At
        <3> QED
            BY <3>1, StepChoosing
    <2>3. CASE Exists(u)
        <3>1. /\ row' = [row EXCEPT ![u].password = q.password]
              /\ retired' = [retired EXCEPT ![u] = @ \cup {row[u].password}]
            BY <1>8, <2>3 DEF WritePassword
        <3>2. /\ \A x \in Users : row'[x].st = row[x].st
              /\ \A x \in Users \ {u} : row'[x] = row[x] /\ retired'[x] = retired[x]
              /\ row'[u].password = q.password
              /\ retired'[u] = retired[u] \cup {row[u].password}
            BY <1>1, <2>1, <3>1 DEF Row
        <3> HIDE DEF u
        <3>3. \A x \in Users : row'[x].st = "unissued" => retired'[x] = {}
            BY <2>3, <3>2 DEF PasswordsKnown, Exists
        <3>4. \A p \in unused, x \in Users : p \notin retired'[x] /\ p # row'[x].password
            BY <2>1, <3>2 DEF PasswordsKnown
        <3>5. ASSUME NEW o \in Requests, Choosing(req'[o]), NEW x \in Users
              PROVE  req'[o].password \notin retired'[x] /\ req'[o].password # row'[x].password
            <4>1. o # r /\ Choosing(req[o]) /\ req'[o].password = req[o].password
                BY <1>2, <2>2, <3>5
            <4>2. req[o].password # q.password
                BY <2>1, <4>1 DEF PasswordsKnown
            <4> QED
                BY <2>1, <3>2, <4>1, <4>2 DEF PasswordsKnown
        <3>6. ASSUME NEW x \in Users, row'[x].st = "stored"
              PROVE  row'[x].password \notin retired'[x]
            BY <2>1, <3>2, <3>6 DEF PasswordsKnown, PasswordStaysReplaced, Exists
        <3> QED
            BY <1>5, <1>6, <2>2, <3>3, <3>4, <3>5, <3>6 DEF PasswordsKnown,
                PasswordStaysReplaced, Exists, Choosing
    <2>4. CASE ~Exists(u)
        <3>1. row' = row /\ retired' = retired
            BY <1>8, <2>4 DEF WritePassword
        <3> QED
            BY <1>5, <1>6, <2>2, <3>1 DEF PasswordsKnown, PasswordStaysReplaced, Exists, Choosing
    <2> QED
        BY <2>3, <2>4
<1> QED
    BY <1>7, <1>8

\* A replaced password never comes back, for any number of requests: every other
\* writer of the row leaves the column alone (ApplyProfileUpdate's column list).
THEOREM PasswordsStayReplaced == Spec => []PasswordStaysReplaced
<1>1. Init => PasswordsKnown
    BY PasswordsInit
<1>2. Inv /\ PasswordsKnown /\ [Next]_vars => PasswordsKnown'
    <2> SUFFICES ASSUME Inv, PasswordsKnown, [Next]_vars PROVE PasswordsKnown'
        OBVIOUS
    <2>1. CASE UNCHANGED vars
        BY <2>1 DEF vars, history, PasswordsKnown, PasswordStaysReplaced, Exists, Choosing
    <2>2. ASSUME NEW s \in SessionIds, SessionEnds(s) PROVE PasswordsKnown'
        BY <2>2 DEF SessionEnds, history, PasswordsKnown, PasswordStaysReplaced, Exists, Choosing
    <2> QED
        BY <2>1, <2>2, PasswordsStep, Steps
<1>3. PasswordsKnown => PasswordStaysReplaced
    BY DEF PasswordsKnown
<1> QED
    BY <1>1, <1>2, <1>3, Invariance, PTL DEF Spec

-----------------------------------------------------------------------------
(* Containment.                                                             *)

\* The sessions that were there when a request wrote the row: until it has ended
\* them they are its member's or have ended, afterwards they have ended.
ContainedBy(q, S) ==
    \A s \in q.before :
        /\ q.pc = "kill" => S[s].st = "dead" \/ (S[s].st = "stored" /\ S[s].owner = q.user)
        /\ q.pc = "reissue" => S[s].st = "dead"

Contained ==
    /\ \A r \in Requests : ContainedBy(req[r], sessions)
    /\ \A s \in promised : sessions[s].st = "dead"

\* A session that has ended stays so, one that is stored keeps its owner.
LEMMA SessionsAge ==
    ASSUME Inv, [Next]_vars, NEW s \in SessionIds
    PROVE  /\ sessions[s].st = "dead" => sessions'[s].st = "dead"
           /\ sessions[s].st = "stored" =>
                \/ sessions'[s].st = "dead"
                \/ sessions'[s].st = "stored" /\ sessions'[s].owner = sessions[s].owner
<1> DEFINE Ages ==
           /\ sessions[s].st = "dead" => sessions'[s].st = "dead"
           /\ sessions[s].st = "stored" =>
                \/ sessions'[s].st = "dead"
                \/ sessions'[s].st = "stored" /\ sessions'[s].owner = sessions[s].owner
<1>1. sessions \in [SessionIds -> Session]
    BY DEF Inv, Typed, Session
<1>2. CASE UNCHANGED vars
    BY <1>2 DEF vars
<1>3. ASSUME NEW t \in SessionIds, SessionEnds(t) PROVE Ages
    BY <1>1, <1>3 DEF SessionEnds, Session
<1>4. ASSUME NEW r \in Requests, Step(r) PROVE Ages
    <2>1. CASE UNCHANGED sessions
        BY <2>1
    <2>2. ASSUME NEW t \in SessionIds, Mintable(t), sessions' = SignedIn(req[r].user, t)
          PROVE  Ages
        BY <1>1, <2>2 DEF Mintable, SignedIn
    <2>3. CASE req[r].user \in Users /\ sessions' = SignedOut(req[r].user)
        BY <1>1, <2>3, SignedOutSound
    <2> QED
        BY <1>4, <2>1, <2>2, <2>3, StepSessions DEF SessionsWritten
<1> QED
    BY <1>2, <1>3, <1>4, Steps

\* How a request comes to be killing, and reissuing.
LEMMA StepKilling ==
    ASSUME Inv, NEW r \in Requests, Step(r), req'[r].pc \in {"kill", "reissue"}
    PROVE  /\ req'[r].user = req[r].user /\ req[r].user \in Users
           /\ \/ /\ req'[r].pc = "kill"
                 /\ UNCHANGED sessions
                 /\ req'[r].before = SessionsOf(req[r].user)
              \/ /\ req'[r].pc = "reissue"
                 /\ req[r].pc = "kill" /\ req'[r].before = req[r].before
                 /\ sessions' = SignedOut(req[r].user)
<1> DEFINE q == req[r]
           p == [q EXCEPT !.pc = "kill", !.before = SessionsOf(q.user)]
           Goal ==
             /\ req'[r].user = q.user /\ q.user \in Users
             /\ \/ /\ req'[r].pc = "kill"
                   /\ UNCHANGED sessions
                   /\ req'[r].before = SessionsOf(q.user)
                \/ /\ req'[r].pc = "reissue"
                   /\ q.pc = "kill" /\ req'[r].before = q.before
                   /\ sessions' = SignedOut(q.user)
<1>1. q \in Request /\ Sound(q) /\ req \in [Requests -> Request]
    BY DEF Inv, Typed, Reqs
<1>2. Idle.pc = "idle"
    BY DEF Idle
<1>3. p.pc = "kill" /\ p.user = q.user /\ p.before = SessionsOf(q.user)
    BY <1>1 DEF Request
<1>4. CASE Arrival(r)
    BY <1>1, <1>4, Arrived
<1>5. CASE UpdateOwnRow(r)
    <2>1. UNCHANGED sessions /\ q.user \in Users
        BY <1>1, <1>5 DEF UpdateOwnRow, At, Sound
    <2>2. req' = [req EXCEPT ![r] = p] \/ req' = [req EXCEPT ![r] = Idle]
        <3>1. CASE q.changed
            BY <1>5, <3>1 DEF UpdateOwnRow, Holds, Answered
        <3>2. CASE ~q.changed
            BY <1>5, <3>2 DEF UpdateOwnRow, Holds, Answered
        <3> QED
            BY <3>1, <3>2
    <2> HIDE DEF p
    <2> QED
        BY <1>1, <1>2, <1>3, <2>1, <2>2
<1>6. CASE WritePassword(r)
    <2>1. UNCHANGED sessions /\ q.user \in Users /\ req' = [req EXCEPT ![r] = p]
        BY <1>1, <1>6 DEF WritePassword, At, Sound, Holds
    <2> HIDE DEF p
    <2> QED
        BY <1>1, <1>3, <2>1
<1>7. CASE KillSessions(r)
    <2> DEFINE n == [q EXCEPT !.pc = "reissue"]
    <2>1. q.user \in Users /\ q.pc = "kill"
        BY <1>1, <1>7 DEF KillSessions, At, Sound
    <2>2. n.pc = "reissue" /\ n.user = q.user /\ n.before = q.before
        BY <1>1 DEF Request
    <2>3. \/ req' = [req EXCEPT ![r] = n] /\ sessions' = SignedOut(q.user)
          \/ req' = [req EXCEPT ![r] = Idle]
        BY <1>7 DEF KillSessions, Warned, Goto, Holds, Answered
    <2> HIDE DEF n
    <2> QED
        BY <1>1, <1>2, <2>1, <2>2, <2>3
<1>8. CASE FetchUser(r)
    <2>1. q.user \in Users /\ q.kind \in {"profile", "password"}
        BY <1>1, <1>8 DEF FetchUser, At, Sound
    <2>2. Merged(r, q.user).pc \notin {"kill", "reissue"}
        BY <1>1 DEF Merged, Request
    <2>3. [q EXCEPT !.pc = "write"].pc = "write"
        BY <1>1 DEF Request
    <2> QED
        BY <1>1, <1>2, <1>8, <2>2, <2>3 DEF FetchUser, Holds, Goto, Answered
<1>9. CASE SelectMember(r)
    <2>1. Merged(r, q.user).pc \notin {"kill", "reissue"}
        BY <1>1 DEF Merged, Request
    <2> QED
        BY <1>1, <1>2, <1>9, <2>1 DEF SelectMember, Holds, Answered
<1>10. CASE CountEmail(r)
    <2>1. [q EXCEPT !.pc = "update"].pc = "update"
        BY <1>1 DEF Request
    <2> QED
        BY <1>1, <1>2, <1>10, <2>1 DEF CountEmail, Goto, Holds, Answered
<1>11. CASE \/ InsertUser(r) \/ CreateSession(r) \/ EditMember(r) \/ Reissue(r)
            \/ DeleteUser(r) \/ Refused(r)
    BY <1>1, <1>2, <1>11 DEF InsertUser, CreateSession, EditMember, Reissue, DeleteUser, Refused,
        Holds, Answered
<1> QED
    BY <1>4, <1>5, <1>6, <1>7, <1>8, <1>9, <1>10, <1>11 DEF Step, Handler

\* Other requests may end or begin sessions meanwhile.
LEMMA ContainedStays ==
    ASSUME Inv, [Next]_vars, NEW o \in Requests, ContainedBy(req[o], sessions)
    PROVE  ContainedBy(req[o], sessions')
<1>1. req[o].before \subseteq SessionIds
    BY DEF Inv, Typed, Request
<1> QED
    BY <1>1, SessionsAge DEF ContainedBy

\* A request that has just written has its member's sessions before it; one that
\* has just ended them all has ended those.
LEMMA ContainedStep ==
    ASSUME Inv, Contained, NEW r \in Requests, Step(r), [Next]_vars, NEW o \in Requests
    PROVE  ContainedBy(req'[o], sessions')
<1>1. req \in [Requests -> Request] /\ sessions \in [SessionIds -> Session]
    BY DEF Inv, Typed, Session
<1>2. CASE req'[o] = req[o]
    BY <1>2, ContainedStays DEF Contained
<1>3. CASE req'[o] # req[o]
    <2>1. o = r
        BY <1>1, <1>3, StepReq
    <2>2. CASE req'[r].pc \notin {"kill", "reissue"}
        BY <2>1, <2>2 DEF ContainedBy
    <2>3. CASE req'[r].pc \in {"kill", "reissue"} /\ sessions' = sessions
               /\ req'[r].pc = "kill" /\ req'[r].before = SessionsOf(req[r].user)
               /\ req'[r].user = req[r].user
        BY <2>1, <2>3 DEF ContainedBy, SessionsOf
    <2>4. CASE /\ req'[r].pc = "reissue" /\ req[r].pc = "kill" /\ req[r].user \in Users
               /\ req'[r].before = req[r].before /\ sessions' = SignedOut(req[r].user)
        <3>1. ASSUME NEW s \in req[r].before
              PROVE  sessions'[s].st = "dead"
            <4>1. s \in SessionIds
                BY <1>1 DEF Request
            <4>2. sessions[s].st = "dead" \/ (sessions[s].st = "stored" /\ sessions[s].owner = req[r].user)
                BY <2>4 DEF Contained, ContainedBy
            <4> QED
                BY <1>1, <2>4, <4>1, <4>2, SignedOutSound
        <3> QED
            BY <2>1, <2>4, <3>1 DEF ContainedBy
    <2> QED
        BY <2>2, <2>3, <2>4, StepKilling
<1> QED
    BY <1>2, <1>3

\* A request promises what it has ended.
LEMMA PromisedStep ==
    ASSUME Inv, Contained, NEW r \in Requests, Step(r), NEW s \in promised'
    PROVE  s \in SessionIds /\ sessions[s].st = "dead"
<1>1. promised \subseteq SessionIds /\ req[r] \in Request
    BY DEF Inv, Typed
<1>2. CASE Reissue(r)
    <2>1. promised' = promised \cup req[r].before /\ req[r].pc = "reissue"
        BY <1>2 DEF Reissue, At
    <2>2. req[r].before \subseteq SessionIds
        BY <1>1 DEF Request
    <2> QED
        BY <1>1, <2>1, <2>2 DEF Contained, ContainedBy
<1>3. CASE ~Reissue(r)
    <2>1. promised' = promised
        <3>1. CASE Arrival(r)
            BY <3>1, Arrived
        <3> QED
            BY <1>3, <3>1 DEF Step, Handler, Refused, InsertUser, CreateSession, FetchUser,
                SelectMember, CountEmail, UpdateOwnRow, EditMember, WritePassword, KillSessions,
                DeleteUser, history
    <2> QED
        BY <1>1, <2>1 DEF Contained
<1> QED
    BY <1>2, <1>3

\* Every step keeps the sessions contained.
LEMMA ContainedNext == Inv /\ Contained /\ [Next]_vars => Contained'
<1> SUFFICES ASSUME Inv, Contained, [Next]_vars
             PROVE  /\ \A o \in Requests : ContainedBy(req'[o], sessions')
                    /\ \A s \in promised' : sessions'[s].st = "dead"
    BY DEF Contained, ContainedBy
<1>1. ASSUME NEW r \in Requests, Step(r)
      PROVE  /\ \A o \in Requests : ContainedBy(req'[o], sessions')
             /\ \A s \in promised' : sessions'[s].st = "dead"
    BY <1>1, ContainedStep, PromisedStep, SessionsAge
<1>2. CASE req' = req /\ promised' = promised
    <2>1. promised \subseteq SessionIds
        BY DEF Inv, Typed
    <2> QED
        BY <1>2, <2>1, ContainedStays, SessionsAge DEF Contained
<1>3. ASSUME NEW s \in SessionIds, SessionEnds(s)
      PROVE  req' = req /\ promised' = promised
    BY <1>3 DEF SessionEnds, history
<1>4. ASSUME UNCHANGED vars
      PROVE  req' = req /\ promised' = promised
    BY <1>4 DEF vars, history
<1> QED
    BY <1>1, <1>2, <1>3, <1>4, Steps

\* A plain "ok" to a change of password or address tells the truth, for any number
\* of requests and sessions: every session that was there when the row was written
\* has ended (killAndReissue, auth/handler.go).
THEOREM OkContains == Spec => []PlainOkContains
<1>1. Init => Contained
    BY DEF Init, Contained, ContainedBy, Idle
<1>2. Inv /\ Contained /\ [Next]_vars => Contained'
    BY ContainedNext
<1>3. Contained => PlainOkContains
    BY DEF Contained, PlainOkContains
<1> QED
    BY <1>1, <1>2, <1>3, Invariance, PTL DEF Spec
=============================================================================
