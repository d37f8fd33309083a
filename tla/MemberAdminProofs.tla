------------------------- MODULE MemberAdminProofs -------------------------
(***************************************************************************)
(* What MemberAdmin keeps for every set of members and of requests.        *)
(***************************************************************************)
EXTENDS MemberAdmin, FiniteSetTheorems, TLAPS

-----------------------------------------------------------------------------
(* Types and locks.  What a request holds depends on how far it is, and the *)
(* row of an edit stays what it was when the scope was checked.             *)

RoleSteps   == {"lock", "read", "count", "update", "revoke", "commit"}
MemberSteps == {"scope", "promote", "recheck", "select", "edit"}

Placed(q) ==
    /\ q \in Request
    /\ q.pc = "idle" <=> q = Idle
    /\ q.pc # "idle" => q.target \in Users
    /\ q.pc \in RoleSteps => q.new \in Roles
    /\ q.pc \in {"count", "update", "revoke", "commit"} => q.old \in Roles
    /\ q.pc \in MemberSteps => q.viewer \in {"admin", "superuser"}

Rows ==
    /\ role \in [Users -> Roles \cup {"gone"}]
    /\ signedIn \subseteq {u \in Users : role[u] # "gone"}
    /\ touched \subseteq {"admin", "superuser"} \X Roles
    /\ erasedSuper \in BOOLEAN

Reqs ==
    /\ req \in [Requests -> Request]
    /\ \A r \in Requests : Placed(req[r])

Locks ==
    /\ \A r \in Requests : advisory = r <=> req[r].pc \in Serialized
    /\ advisory \in Requests \cup {NoRequest}
    /\ rowLock \in [Users -> Requests \cup {NoRequest}]
    /\ \A u \in Users : rowLock[u] # NoRequest =>
         req[rowLock[u]].pc \in RowLocked /\ req[rowLock[u]].target = u

Editing ==
    \A r \in Requests : At(r, "edit") =>
        LET u == req[r].target IN
        /\ rowLock[u] = r
        /\ role[u] \in Roles
        /\ Visible(req[r].viewer, role[u])

Inv == Rows /\ Reqs /\ Locks /\ Editing

\* The invariant is the type invariant and more.
LEMMA InvTypes == Inv => TypeOK
BY DEF Inv, Rows, Reqs, Locks, TypeOK, Placed, At

\* No action is taken by a request that does not exist.
LEMMA Sentinels == NoRequest \notin Requests /\ NoUser \notin Users
BY NoUserIsNone, NoRequestIsNone

\* A handler that goes on with well-placed locals leaves all requests so.
LEMMA Moves ==
    ASSUME Reqs, NEW r \in Requests, NEW q, Holds(r, q), Placed(q)
    PROVE  Reqs' /\ req'[r] = q /\ \A p \in Requests \ {r} : req'[p] = req[p]
<1>1. req' \in [Requests -> Request] /\ req'[r] = q
          /\ \A p \in Requests \ {r} : req'[p] = req[p]
  BY DEF Reqs, Holds, Placed
<1>2. \A p \in Requests : Placed(req[p])'
  <2> TAKE p \in Requests
  <2>1. CASE p = r
    BY <1>1, <2>1 DEF Placed, Request, Idle
  <2>2. CASE p # r
    BY <1>1, <2>2 DEF Reqs, Placed, Request, Idle
  <2> QED
    BY <2>1, <2>2
<1> QED
  BY <1>1, <1>2 DEF Reqs

\* One that answers does.
LEMMA AnswersMoves ==
    ASSUME Reqs, NEW r \in Requests, Answered(r)
    PROVE  Reqs' /\ req'[r] = Idle /\ \A p \in Requests \ {r} : req'[p] = req[p]
<1>1. Placed(Idle)
  BY DEF Placed, Idle, Request, Labels, RoleSteps, MemberSteps
<1> QED
  BY <1>1, Moves DEF Answered

\* One that goes on to the statement l does, if l asks for no more than it has.
LEMMA GotoMoves ==
    ASSUME Reqs, NEW r \in Requests, NEW l \in Labels \ {"idle"}, Goto(r, l),
           ~At(r, "idle"),
           l \in RoleSteps => req[r].pc \in RoleSteps,
           l \in {"count", "update", "revoke", "commit"} =>
               req[r].pc \in {"count", "update", "revoke", "commit"},
           l \in MemberSteps => req[r].pc \in MemberSteps
    PROVE  /\ Reqs'
           /\ req'[r] = [req[r] EXCEPT !.pc = l]
           /\ \A p \in Requests \ {r} : req'[p] = req[p]
<1> DEFINE q == [req[r] EXCEPT !.pc = l]
<1>1. Placed(req[r]) /\ req[r].pc # "idle"
  BY DEF Reqs, At
<1>2. q \in Request /\ q.pc = l /\ q.target = req[r].target /\ q.new = req[r].new
         /\ q.old = req[r].old /\ q.viewer = req[r].viewer
  BY <1>1 DEF Placed, Request
<1>3. q # Idle
  BY <1>2 DEF Idle
<1>4. Placed(q)
  BY <1>1, <1>2, <1>3 DEF Placed
<1> QED
  BY <1>4, Moves DEF Goto

-----------------------------------------------------------------------------
(* One lemma per action.  An action of r that neither takes nor leaves a    *)
(* transaction changes no lock.                                             *)

\* The locks stay right when r moves within its transaction, or outside of any.
LEMMA SameLocks ==
    ASSUME Reqs, Reqs', Locks, NEW r \in Requests, UNCHANGED <<advisory, rowLock>>,
           \A p \in Requests \ {r} : req'[p] = req[p],
           req'[r].pc \in Serialized <=> req[r].pc \in Serialized,
           req[r].pc \in RowLocked =>
               req'[r].pc \in RowLocked /\ req'[r].target = req[r].target
    PROVE  Locks'
BY DEF Locks

\* They stay right when r gives back what it holds and answers.
LEMMA ReleasedLocks ==
    ASSUME Reqs, Reqs', Locks, NEW r \in Requests, Released(r), req'[r] = Idle,
           \A p \in Requests \ {r} : req'[p] = req[p]
    PROVE  Locks'
BY Sentinels DEF Locks, Released, Idle, Serialized

\* An edit in progress is not disturbed by a step that leaves its request alone
\* and neither the lock nor the role of its row changes.
LEMMA SameEditing ==
    ASSUME Editing, \A p \in Requests : req'[p].pc = "edit" =>
               /\ req'[p] = req[p]
               /\ rowLock'[req[p].target] = rowLock[req[p].target]
               /\ role'[req[p].target] = role[req[p].target]
    PROVE  Editing'
BY DEF Editing, At, Visible

\* Admission by the middleware.
LEMMA AdmittedInv ==
    ASSUME Inv, NEW r \in Requests, NEW a, NEW least, NEW q,
           Admitted(r, a, least, q), Placed(q),
           q.pc \in {"lock", "scope", "select", "erase"}
    PROVE  Inv'
<1>1. Reqs' /\ req'[r] = q /\ \A p \in Requests \ {r} : req'[p] = req[p]
  BY Moves DEF Inv, Admitted
<1>2. Rows'
  BY DEF Inv, Admitted, history, Rows
<1>3. Locks'
  BY <1>1, SameLocks DEF Inv, Admitted, At, Serialized, RowLocked
<1>4. Editing'
  BY <1>1, SameEditing DEF Inv, Admitted
<1> QED
  BY <1>1, <1>2, <1>3, <1>4 DEF Inv

\* The arrival of a request, whatever it asks for.
LEMMA ArrivalInv ==
    ASSUME Inv, NEW r \in Requests, Arrival(r)
    PROVE  Inv'
<1>1. PICK a \in Users :
        \/ \E u \in Users, new \in Roles : RoleRequest(r, a, u, new)
        \/ \E u \in Users : VerifyRequest(r, a, u) \/ UpdateRequest(r, a, u)
        \/ EraseRequest(r, a)
  BY DEF Arrival
<1>2. CASE \E u \in Users, new \in Roles : RoleRequest(r, a, u, new)
  <2>1. PICK u \in Users, new \in Roles : RoleRequest(r, a, u, new)
    BY <1>2
  <2> DEFINE q == [Idle EXCEPT !.pc = "lock", !.target = u, !.new = new]
  <2>2. Placed(q)
    BY DEF Placed, Idle, Request, Labels, RoleSteps, MemberSteps
  <2> QED
    BY <2>1, <2>2, AdmittedInv DEF RoleRequest, Idle
<1>3. ASSUME NEW u \in Users, NEW l \in {"scope", "select"},
             Admitted(r, a, "admin", [Idle EXCEPT !.pc = l, !.target = u,
                                                  !.viewer = role[a]])
      PROVE  Inv'
  <2> DEFINE q == [Idle EXCEPT !.pc = l, !.target = u, !.viewer = role[a]]
  <2>1. role[a] \in {"admin", "superuser"}
    BY <1>3 DEF Admitted, Level, Inv, Rows, Roles
  <2>2. Placed(q)
    BY <2>1 DEF Placed, Idle, Request, Labels, RoleSteps, MemberSteps
  <2> QED
    BY <1>3, <2>2, AdmittedInv DEF Idle
<1>4. CASE EraseRequest(r, a)
  <2> DEFINE q == [Idle EXCEPT !.pc = "erase", !.target = a]
  <2>1. Placed(q)
    BY DEF Placed, Idle, Request, Labels, RoleSteps, MemberSteps
  <2> QED
    BY <1>4, <2>1, AdmittedInv DEF EraseRequest, Idle
<1> QED
  BY <1>1, <1>2, <1>3, <1>4 DEF VerifyRequest, UpdateRequest

\* setRole: the statements that change no row.
LEMMA RoleStepsInv ==
    ASSUME Inv, NEW r \in Requests,
           \/ TakeAdvisoryLock(r) \/ ReadRole(r) \/ CountSuperusers(r)
           \/ RevokeSessions(r)
    PROVE  Inv'
<1> USE DEF Inv
<1>1. Rows' /\ role' = role
  BY DEF TakeAdvisoryLock, ReadRole, CountSuperusers, RevokeSessions, history, Rows
<1>2. ASSUME NEW q, Placed(q), Holds(r, q), UNCHANGED <<advisory, rowLock>>,
             q.target = req[r].target, req[r].pc # "edit", q.pc # "edit",
             req[r].pc \in Serialized <=> q.pc \in Serialized,
             req[r].pc \in RowLocked => q.pc \in RowLocked
      PROVE  Inv'
  <2>1. Reqs' /\ req'[r] = q /\ \A p \in Requests \ {r} : req'[p] = req[p]
    BY <1>2, Moves
  <2>2. Locks'
    BY <1>2, <2>1, SameLocks
  <2>3. Editing'
    BY <1>1, <1>2, <2>1, SameEditing
  <2> QED
    BY <1>1, <2>1, <2>2, <2>3
<1>3. ASSUME Answered(r), Released(r), req[r].pc # "edit" PROVE Inv'
  <2>1. Reqs' /\ req'[r] = Idle /\ \A p \in Requests \ {r} : req'[p] = req[p]
    BY <1>3, AnswersMoves
  <2>2. Locks'
    BY <1>3, <2>1, ReleasedLocks
  <2>3. Editing'
    <3>1. \A p \in Requests : req'[p].pc = "edit" => p # r /\ req'[p] = req[p]
      BY <2>1 DEF Idle
    <3>2. \A p \in Requests \ {r} : req[p].pc = "edit" =>
             rowLock[req[p].target] = p /\ req[p].target \in Users
      BY DEF Editing, At, Reqs, Placed
    <3>3. \A v \in Users : rowLock[v] # r => rowLock'[v] = rowLock[v]
      BY <1>3 DEF Released
    <3> QED
      BY <1>1, <3>1, <3>2, <3>3, SameEditing
  <2> QED
    BY <1>1, <2>1, <2>2, <2>3
<1>4. Placed(req[r]) /\ req[r] \in Request
  BY DEF Reqs, Placed
<1>5. CASE TakeAdvisoryLock(r)
  <2>1. Reqs' /\ req'[r] = [req[r] EXCEPT !.pc = "read"]
           /\ \A p \in Requests \ {r} : req'[p] = req[p]
    BY <1>5, GotoMoves DEF TakeAdvisoryLock, At, Labels, RoleSteps, MemberSteps
  <2>2. req'[r].pc = "read" /\ req[r].pc = "lock"
    BY <1>4, <1>5, <2>1 DEF TakeAdvisoryLock, At, Request
  <2>3. Locks'
    <3>1. advisory = NoRequest /\ advisory' = r /\ rowLock' = rowLock
      BY <1>5 DEF TakeAdvisoryLock, AdvisoryFree
    <3>2. \A p \in Requests : req[p].pc \notin Serialized
      BY <3>1, Sentinels DEF Locks
    <3>3. \A p \in Requests : advisory' = p <=> req'[p].pc \in Serialized
      BY <2>1, <2>2, <3>1, <3>2 DEF Serialized
    <3>4. \A u \in Users : rowLock[u] # NoRequest => rowLock[u] # r
      BY <2>2 DEF Locks, RowLocked
    <3> QED
      BY <2>1, <3>1, <3>3, <3>4 DEF Locks
  <2>4. Editing'
    BY <1>1, <1>5, <2>1, <2>2, SameEditing DEF TakeAdvisoryLock
  <2> QED
    BY <1>1, <2>1, <2>3, <2>4
<1>6. CASE ReadRole(r)
  <2> DEFINE old == role[req[r].target]
             q == [req[r] EXCEPT !.old = old,
                     !.pc = IF old = "superuser" /\ req[r].new # "superuser"
                              THEN "count" ELSE "update"]
  <2>1. CASE old = "gone"
    BY <1>3, <1>6, <2>1 DEF ReadRole, RolledBack, At
  <2>2. CASE old # "gone"
    <3>1. old \in Roles
      BY <1>4, <1>6, <2>2 DEF Rows, Placed, ReadRole, At
    <3>2. Holds(r, q) /\ UNCHANGED <<advisory, rowLock>> /\ req[r].pc = "read"
      BY <1>6, <2>2 DEF ReadRole, At
    <3>3. /\ q.target = req[r].target /\ q.new = req[r].new /\ q.old = old
          /\ q.viewer = req[r].viewer /\ q.late = req[r].late
          /\ q.pc \in {"count", "update"} /\ q \in Request
      BY <1>4, <3>1 DEF Request, Labels
    <3>4. Placed(q)
      BY <1>4, <3>1, <3>2, <3>3 DEF Placed, RoleSteps, MemberSteps, Idle
    <3> QED
      BY <1>2, <3>2, <3>3, <3>4 DEF Serialized, RowLocked
  <2> QED
    BY <2>1, <2>2
<1>7. ASSUME NEW l \in {"update", "commit"}, Goto(r, l),
             UNCHANGED <<advisory, rowLock>>,
             req[r].pc \in {"count", "revoke"}, l = "update" => req[r].pc = "count"
      PROVE  Inv'
  <2> DEFINE q == [req[r] EXCEPT !.pc = l]
  <2>1. q.target = req[r].target /\ q.pc = l /\ Placed(q)
    BY <1>4, <1>7 DEF Placed, Request, Labels, RoleSteps, MemberSteps, Idle
  <2>2. Holds(r, q)
    BY <1>7 DEF Goto
  <2>3. req[r].pc \in RowLocked => q.pc \in RowLocked
    BY <1>7, <2>1 DEF RowLocked
  <2>4. req[r].pc \in Serialized /\ q.pc \in Serialized
    BY <1>7, <2>1 DEF Serialized
  <2> HIDE DEF q
  <2> QED
    BY <1>2, <1>7, <2>1, <2>2, <2>3, <2>4
<1>8. CASE CountSuperusers(r)
  BY <1>3, <1>7, <1>8 DEF CountSuperusers, RolledBack, At
<1>9. CASE RevokeSessions(r)
  BY <1>7, <1>9 DEF RevokeSessions, At
<1> QED
  BY <1>5, <1>6, <1>8, <1>9

\* setRole: the UPDATE takes the lock of the row, if there is a row.
LEMMA UpdateRoleInv ==
    ASSUME Inv, NEW r \in Requests, UpdateRole(r)
    PROVE  Inv'
<1> USE DEF Inv
<1> DEFINE u == req[r].target
           l == IF Demotes(r) THEN "revoke" ELSE "commit"
<1>1. req[r].pc = "update" /\ u \in Users /\ rowLock[u] = NoRequest /\ Goto(r, l)
  BY DEF UpdateRole, At, Unlocked, Reqs, Placed
<1>2. Rows' /\ role' = role
  BY DEF UpdateRole, history, Rows
<1>3. l \in {"revoke", "commit"}
  OBVIOUS
<1>4. Reqs' /\ req'[r] = [req[r] EXCEPT !.pc = l]
         /\ \A p \in Requests \ {r} : req'[p] = req[p]
  <2> HIDE DEF l
  <2> QED
    BY <1>1, <1>3, GotoMoves DEF At, Labels, RoleSteps, MemberSteps
<1>5. req'[r].pc \in {"revoke", "commit"} /\ req'[r].target = u
  BY <1>3, <1>4 DEF Reqs, Placed, Request
<1>6. rowLock' = rowLock \/ rowLock' = [rowLock EXCEPT ![u] = r]
  BY DEF UpdateRole
<1>7. Locks'
  <2>1. \A v \in Users : rowLock'[v] # NoRequest =>
           req'[rowLock'[v]].pc \in RowLocked /\ req'[rowLock'[v]].target = v
    <3> SUFFICES ASSUME NEW v \in Users, rowLock'[v] # NoRequest
                 PROVE  req'[rowLock'[v]].pc \in RowLocked
                          /\ req'[rowLock'[v]].target = v
      OBVIOUS
    <3>1. CASE rowLock'[v] = rowLock[v]
      <4>1. rowLock[v] \in Requests /\ req[rowLock[v]].pc \in RowLocked
              /\ req[rowLock[v]].target = v
        BY <3>1 DEF Locks
      <4>2. rowLock[v] # r
        BY <1>1, <4>1 DEF RowLocked
      <4> QED
        BY <1>4, <3>1, <4>1, <4>2
    <3>2. CASE rowLock'[v] # rowLock[v]
      <4>1. v = u /\ rowLock'[v] = r
        BY <1>6, <3>2 DEF Locks
      <4> QED
        BY <1>5, <4>1 DEF RowLocked
    <3> QED
      BY <3>1, <3>2
  <2>2. \A p \in Requests : advisory' = p <=> req'[p].pc \in Serialized
    BY <1>1, <1>4, <1>5 DEF Locks, Serialized, UpdateRole
  <2>3. advisory' \in Requests \cup {NoRequest}
    BY DEF Locks, UpdateRole
  <2>4. rowLock' \in [Users -> Requests \cup {NoRequest}]
    BY <1>6 DEF Locks
  <2> QED
    BY <2>1, <2>2, <2>3, <2>4 DEF Locks
<1>8. Editing'
  <2>1. \A p \in Requests : req[p].pc = "edit" => rowLock[req[p].target] = p
    BY DEF Editing, At
  <2>2. \A p \in Requests : req'[p].pc = "edit" => req'[p] = req[p]
    BY <1>4, <1>5
  <2>3. \A p \in Requests : req[p].pc = "edit" => req[p].target # u
    BY <1>1, <2>1, Sentinels
  <2> QED
    BY <1>2, <1>6, <2>2, <2>3, SameEditing DEF Locks, Reqs, Placed
<1> QED
  BY <1>2, <1>4, <1>7, <1>8

\* setRole: the COMMIT writes the role of a row whose lock is held, and ends
\* sessions.
LEMMA CommitRoleInv ==
    ASSUME Inv, NEW r \in Requests, CommitRole(r)
    PROVE  Inv'
<1> USE DEF Inv
<1> DEFINE u == req[r].target
<1>1. /\ req[r].pc = "commit" /\ u \in Users /\ req[r].new \in Roles
      /\ Answered(r) /\ Released(r)
  BY DEF CommitRole, At, Reqs, Placed, RoleSteps
<1>2. Reqs' /\ req'[r] = Idle /\ \A p \in Requests \ {r} : req'[p] = req[p]
  BY <1>1, AnswersMoves
<1>3. Rows'
  <2>1. role' \in [Users -> Roles \cup {"gone"}]
          /\ \A v \in Users : role'[v] = "gone" => role[v] = "gone"
    BY <1>1 DEF CommitRole, Rows, Roles
  <2>2. signedIn' \subseteq signedIn
    BY DEF CommitRole, LeftSessions
  <2> QED
    BY <2>1, <2>2 DEF CommitRole, history, Rows
<1>4. Locks'
  BY <1>1, <1>2, ReleasedLocks
<1>5. Editing'
  <2>1. \A p \in Requests : req'[p].pc = "edit" => p # r /\ req'[p] = req[p]
    BY <1>2 DEF Idle
  <2>2. \A p \in Requests \ {r} : req[p].pc = "edit" =>
           rowLock[req[p].target] = p /\ req[p].target \in Users
    BY DEF Editing, At, Reqs, Placed
  <2>3. \A v \in Users : rowLock[v] # r => role'[v] = role[v] /\ rowLock'[v] = rowLock[v]
    BY <1>1 DEF CommitRole, Released, Rows
  <2> QED
    BY <2>1, <2>2, <2>3, SameEditing
<1> QED
  BY <1>2, <1>3, <1>4, <1>5

\* A request outside of any transaction answers or goes on outside of any, and
\* the rows stay well typed; no edited row changes.
LEMMA FreeStepInv ==
    ASSUME Inv, NEW r \in Requests, Rows', Reqs',
           UNCHANGED <<advisory, rowLock>>,
           \A p \in Requests \ {r} : req'[p] = req[p],
           req[r].pc \notin Serialized \cup RowLocked,
           req'[r].pc \notin Serialized \cup RowLocked,
           \A u \in Users : rowLock[u] # NoRequest => role'[u] = role[u]
    PROVE  Inv'
<1> USE DEF Inv
<1>1. Locks'
  BY SameLocks
<1>2. Editing'
  <2>1. \A p \in Requests : req'[p].pc = "edit" => p # r /\ req'[p] = req[p]
    BY DEF RowLocked
  <2>2. \A p \in Requests : req[p].pc = "edit" =>
           rowLock[req[p].target] = p /\ req[p].target \in Users
    BY DEF Editing, At, Reqs, Placed
  <2> QED
    BY <2>1, <2>2, SameEditing, Sentinels
<1> QED
  BY <1>1, <1>2

\* verifyMember, and the erasure of an account.
LEMMA VerifyInv ==
    ASSUME Inv, NEW r \in Requests, VerifyMember(r) \/ DeleteUser(r)
    PROVE  Inv'
<1> USE DEF Inv
<1>1. Placed(req[r]) /\ req[r].target \in Users
        /\ req[r].pc \in {"scope", "promote", "recheck", "erase"}
  BY DEF VerifyMember, ReadScope, PromoteNew, RecheckScope, DeleteUser, At, Reqs, Placed
<1>2. UNCHANGED <<advisory, rowLock>>
  BY DEF VerifyMember, ReadScope, PromoteNew, RecheckScope, DeleteUser
<1>3. Rows' /\ \A u \in Users : rowLock[u] # NoRequest => role'[u] = role[u]
  <2>1. CASE ReadScope(r) \/ RecheckScope(r)
    BY <2>1 DEF ReadScope, RecheckScope, history, Rows
  <2>2. CASE PromoteNew(r)
    <3>1. \/ UNCHANGED <<role, touched>>
          \/ /\ role[req[r].target] = "new"
             /\ role' = [role EXCEPT ![req[r].target] = "user"]
             /\ touched' = {<<req[r].viewer, "new">>}
      BY <2>2 DEF PromoteNew, Promotable
    <3>2. UNCHANGED <<signedIn, erasedSuper>> /\ rowLock[req[r].target] = NoRequest
      BY <2>2 DEF PromoteNew, Unlocked
    <3>3. req[r].viewer \in {"admin", "superuser"}
      BY <1>1, <2>2 DEF Placed, PromoteNew, At, MemberSteps
    <3> QED
      BY <1>1, <3>1, <3>2, <3>3 DEF Rows, Roles
  <2>3. CASE DeleteUser(r)
    <3>1. /\ role' = [role EXCEPT ![req[r].target] = "gone"]
          /\ signedIn' = signedIn \ {req[r].target}
          /\ touched' = touched /\ erasedSuper' \in BOOLEAN
          /\ rowLock[req[r].target] = NoRequest
      BY <2>3 DEF DeleteUser, Unlocked, Rows
    <3> QED
      BY <1>1, <3>1 DEF Rows
  <2> QED
    BY <2>1, <2>2, <2>3 DEF VerifyMember
<1>4. /\ Reqs' /\ \A p \in Requests \ {r} : req'[p] = req[p]
      /\ req'[r].pc \in {"idle", "promote", "recheck"}
  <2>1. CASE Answered(r)
    BY <2>1, AnswersMoves DEF Idle
  <2>2. ASSUME NEW l \in {"promote", "recheck"}, Goto(r, l),
               req[r].pc \in {"scope", "promote"}
        PROVE  /\ Reqs' /\ \A p \in Requests \ {r} : req'[p] = req[p]
               /\ req'[r].pc \in {"idle", "promote", "recheck"}
    <3>1. Reqs' /\ req'[r] = [req[r] EXCEPT !.pc = l]
             /\ \A p \in Requests \ {r} : req'[p] = req[p]
      BY <2>2, GotoMoves DEF At, Labels, RoleSteps, MemberSteps
    <3> QED
      BY <1>1, <3>1 DEF Placed, Request
  <2> QED
    BY <2>1, <2>2 DEF VerifyMember, ReadScope, PromoteNew, RecheckScope, DeleteUser, At
<1> QED
  BY <1>1, <1>2, <1>3, <1>4, FreeStepInv DEF Serialized, RowLocked

\* updateMemberForViewer: the row is locked, its scope is checked.
LEMMA SelectMemberInv ==
    ASSUME Inv, NEW r \in Requests, SelectMember(r)
    PROVE  Inv'
<1> USE DEF Inv
<1> DEFINE u == req[r].target
<1>1. /\ Placed(req[r]) /\ u \in Users /\ req[r].pc = "select"
      /\ rowLock[u] = NoRequest
  BY DEF SelectMember, At, Reqs, Placed, Unlocked
<1>2. Rows' /\ role' = role /\ advisory' = advisory
  BY DEF SelectMember, history, Rows
<1>3. CASE Answered(r) /\ rowLock' = rowLock
  <2>1. Reqs' /\ req'[r] = Idle /\ \A p \in Requests \ {r} : req'[p] = req[p]
    BY <1>3, AnswersMoves
  <2> QED
    BY <1>1, <1>2, <1>3, <2>1, FreeStepInv DEF Serialized, RowLocked, Idle
<1>4. CASE /\ InScope(req[r].viewer, u) /\ Goto(r, "edit")
           /\ rowLock' = [rowLock EXCEPT ![u] = r]
  <2>1. Reqs' /\ req'[r] = [req[r] EXCEPT !.pc = "edit"]
           /\ \A p \in Requests \ {r} : req'[p] = req[p]
    BY <1>1, <1>4, GotoMoves DEF At, Labels, RoleSteps, MemberSteps
  <2>2. req'[r].pc = "edit" /\ req'[r].target = u /\ req'[r].viewer = req[r].viewer
    BY <1>1, <2>1 DEF Placed, Request
  <2>3. \A v \in Users : rowLock[v] # r
    BY <1>1, Sentinels DEF Locks, RowLocked
  <2>4. \A v \in Users \ {u} : rowLock'[v] = rowLock[v]
    BY <1>4 DEF Locks
  <2>5. rowLock'[u] = r /\ rowLock' \in [Users -> Requests \cup {NoRequest}]
    BY <1>1, <1>4 DEF Locks
  <2>6. Locks'
    <3>1. \A p \in Requests : advisory' = p <=> req'[p].pc \in Serialized
      BY <1>1, <1>2, <2>1, <2>2 DEF Locks, Serialized
    <3>2. ASSUME NEW v \in Users, rowLock'[v] # NoRequest
          PROVE  req'[rowLock'[v]].pc \in RowLocked /\ req'[rowLock'[v]].target = v
      <4>1. CASE v = u
        BY <2>2, <2>5, <4>1 DEF RowLocked
      <4>2. CASE v # u
        BY <2>1, <2>3, <2>4, <3>2, <4>2 DEF Locks
      <4> QED
        BY <4>1, <4>2
    <3> QED
      BY <1>2, <2>5, <3>1, <3>2 DEF Locks
  <2>7. Editing'
    <3> SUFFICES ASSUME NEW p \in Requests, req'[p].pc = "edit"
                 PROVE  /\ rowLock'[req'[p].target] = p
                        /\ role'[req'[p].target] \in Roles
                        /\ Visible(req'[p].viewer, role'[req'[p].target])
      BY DEF Editing, At, Visible
    <3>1. CASE p = r
      BY <1>1, <1>2, <1>4, <2>2, <2>5, <3>1 DEF InScope, Rows
    <3>2. CASE p # r
      <4>1. /\ req'[p] = req[p] /\ rowLock[req[p].target] = p
            /\ role[req[p].target] \in Roles /\ req[p].target \in Users
            /\ Visible(req[p].viewer, role[req[p].target])
        BY <2>1, <3>2 DEF Editing, At, Reqs, Placed
      <4> QED
        BY <1>1, <1>2, <2>4, <4>1, Sentinels
    <3> QED
      BY <3>1, <3>2
  <2> QED
    BY <1>2, <2>1, <2>6, <2>7
<1> QED
  BY <1>3, <1>4 DEF SelectMember, SelectedForUpdate

\* updateMemberForViewer: the write and the COMMIT; and a request that stops
\* wherever it is.  Both give back every lock and touch no role.
LEMMA EndsInv ==
    ASSUME Inv, NEW r \in Requests, EditMember(r) \/ Stops(r)
    PROVE  Inv'
<1> USE DEF Inv
<1>1. Answered(r) /\ Released(r) /\ UNCHANGED <<role, signedIn, erasedSuper>>
  BY DEF EditMember, Stops, history
<1>2. Reqs' /\ req'[r] = Idle /\ \A p \in Requests \ {r} : req'[p] = req[p]
  BY <1>1, AnswersMoves
<1>3. touched' \subseteq {"admin", "superuser"} \X Roles
  <2>1. CASE touched' = touched
    BY <2>1 DEF Rows
  <2>2. CASE EditMember(r) /\ touched' # touched
    <3>1. touched' = {<<req[r].viewer, role[req[r].target]>>} /\ At(r, "edit")
      BY <2>2 DEF EditMember
    <3>2. role[req[r].target] \in Roles /\ req[r].viewer \in {"admin", "superuser"}
      BY <3>1 DEF Editing, At, Reqs, Placed, MemberSteps
    <3> QED
      BY <3>1, <3>2
  <2> QED
    BY <2>1, <2>2 DEF Stops, history
<1>4. Rows'
  BY <1>1, <1>3 DEF Rows
<1>5. Locks'
  BY <1>1, <1>2, ReleasedLocks
<1>6. Editing'
  <2>1. \A p \in Requests : req'[p].pc = "edit" => p # r /\ req'[p] = req[p]
    BY <1>2 DEF Idle
  <2>2. \A p \in Requests \ {r} : req[p].pc = "edit" =>
           rowLock[req[p].target] = p /\ req[p].target \in Users
    BY DEF Editing, At, Reqs, Placed
  <2>3. \A v \in Users : rowLock[v] # r => rowLock'[v] = rowLock[v]
    BY <1>1 DEF Released
  <2> QED
    BY <1>1, <2>1, <2>2, <2>3, SameEditing
<1> QED
  BY <1>2, <1>4, <1>5, <1>6

\* A login: a request that is about to commit takes note of it.
LEMMA SignInInv ==
    ASSUME Inv, NEW u \in Users, SignIn(u)
    PROVE  Inv'
<1> USE DEF Inv
<1>1. Rows' /\ UNCHANGED <<role, advisory, rowLock>>
  BY DEF SignIn, history, Rows
<1>2. \A p \in Requests : \/ req'[p] = req[p]
                         \/ /\ req[p].pc = "commit"
                            /\ req'[p] = [req[p] EXCEPT !.late = TRUE]
  BY DEF SignIn, At, Reqs
<1>3. req' \in [Requests -> Request]
          /\ \A p \in Requests : Placed(req'[p])
                /\ req'[p].pc = req[p].pc /\ req'[p].target = req[p].target
  <2>1. DOMAIN req' = Requests /\ req' = [p \in Requests |-> req'[p]]
    BY DEF SignIn
  <2>2. ASSUME NEW p \in Requests
        PROVE  Placed(req'[p]) /\ req'[p].pc = req[p].pc
                 /\ req'[p].target = req[p].target
    <3>1. Placed(req[p])
      BY DEF Reqs
    <3>2. CASE req'[p] = req[p]
      BY <3>1, <3>2
    <3>3. CASE req[p].pc = "commit" /\ req'[p] = [req[p] EXCEPT !.late = TRUE]
      <4>1. /\ req'[p] \in Request /\ req'[p].pc = "commit"
            /\ req'[p].target = req[p].target /\ req'[p].new = req[p].new
            /\ req'[p].old = req[p].old
        BY <3>1, <3>3 DEF Placed, Request
      <4> QED
        BY <3>1, <3>3, <4>1 DEF Placed, RoleSteps, MemberSteps, Idle
    <3> QED
      BY <1>2, <3>2, <3>3
  <2> QED
    BY <2>1, <2>2 DEF Placed
<1>4. Reqs'
  BY <1>3 DEF Reqs, Placed, Request, Idle
<1>5. Locks'
  BY <1>1, <1>3 DEF Locks
<1>6. Editing'
  BY <1>1, <1>2, <1>3, SameEditing
<1> QED
  BY <1>1, <1>4, <1>5, <1>6

\* Every step keeps the invariant.
LEMMA InvStep == Inv /\ [Next]_vars => Inv'
<1> SUFFICES ASSUME Inv, [Next]_vars PROVE Inv'
  OBVIOUS
<1>1. CASE \E r \in Requests : Arrival(r) \/ Handler(r) \/ Stops(r)
  BY <1>1, ArrivalInv, RoleStepsInv, UpdateRoleInv, CommitRoleInv, VerifyInv,
     SelectMemberInv, EndsInv DEF Handler, SetRole, UpdateMember
<1>2. CASE \E u \in Users : SignIn(u)
  BY <1>2, SignInInv
<1>3. CASE \E u \in Users : SignOut(u)
  <2>1. Rows' /\ UNCHANGED <<role, advisory, rowLock, req>>
    BY <1>3 DEF SignOut, history, Inv, Rows
  <2> QED
    BY <2>1 DEF Inv, Reqs, Placed, Request, Idle, Locks, Editing, At, Visible
<1>4. CASE UNCHANGED vars
  BY <1>4 DEF vars, history, Inv, Rows, Reqs, Placed, Request, Idle, Locks,
              Editing, At, Visible
<1> QED
  BY <1>1, <1>2, <1>3, <1>4 DEF Next, Quiescent

\* The directory starts with nothing in flight and no lock held.
LEMMA InvInit == Init => Inv
<1> SUFFICES ASSUME Init PROVE Inv
  OBVIOUS
<1>1. Rows
  BY DEF Init, Rows, Roles
<1>2. Placed(Idle)
  BY DEF Placed, Idle, Request, Labels, RoleSteps, MemberSteps
<1>3. Reqs
  BY <1>2 DEF Init, Reqs, Placed
<1>4. Locks
  BY Sentinels DEF Init, Locks, Idle, Serialized
<1>5. Editing
  BY DEF Init, Editing, At, Idle
<1> QED
  BY <1>1, <1>3, <1>4, <1>5 DEF Inv

\* The invariant holds in every reachable state.
LEMMA Invariance == Spec => []Inv
BY InvInit, InvStep, PTL DEF Spec

\* All variables keep their types, and every lock is held by exactly the request
\* whose transaction took it (role.go, member.go).
THEOREM RolesTyped == Spec => []TypeOK
BY Invariance, InvTypes, PTL

-----------------------------------------------------------------------------
(* An admin touches members in scope only.                                  *)

\* What verify and update requests touch is in scope when they touch it: a
\* pending member is in every admin's scope, and the row of an edit is locked
\* since its scope was checked.
LEMMA ScopeStep == Inv /\ AdminStaysInScope /\ [Next]_vars => AdminStaysInScope'
<1> SUFFICES ASSUME Inv, AdminStaysInScope, [Next]_vars, touched' # touched
             PROVE  AdminStaysInScope'
  BY DEF AdminStaysInScope, Visible
<1>1. PICK r \in Requests : PromoteNew(r) \/ EditMember(r)
  <2>1. ASSUME NEW r \in Requests, Arrival(r) PROVE touched' = touched
    BY <2>1 DEF Arrival, RoleRequest, VerifyRequest, UpdateRequest, EraseRequest,
                Admitted, history
  <2> QED
    BY <2>1 DEF Next, Handler, SetRole, VerifyMember, UpdateMember, TakeAdvisoryLock,
         ReadRole, CountSuperusers, UpdateRole, RevokeSessions, CommitRole, ReadScope,
         RecheckScope, SelectMember, DeleteUser, SignIn, SignOut, Stops, Quiescent,
         vars, history
<1>2. CASE PromoteNew(r)
  <2>1. touched' = {<<req[r].viewer, "new">>}
    BY <1>2 DEF PromoteNew, Promotable
  <2> QED
    BY <2>1 DEF AdminStaysInScope, Visible
<1>3. CASE EditMember(r)
  <2>1. /\ touched' = {<<req[r].viewer, role[req[r].target]>>}
        /\ Visible(req[r].viewer, role[req[r].target])
    BY <1>3 DEF EditMember, Inv, Editing
  <2> QED
    BY <2>1 DEF AdminStaysInScope, Visible
<1> QED
  BY <1>1, <1>2, <1>3

\* For any members and requests, an admin's edit or verification only ever
\* changes a member who is new or verified at that moment (member.go).
THEOREM ScopeRespected == Spec => []AdminStaysInScope
<1>1. Init => AdminStaysInScope
  BY DEF Init, AdminStaysInScope
<1> QED
  BY <1>1, ScopeStep, Invariance, PTL DEF Spec

-----------------------------------------------------------------------------
(* Who writes roles.  Between the read of a role and the commit, the        *)
(* advisory lock keeps out every other role change; what is left are        *)
(* verifications, which write rows of new members, and erasures.            *)

Deciding == {"update", "revoke", "commit"}
Known    == {"count"} \cup Deciding

\* A role that does not stay is written by one of three.
LEMMA RoleWriters ==
    ASSUME Inv, [Next]_vars, role' # role
    PROVE  \E r \in Requests : CommitRole(r) \/ PromoteNew(r) \/ DeleteUser(r)
<1>1. ASSUME NEW r \in Requests, Arrival(r) PROVE role' = role
  BY <1>1 DEF Arrival, RoleRequest, VerifyRequest, UpdateRequest, EraseRequest, Admitted
<1> QED
  BY <1>1 DEF Next, Handler, SetRole, VerifyMember, UpdateMember, TakeAdvisoryLock,
       ReadRole, CountSuperusers, UpdateRole, RevokeSessions, ReadScope, RecheckScope,
       SelectMember, EditMember, SignIn, SignOut, Stops, Quiescent, vars

\* While one role change is decided no other is.
LEMMA OneDecides ==
    ASSUME Inv, NEW p \in Requests, NEW r \in Requests,
           req[p].pc \in Serialized, req[r].pc \in Serialized
    PROVE  p = r
BY DEF Inv, Locks

\* How a request comes to decide, or stays there with what it holds.
LEMMA DecidingSteps ==
    ASSUME Inv, [Next]_vars, NEW p \in Requests, req'[p].pc \in Known
    PROVE  \/ /\ req[p].pc \in Known
              /\ req'[p].pc \in Deciding => req[p].pc \in Deciding
              /\ req'[p].target = req[p].target /\ req'[p].new = req[p].new
              /\ req'[p].old = req[p].old
           \/ ReadRole(p) \/ CountSuperusers(p)
<1> USE DEF Inv
<1>1. CASE req'[p] = req[p]
  BY <1>1
<1>2. ASSUME NEW r \in Requests, Handler(r) \/ Arrival(r) \/ Stops(r), p # r
      PROVE  req'[p] = req[p]
  BY <1>2 DEF Handler, Arrival, SetRole, VerifyMember, UpdateMember, TakeAdvisoryLock,
       ReadRole, CountSuperusers, UpdateRole, RevokeSessions, CommitRole, ReadScope,
       PromoteNew, RecheckScope, SelectMember, EditMember, DeleteUser, Stops,
       RoleRequest, VerifyRequest, UpdateRequest, EraseRequest, Admitted,
       Answered, Goto, Holds, Reqs
<1>3. ASSUME NEW q, Holds(p, q), q.pc \notin Known PROVE FALSE
  BY <1>3 DEF Holds, Reqs
<1>4. Idle.pc \notin Known
  BY DEF Idle, Deciding, Known
<1>5. Placed(req[p]) /\ req[p] \in Request
  BY DEF Reqs, Placed
<1>6. ASSUME NEW l \in Labels \ Known, Goto(p, l) PROVE FALSE
  <2> DEFINE q == [req[p] EXCEPT !.pc = l]
  <2>1. q.pc = l
    BY <1>5 DEF Request
  <2> HIDE DEF q
  <2> QED
    BY <1>3, <1>6, <2>1 DEF Goto, q
<1>7. CASE Arrival(p)
  BY <1>3, <1>7 DEF Arrival, RoleRequest, VerifyRequest, UpdateRequest, EraseRequest,
       Admitted, Idle, Deciding, Known
<1>8. CASE UpdateRole(p) \/ RevokeSessions(p)
  <2>1. req[p].pc \in Deciding /\ \E l \in Labels : Goto(p, l)
    BY <1>8 DEF UpdateRole, RevokeSessions, At, Labels, Deciding
  <2> QED
    BY <1>5, <2>1 DEF Goto, Holds, Reqs, Request, Known
<1>9. CASE \/ TakeAdvisoryLock(p) \/ CommitRole(p) \/ VerifyMember(p)
           \/ UpdateMember(p) \/ DeleteUser(p) \/ Stops(p)
  BY <1>3, <1>4, <1>6, <1>9 DEF TakeAdvisoryLock, CommitRole, VerifyMember, ReadScope,
       PromoteNew, RecheckScope, UpdateMember, SelectMember, EditMember, DeleteUser,
       Stops, Answered, Labels, Deciding, Known
<1>10. CASE \E u \in Users : SignIn(u)
  BY <1>5, <1>10 DEF SignIn, Reqs, Request
<1>11. CASE (\E u \in Users : SignOut(u)) \/ UNCHANGED vars
  BY <1>1, <1>11 DEF SignOut, vars
<1> QED
  BY <1>1, <1>2, <1>7, <1>8, <1>9, <1>10, <1>11 DEF Next, Handler, SetRole, Quiescent

-----------------------------------------------------------------------------
(* A superuser remains.                                                     *)

\* While the demotion of a superuser is decided, there is another superuser;
\* nobody but a superuser that erases the own account can take it away.
SuperInv ==
    ~erasedSuper =>
      /\ Superusers # {}
      /\ \A r \in Requests :
           req[r].pc \in Deciding /\ req[r].new # "superuser" =>
             \E v \in Superusers : v # req[r].target

\* The guard lets a demotion go on if the target is not the only superuser.
LEMMA AnotherSuperuser ==
    ASSUME NEW t, ~LastSuperuser
    PROVE  \E v \in Superusers : v # t
<1> SUFFICES ASSUME Superusers \subseteq {t} PROVE FALSE
  OBVIOUS
<1>1. Superusers = {} \/ Superusers = {t}
  OBVIOUS
<1>2. Cardinality(Superusers) \in {0, 1}
  BY <1>1, FS_EmptySet, FS_Singleton
<1> QED
  BY <1>2 DEF LastSuperuser

\* A role change that is committed leaves the superuser it was decided with.
LEMMA CommitKeepsSuperuser ==
    ASSUME Inv, SuperInv, ~erasedSuper, NEW r \in Requests, CommitRole(r)
    PROVE  Superusers' # {}
<1> DEFINE t == req[r].target
<1>1. /\ req[r].pc \in Deciding /\ t \in Users
      /\ role' \in {role, [role EXCEPT ![t] = req[r].new]}
      /\ role \in [Users -> Roles \cup {"gone"}]
  BY DEF CommitRole, At, Deciding, Inv, Reqs, Placed, Rows
<1>2. CASE req[r].new = "superuser"
  <2>1. PICK v \in Superusers : TRUE
    BY DEF SuperInv
  <2> QED
    BY <1>1, <1>2, <2>1 DEF Superusers
<1>3. CASE req[r].new # "superuser"
  <2>1. PICK v \in Superusers : v # t
    BY <1>1, <1>3 DEF SuperInv
  <2> QED
    BY <1>1, <2>1 DEF Superusers
<1> QED
  BY <1>2, <1>3

\* Verifications and erasures of others leave every superuser alone.
LEMMA OthersKeepSuperusers ==
    ASSUME Inv, NEW r \in Requests, PromoteNew(r) \/ DeleteUser(r),
           ~erasedSuper'
    PROVE  Superusers \subseteq Superusers'
<1>1. role \in [Users -> Roles \cup {"gone"}]
  BY DEF Inv, Rows
<1>2. /\ role' \in {role, [role EXCEPT ![req[r].target] = "user"],
                    [role EXCEPT ![req[r].target] = "gone"]}
      /\ role' # role => role[req[r].target] # "superuser"
  BY DEF PromoteNew, Promotable, DeleteUser
<1> QED
  BY <1>1, <1>2 DEF Superusers

\* Every step keeps SuperInv.  A role change that is decided was not when a
\* role was committed, since one alone holds the advisory lock.
LEMMA SuperStep == Inv /\ SuperInv /\ [Next]_vars => SuperInv'
<1> SUFFICES ASSUME Inv, SuperInv, [Next]_vars, ~erasedSuper' PROVE SuperInv'
  BY DEF SuperInv
<1>1. ~erasedSuper
  <2>1. ASSUME NEW r \in Requests, Arrival(r) PROVE erasedSuper' = erasedSuper
    BY <2>1 DEF Arrival, RoleRequest, VerifyRequest, UpdateRequest, EraseRequest,
                Admitted, history
  <2>2. erasedSuper' = erasedSuper \/ \E r \in Requests : DeleteUser(r)
    BY <2>1 DEF Next, Handler, SetRole, VerifyMember, UpdateMember, TakeAdvisoryLock,
         ReadRole, CountSuperusers, UpdateRole, RevokeSessions, CommitRole, ReadScope,
         PromoteNew, RecheckScope, SelectMember, EditMember, SignIn, SignOut, Stops,
         Quiescent, vars, history
  <2> QED
    BY <2>2 DEF DeleteUser
<1>2. CASE \E r \in Requests : CommitRole(r)
  <2>1. PICK r \in Requests : CommitRole(r)
    BY <1>2
  <2>2. Superusers' # {}
    BY <1>1, <2>1, CommitKeepsSuperuser
  <2>3. \A p \in Requests : req'[p].pc \notin Deciding
    <3> SUFFICES ASSUME NEW p \in Requests, req'[p].pc \in Deciding PROVE FALSE
      OBVIOUS
    <3>1. req'[r] = Idle /\ \A o \in Requests \ {r} : req'[o] = req[o]
      BY <2>1, AnswersMoves DEF CommitRole, Inv
    <3>2. p # r /\ req[p].pc \in Serialized
      BY <3>1 DEF Idle, Deciding, Serialized
    <3>3. req[r].pc \in Serialized
      BY <2>1 DEF CommitRole, At, Serialized
    <3> QED
      BY <3>2, <3>3, OneDecides
  <2> QED
    BY <2>2, <2>3 DEF SuperInv
<1>3. CASE ~\E r \in Requests : CommitRole(r)
  <2>1. Superusers \subseteq Superusers'
    <3>1. CASE role' = role
      BY <3>1 DEF Superusers
    <3>2. CASE role' # role
      BY <1>3, <3>2, RoleWriters, OthersKeepSuperusers
    <3> QED
      BY <3>1, <3>2
  <2>2. ASSUME NEW p \in Requests, req'[p].pc \in Deciding, req'[p].new # "superuser"
        PROVE  \E v \in Superusers : v # req'[p].target
    <3>1. Placed(req[p]) /\ req[p] \in Request
      BY DEF Inv, Reqs, Placed
    <3>2. CASE /\ req[p].pc \in Deciding
               /\ req'[p].target = req[p].target /\ req'[p].new = req[p].new
      BY <1>1, <2>2, <3>2 DEF SuperInv
    <3>3. CASE ReadRole(p)
      <4>1. /\ role[req[p].target] # "superuser"
            /\ req'[p].target = req[p].target
        <5>1. role[req[p].target] # "gone"
          BY <2>2, <3>1, <3>3 DEF ReadRole, Answered, Holds, Idle, Deciding, Inv, Reqs
        <5> DEFINE l == IF role[req[p].target] = "superuser" /\ req[p].new # "superuser"
                          THEN "count" ELSE "update"
                   q == [req[p] EXCEPT !.old = role[req[p].target], !.pc = l]
        <5>2. req'[p] = q
          BY <3>3, <5>1 DEF ReadRole, Holds, Inv, Reqs
        <5>3. q.pc = l /\ q.target = req[p].target /\ q.new = req[p].new
          BY <3>1 DEF Request
        <5> QED
          BY <2>2, <5>2, <5>3 DEF Deciding
      <4>2. PICK v \in Superusers : TRUE
        BY <1>1 DEF SuperInv
      <4>3. role[v] = "superuser"
        BY <4>2 DEF Superusers
      <4> QED
        BY <4>1, <4>2, <4>3
    <3>4. CASE CountSuperusers(p)
      <4>1. ~LastSuperuser
        BY <2>2, <3>1, <3>4 DEF CountSuperusers, Answered, Holds, Idle, Deciding, Inv, Reqs
      <4> QED
        BY <4>1, AnotherSuperuser
    <3> QED
      BY <2>2, <3>2, <3>3, <3>4, DecidingSteps DEF Known
  <2>3. Superusers' # {}
    BY <1>1, <2>1 DEF SuperInv
  <2> QED
    BY <2>1, <2>2, <2>3 DEF SuperInv
<1> QED
  BY <1>2, <1>3

\* For any number of superusers and of role changes in flight, the demotions
\* leave a superuser (role.go, ErrLastSuperuser); only a superuser who erases
\* the own account can be the last one to go.
THEOREM OneSuperuserRemains == Spec => []SuperuserRemains
<1>1. Init => SuperInv
  BY DEF Init, SuperInv, Idle, Deciding
<1>2. SuperInv => SuperuserRemains
  BY DEF SuperInv, SuperuserRemains
<1> QED
  BY <1>1, <1>2, SuperStep, Invariance, PTL DEF Spec

-----------------------------------------------------------------------------
(* A demotion ends sessions.                                                *)

\* The role that was read stays the role of the row while the change is
\* decided, unless it was pending, which a verification may end.
OldKnown ==
    \A r \in Requests :
        req[r].pc \in Known /\ req[r].old # "new" =>
            role[req[r].target] \in {req[r].old, "gone"}

\* A request that decides outlives writes of the role by others only.
LEMMA OldStays ==
    ASSUME Inv, OldKnown, [Next]_vars, NEW p \in Requests,
           req[p].pc \in Known, req[p].old # "new", req'[p].pc \in Known
    PROVE  role'[req[p].target] \in {req[p].old, "gone"}
<1> DEFINE t == req[p].target
<1>1. t \in Users /\ role \in [Users -> Roles \cup {"gone"}] /\ role[t] \in {req[p].old, "gone"}
  BY DEF Inv, Reqs, Placed, Rows, OldKnown, Known, Deciding, Labels
<1>2. CASE role' = role
  BY <1>1, <1>2
<1>3. ASSUME NEW r \in Requests, CommitRole(r) PROVE FALSE
  <2>1. req'[r].pc = "idle" /\ req[r].pc \in Serialized
    BY <1>3, AnswersMoves DEF CommitRole, Inv, Idle, At, Serialized
  <2>2. req[p].pc \in Serialized
    BY DEF Known, Deciding, Serialized
  <2> QED
    BY <2>1, <2>2, OneDecides DEF Known, Deciding
<1>4. ASSUME NEW r \in Requests, PromoteNew(r) PROVE role'[t] = role[t]
  BY <1>1, <1>4 DEF PromoteNew, Promotable
<1>5. ASSUME NEW r \in Requests, DeleteUser(r) PROVE role'[t] \in {role[t], "gone"}
  BY <1>1, <1>5 DEF DeleteUser
<1> QED
  BY <1>1, <1>2, <1>3, <1>4, <1>5, RoleWriters

\* Every step keeps OldKnown.
LEMMA OldStep == Inv /\ OldKnown /\ [Next]_vars => OldKnown'
<1> SUFFICES ASSUME Inv, OldKnown, [Next]_vars, NEW p \in Requests,
                    req'[p].pc \in Known, req'[p].old # "new"
             PROVE  role'[req'[p].target] \in {req'[p].old, "gone"}
  BY DEF OldKnown
<1>1. Placed(req[p]) /\ req[p] \in Request
  BY DEF Inv, Reqs, Placed
<1>2. CASE /\ req[p].pc \in Known
           /\ req'[p].target = req[p].target /\ req'[p].old = req[p].old
  BY <1>2, OldStays
<1>3. CASE ReadRole(p)
  <2>1. role[req[p].target] # "gone"
    BY <1>1, <1>3 DEF ReadRole, Answered, Holds, Idle, Known, Deciding, Inv, Reqs
  <2> DEFINE l == IF role[req[p].target] = "superuser" /\ req[p].new # "superuser"
                    THEN "count" ELSE "update"
             q == [req[p] EXCEPT !.old = role[req[p].target], !.pc = l]
  <2>2. req'[p] = q /\ role' = role
    BY <1>3, <2>1 DEF ReadRole, Holds, Inv, Reqs
  <2>3. q.target = req[p].target /\ q.old = role[req[p].target]
    BY <1>1 DEF Request
  <2> QED
    BY <2>2, <2>3
<1>4. CASE CountSuperusers(p)
  <2>1. req[p].pc = "count" /\ Goto(p, "update")
    BY <1>1, <1>4 DEF CountSuperusers, At, Answered, Holds, Idle, Known, Deciding, Inv, Reqs
  <2>2. req'[p].target = req[p].target /\ req'[p].old = req[p].old
    BY <1>1, <2>1 DEF Goto, Holds, Inv, Reqs, Request
  <2> QED
    BY <2>1, <2>2, OldStays DEF Known
<1> QED
  BY <1>2, <1>3, <1>4, DecidingSteps

\* A commit that lowers its target knows that it does, and ends the sessions.
LEMMA CommitRevokes ==
    ASSUME Inv, OldKnown, [Next]_vars, NEW r \in Requests, Lowers(r),
           role'[req[r].target] # "gone", req[r].old # "new", ~req[r].late
    PROVE  req[r].target \notin signedIn'
<1> DEFINE t == req[r].target
<1>1. /\ req[r].pc = "commit" /\ req'[r].pc = "idle"
      /\ t \in Users /\ role \in [Users -> Roles \cup {"gone"}]
      /\ role' # role
  BY DEF Lowers, At, Inv, Reqs, Placed, Rows, Level
<1>2. CommitRole(r)
  <2>1. ASSUME NEW p \in Requests, PromoteNew(p) \/ DeleteUser(p) PROVE FALSE
    <3>1. p # r
      BY <1>1, <2>1 DEF PromoteNew, DeleteUser, At
    <3>2. req'[r] = req[r]
      BY <2>1, <3>1 DEF PromoteNew, DeleteUser, Answered, Goto, Holds, Inv, Reqs
    <3> QED
      BY <1>1, <3>2
  <2>2. ASSUME NEW p \in Requests, CommitRole(p) PROVE p = r
    BY <1>1, <2>2, OneDecides DEF CommitRole, At, Serialized
  <2> QED
    BY <1>1, <2>1, <2>2, RoleWriters
<1>3. role' = [role EXCEPT ![t] = req[r].new] /\ signedIn' = LeftSessions(r)
  BY <1>1, <1>2 DEF CommitRole
<1>4. role'[t] = req[r].new /\ Level(req[r].new) < Level(role[t])
  BY <1>1, <1>3 DEF Lowers
<1>5. role[t] = req[r].old
  <2>1. role[t] \in {req[r].old, "gone"}
    BY <1>1 DEF OldKnown, Known, Deciding
  <2>2. Level("gone") = 0 /\ Level(req[r].new) \in 0..4
    BY DEF Level
  <2> QED
    BY <1>4, <2>1, <2>2
<1>6. Demotes(r)
  BY <1>4, <1>5 DEF Demotes
<1> QED
  BY <1>3, <1>6 DEF LeftSessions

\* For any members and requests in flight, a role change that lowers a member
\* who was not pending when it started ends the sessions (role.go).
THEOREM DemotionsRevoke == Spec => DemotionRevokes
<1>1. Init => OldKnown
  BY DEF Init, OldKnown, Idle, Known, Deciding
<1>2. ASSUME Inv, OldKnown, [Next]_vars
      PROVE  [\A r \in Requests :
                 Lowers(r) /\ role'[req[r].target] # "gone" /\ req[r].old # "new"
                     /\ ~req[r].late
                   => req[r].target \notin signedIn']_vars
  BY <1>2, CommitRevokes
<1> QED
  BY <1>1, <1>2, OldStep, Invariance, PTL DEF Spec, DemotionRevokes
-----------------------------------------------------------------------------
(* Waiting for locks.  A role change takes the advisory lock and then that  *)
(* of one row; every other statement waits with no lock in hand.            *)

\* The holder of the advisory lock does not wait for it, and the holder of a row
\* lock does not wait at all: it has revoke, commit or edit ahead.
LEMMA WaitsEnd ==
    ASSUME Inv, NEW r \in Requests, NEW s \in Requests, NEW t \in Requests,
           NEW u \in Requests, WaitsFor(r, s), WaitsFor(s, t)
    PROVE  ~WaitsFor(t, u)
<1>1. ASSUME NEW p \in Requests, NEW q \in Requests, WaitsFor(p, q),
             req[p].pc \in RowStatements
      PROVE  req[q].pc \in RowLocked
  <2>1. req[p].target \in Users /\ rowLock[req[p].target] = q
    BY <1>1 DEF Inv, Reqs, Placed, WaitsFor, At, RowStatements
  <2> QED
    BY <2>1, Sentinels DEF Inv, Locks
<1>2. req[s].pc \notin RowLocked
  BY DEF WaitsFor, At, RowStatements, RowLocked
<1>3. At(r, "lock") /\ advisory = s
  BY <1>1, <1>2 DEF WaitsFor
<1>4. req[s].pc \in RowStatements
  BY <1>3 DEF Inv, Locks, Serialized, WaitsFor, At
<1>5. req[t].pc \in RowLocked
  BY <1>1, <1>4
<1> QED
  BY <1>5 DEF WaitsFor, At, RowStatements, RowLocked

\* For any members and requests in flight, no requests wait for each other in a
\* circle: role changes, verifications, edits and erasures cannot deadlock on the
\* advisory lock and the locks on rows (role.go, member.go, handler.go).
THEOREM LocksNeverCycle == Spec => []NoWaitCycle
<1>1. Inv => NoWaitCycle
  <2> SUFFICES ASSUME Inv, NEW S \in SUBSET Requests, S # {},
                      \A r \in S : \E s \in S : WaitsFor(r, s)
               PROVE  FALSE
    BY DEF NoWaitCycle
  <2>1. PICK r \in S : TRUE
    OBVIOUS
  <2>2. PICK s \in S : WaitsFor(r, s)
    OBVIOUS
  <2>3. PICK t \in S : WaitsFor(s, t)
    OBVIOUS
  <2>4. PICK u \in S : WaitsFor(t, u)
    OBVIOUS
  <2> QED
    BY <2>2, <2>3, <2>4, WaitsEnd
<1> QED
  BY <1>1, Invariance, PTL
=============================================================================
