---------------------------- MODULE MemberAdmin ----------------------------
(***************************************************************************)
(* Roles and the administration of members: internal/admin/{role,member,   *)
(* handler}.go, with the erasure of an account (internal/auth/handler.go), *)
(* which changes the same rows without the locks of this package.          *)
(*                                                                         *)
(* A request takes one step per SQL statement.  Two of the handlers are    *)
(* transactions at READ COMMITTED: what they write is invisible until they *)
(* commit, and the row locks and the advisory lock they take are held      *)
(* until they commit or roll back.  A statement that has to wait for a     *)
(* lock is a step that is not enabled.                                     *)
(***************************************************************************)
EXTENDS Naturals, FiniteSets

CONSTANTS
    Requests,   \* requests the server can have in flight
    Users,      \* rows of the table "users"
    NoUser,     \* the target of a request that has none
    NoRequest   \* the holder of a free lock

ASSUME NoUserIsNone    == NoUser \notin Users
ASSUME NoRequestIsNone == NoRequest \notin Requests

VARIABLES
    role,       \* user -> committed role, or "gone"
    signedIn,   \* users that have a verified, unexpired session
    advisory,   \* holder of the advisory lock roleLockKey
    rowLock,    \* user -> holder of the lock on the row
    req,        \* request -> where its handler is and what it holds
    \* history, read by properties only
    touched,    \* the last change by a verify or an update: {<<viewer, role>>}
    erasedSuper \* a superuser has erased the own account

history == <<touched, erasedSuper>>
vars == <<role, signedIn, advisory, rowLock, req, history>>

-----------------------------------------------------------------------------
(* Roles.                                                                   *)

Roles == {"new", "user", "admin", "superuser"}

\* types.RoleLevel: unknown roles are below every level.
Level(x) == CASE x = "superuser" -> 4
              [] x = "admin"     -> 3
              [] x = "user"      -> 2
              [] x = "new"       -> 1
              [] OTHER           -> 0

Superusers == {u \in Users : role[u] = "superuser"}

\* roleVisibleToViewer
Visible(viewer, x) == Level(viewer) >= Level("superuser") \/ x \in {"new", "user"}

\* getMemberForViewer: an absent row and one out of scope look the same.
InScope(viewer, u) == role[u] # "gone" /\ Visible(viewer, role[u])

-----------------------------------------------------------------------------
(* Requests.  "viewer" is the role the middleware resolved on admission (if *)
(* the handler uses it), "old" the role setRole read; "late" says that a    *)
(* session of the target was inserted after the DELETE of the transaction.  *)

Idle == [pc |-> "idle", viewer |-> "none", target |-> NoUser, new |-> "none",
         old |-> "none", late |-> FALSE]

At(r, l) == req[r].pc = l
Holds(r, q) == req' = [req EXCEPT ![r] = q]
Goto(r, l) == Holds(r, [req[r] EXCEPT !.pc = l])
Answered(r) == Holds(r, Idle)

\* sessionRequired and roleRequired: a signed-in user of the level asked for.
Admitted(r, a, least, q) ==
    /\ At(r, "idle")
    /\ a \in signedIn
    /\ Level(role[a]) >= Level(least)
    /\ Holds(r, q)
    /\ UNCHANGED <<role, signedIn, advisory, rowLock, history>>

\* COMMIT and ROLLBACK give back what the transaction holds.
Released(r) ==
    /\ advisory' = IF advisory = r THEN NoRequest ELSE advisory
    /\ rowLock' = [u \in Users |-> IF rowLock[u] = r THEN NoRequest ELSE rowLock[u]]

\* Not the code: the transaction is left open.
NotReleased(r) == UNCHANGED <<advisory, rowLock>>

\* The deferred Rollback of a transaction that ends early.
RolledBack(r) == Released(r)

Unlocked(u) == rowLock[u] = NoRequest

-----------------------------------------------------------------------------
(* PUT /admin/users/:id/role: setRole, superusers only.                     *)

RoleRequest(r, a, u, new) ==
    Admitted(r, a, "superuser", [Idle EXCEPT !.pc = "lock", !.target = u, !.new = new])

\* Not the code: role changes are not serialized.
AdvisoryIgnored == TRUE

\* pg_advisory_xact_lock
AdvisoryFree == advisory = NoRequest

TakeAdvisoryLock(r) ==
    /\ At(r, "lock")
    /\ AdvisoryFree
    /\ advisory' = r
    /\ Goto(r, "read")
    /\ UNCHANGED <<role, signedIn, rowLock, history>>

\* The target's committed role, without a row lock; 404 if there is none.
\* Only a demotion of a superuser goes by the last-superuser guard.
ReadRole(r) ==
    /\ At(r, "read")
    /\ LET old == role[req[r].target] IN
       \/ /\ old = "gone"
          /\ Answered(r) /\ RolledBack(r)
       \/ /\ old # "gone"
          /\ Holds(r, [req[r] EXCEPT !.old = old,
                         !.pc = IF old = "superuser" /\ req[r].new # "superuser"
                                  THEN "count" ELSE "update"])
          /\ UNCHANGED <<advisory, rowLock>>
    /\ UNCHANGED <<role, signedIn, history>>

\* Not the code: the guard lets the last superuser go.
LastSuperuserOffByOne == Cardinality(Superusers) < 1

\* ErrLastSuperuser
LastSuperuser == Cardinality(Superusers) <= 1

CountSuperusers(r) ==
    /\ At(r, "count")
    /\ \/ /\ LastSuperuser
          /\ Answered(r) /\ RolledBack(r)
       \/ /\ ~LastSuperuser
          /\ Goto(r, "update")
          /\ UNCHANGED <<advisory, rowLock>>
    /\ UNCHANGED <<role, signedIn, history>>

\* demoted: computed from the role that was read, before the row was locked.
Demotes(r) == Level(req[r].new) < Level(req[r].old)

\* UPDATE users SET role: takes the row lock, if there still is a row.
UpdateRole(r) ==
    /\ At(r, "update")
    /\ LET u == req[r].target IN
         /\ Unlocked(u)
         /\ rowLock' = IF role[u] = "gone" THEN rowLock
                                           ELSE [rowLock EXCEPT ![u] = r]
    /\ Goto(r, IF Demotes(r) THEN "revoke" ELSE "commit")
    /\ UNCHANGED <<role, signedIn, advisory, history>>

\* DELETE FROM sessions of the target, as part of the transaction.
RevokeSessions(r) ==
    /\ At(r, "revoke")
    /\ Goto(r, "commit")
    /\ UNCHANGED <<role, signedIn, advisory, rowLock, history>>

\* Who is signed in once the transaction is visible.
LeftSessions(r) ==
    IF Demotes(r) /\ ~req[r].late THEN signedIn \ {req[r].target} ELSE signedIn

CommitRole(r) ==
    /\ At(r, "commit")
    /\ role' = IF rowLock[req[r].target] = r
                 THEN [role EXCEPT ![req[r].target] = req[r].new] ELSE role
    /\ signedIn' = LeftSessions(r)
    /\ Answered(r) /\ Released(r)
    /\ UNCHANGED history

-----------------------------------------------------------------------------
(* POST /admin/users/:id/verify: verifyMember, admins and up.               *)

VerifyRequest(r, a, u) ==
    Admitted(r, a, "admin", [Idle EXCEPT !.pc = "scope", !.target = u, !.viewer = role[a]])

\* Out of scope (404), not pending (409), or to be promoted.
ReadScope(r) ==
    /\ At(r, "scope")
    /\ IF InScope(req[r].viewer, req[r].target) /\ role[req[r].target] = "new"
         THEN Goto(r, "promote")
         ELSE Answered(r)
    /\ UNCHANGED <<role, signedIn, advisory, rowLock, history>>

\* Not the code: the UPDATE trusts the role that was read.
StillThere(u) == role[u] # "gone"

\* UPDATE users SET role = 'user' WHERE id = ? AND role = 'new'
Promotable(u) == role[u] = "new"

PromoteNew(r) ==
    /\ At(r, "promote")
    /\ LET u == req[r].target IN
         /\ Unlocked(u)
         /\ \/ /\ Promotable(u)
               /\ role' = [role EXCEPT ![u] = "user"]
               /\ touched' = {<<req[r].viewer, role[u]>>}
               /\ Answered(r)
            \/ /\ ~Promotable(u)
               /\ Goto(r, "recheck")
               /\ UNCHANGED <<role, touched>>
    /\ UNCHANGED <<signedIn, advisory, rowLock, erasedSuper>>

\* 404 or 409, told apart by another look at the row.
RecheckScope(r) ==
    /\ At(r, "recheck")
    /\ Answered(r)
    /\ UNCHANGED <<role, signedIn, advisory, rowLock, history>>

-----------------------------------------------------------------------------
(* PUT /admin/users/:id: updateMemberForViewer, admins and up.              *)

UpdateRequest(r, a, u) ==
    Admitted(r, a, "admin", [Idle EXCEPT !.pc = "select", !.target = u, !.viewer = role[a]])

\* Not the code: the row is read without FOR UPDATE.
SelectedPlainly(r, u) == rowLock' = rowLock

\* SELECT ... FOR UPDATE
SelectedForUpdate(r, u) == rowLock' = [rowLock EXCEPT ![u] = r]

\* Not the code: an edit waits for the role changes once it has its row.
SelectThenLock(r) ==
    /\ At(r, "select") /\ Unlocked(req[r].target)
    /\ SelectedForUpdate(r, req[r].target)
    /\ Goto(r, "lock")
    /\ UNCHANGED <<role, signedIn, advisory, history>>

SelectMember(r) ==
    /\ At(r, "select")
    /\ LET u == req[r].target IN
         /\ Unlocked(u)
         /\ \/ /\ InScope(req[r].viewer, u)
               /\ SelectedForUpdate(r, u)
               /\ Goto(r, "edit")
            \/ /\ ~InScope(req[r].viewer, u)
               /\ Answered(r)
               /\ UNCHANGED rowLock
    /\ UNCHANGED <<role, signedIn, advisory, history>>

\* ApplyProfileUpdate and COMMIT, or an update that is refused and ROLLBACK.
\* The role is not one of the columns it writes.
EditMember(r) ==
    /\ At(r, "edit")
    /\ \/ touched' = {<<req[r].viewer, role[req[r].target]>>}
       \/ UNCHANGED touched
    /\ Answered(r) /\ Released(r)
    /\ UNCHANGED <<role, signedIn, erasedSuper>>

-----------------------------------------------------------------------------
(* POST /auth/delete: handleDeleteAccount, any signed-in user.              *)

EraseRequest(r, a) ==
    Admitted(r, a, "new", [Idle EXCEPT !.pc = "erase", !.target = a])

\* DELETE FROM users, with its cascade.
DeleteUser(r) ==
    /\ At(r, "erase")
    /\ LET u == req[r].target IN
         /\ Unlocked(u)
         /\ erasedSuper' = (erasedSuper \/ role[u] = "superuser")
         /\ role' = [role EXCEPT ![u] = "gone"]
         /\ signedIn' = signedIn \ {u}
    /\ Answered(r)
    /\ UNCHANGED <<advisory, rowLock, touched>>

-----------------------------------------------------------------------------
(* The environment.                                                         *)

\* A login inserts a session, the first of a user or one that matters: a
\* further one while a role change of the user is about to commit.  Its foreign
\* key waits for a FOR UPDATE on the row (an edit), not for the UPDATE of a role.
SignIn(u) ==
    /\ role[u] # "gone"
    /\ u \in signedIn =>
         \E r \in Requests : req[r].target = u /\ At(r, "commit")
    /\ \A r \in Requests : rowLock[u] = r => ~At(r, "edit")
    /\ signedIn' = signedIn \cup {u}
    /\ req' = [r \in Requests |->
                 IF req[r].target = u /\ At(r, "commit")
                   THEN [req[r] EXCEPT !.late = TRUE] ELSE req[r]]
    /\ UNCHANGED <<role, advisory, rowLock, history>>

\* The last session of a user is logged out or expires.
SignOut(u) ==
    /\ u \in signedIn
    /\ signedIn' = signedIn \ {u}
    /\ UNCHANGED <<role, advisory, rowLock, req, history>>

\* A statement fails (500), or the process or the client goes away: the
\* transaction, if any, is rolled back.
Stops(r) ==
    /\ ~At(r, "idle")
    /\ Answered(r) /\ Released(r)
    /\ UNCHANGED <<role, signedIn, history>>

\* Nothing is in flight: every account may have been erased.
Quiescent ==
    /\ \A r \in Requests : At(r, "idle")
    /\ UNCHANGED vars

-----------------------------------------------------------------------------
\* A directory with at least one superuser.
Init ==
    /\ role \in [Users -> Roles]
    /\ Superusers # {}
    /\ signedIn \in SUBSET Users
    /\ advisory = NoRequest
    /\ rowLock = [u \in Users |-> NoRequest]
    /\ req = [r \in Requests |-> Idle]
    /\ touched = {}
    /\ erasedSuper = FALSE

Arrival(r) ==
    \E a \in Users :
        \/ \E u \in Users, new \in Roles : RoleRequest(r, a, u, new)
        \/ \E u \in Users : VerifyRequest(r, a, u) \/ UpdateRequest(r, a, u)
        \/ EraseRequest(r, a)

SetRole(r) ==
    \/ TakeAdvisoryLock(r) \/ ReadRole(r) \/ CountSuperusers(r) \/ UpdateRole(r)
    \/ RevokeSessions(r) \/ CommitRole(r)

VerifyMember(r) == ReadScope(r) \/ PromoteNew(r) \/ RecheckScope(r)

UpdateMember(r) == SelectMember(r) \/ EditMember(r)

Handler(r) == SetRole(r) \/ VerifyMember(r) \/ UpdateMember(r) \/ DeleteUser(r)

Next ==
    \/ \E r \in Requests : Arrival(r) \/ Handler(r) \/ Stops(r)
    \/ \E u \in Users : SignIn(u) \/ SignOut(u)
    \/ Quiescent

Spec == Init /\ [][Next]_vars

\* PostgreSQL queues the waiters of a lock, so a statement that waits is
\* granted the lock if it is free again and again; the others just run.
FairSpec == Spec /\ \A r \in Requests : SF_vars(Handler(r))

-----------------------------------------------------------------------------
(* Properties.                                                              *)

Labels == {"idle", "lock", "read", "count", "update", "revoke", "commit",
           "scope", "promote", "recheck", "select", "edit", "erase"}

Request == [pc : Labels, viewer : {"none", "admin", "superuser"},
            target : Users \cup {NoUser}, new : Roles \cup {"none"},
            old : Roles \cup {"none"}, late : BOOLEAN]

\* The statements that run with the advisory lock, resp. with a row lock.
Serialized == {"read", "count", "update", "revoke", "commit"}
RowLocked == {"revoke", "commit", "edit"}

\* Every variable has its type, and a lock is held by exactly the request whose
\* transaction took it: no path out of a handler leaves one behind.
TypeOK ==
    /\ role \in [Users -> Roles \cup {"gone"}]
    /\ signedIn \subseteq {u \in Users : role[u] # "gone"}
    /\ req \in [Requests -> Request]
    /\ \A r \in Requests : At(r, "idle") <=> req[r] = Idle
    /\ \A r \in Requests : advisory = r <=> req[r].pc \in Serialized
    /\ advisory \in Requests \cup {NoRequest}
    /\ \A u \in Users : rowLock[u] # NoRequest =>
         /\ rowLock[u] \in Requests
         /\ req[rowLock[u]].pc \in RowLocked /\ req[rowLock[u]].target = u
    /\ touched \subseteq {"admin", "superuser"} \X Roles
    /\ erasedSuper \in BOOLEAN

\* However many superusers demote each other at once, one remains, unless a
\* superuser has erased the own account.
SuperuserRemains == ~erasedSuper => Superusers # {}

\* An admin changes new and verified members only: a target that is promoted
\* after the scope check is not edited or verified with the scope it had.
AdminStaysInScope == \A e \in touched : Visible(e[1], e[2])

\* The statement of r needs a lock that s holds.
RowStatements == {"update", "promote", "select", "erase"}
WaitsFor(r, s) ==
    \/ At(r, "lock") /\ advisory = s
    \/ req[r].pc \in RowStatements /\ rowLock[req[r].target] = s

\* No requests wait for each other in a circle: in every set of requests is one
\* that waits for nobody in the set.  A role change takes the advisory lock before
\* that of a row, and nothing else that waits holds a lock.
NoWaitCycle ==
    \A S \in SUBSET Requests :
        S # {} => \E r \in S : \A s \in S : ~WaitsFor(r, s)

\* The role change r commits lowers its target.
Lowers(r) ==
    /\ At(r, "commit") /\ req'[r].pc = "idle"
    /\ Level(role'[req[r].target]) < Level(role[req[r].target])

\* A role change that lowers a member who was not pending when it started ends
\* every session the member had: no other role change comes in between.
DemotionRevokes ==
    [][\A r \in Requests :
         Lowers(r) /\ role'[req[r].target] # "gone" /\ req[r].old # "new"
             /\ ~req[r].late
           => req[r].target \notin signedIn']_vars

\* Every request is answered: a statement that waits for a lock gets it.
EveryRequestAnswered ==
    \A r \in Requests : ~At(r, "idle") ~> At(r, "idle")

-----------------------------------------------------------------------------
(* What comments of the code say and its interleavings do not keep.         *)

\* The guard against "a demotion [that] would leave zero superusers" is
\* "race-free".
DemotionLeavesSuperuser ==
    [][\A u \in Users :
         role[u] = "superuser" /\ role'[u] \in Roles \ {"superuser"}
           => Superusers' # {}]_role
=============================================================================
