# tenkei-register: specification, model checking and proofs

tenkei-register is the registration and membership service of an aikido dojo:
a Go HTTP server in front of PostgreSQL. Members register, log in (optionally
with TOTP as a second factor), edit their profile, reset their password and can
erase their account; admins verify and edit members; superusers manage roles.
This directory holds TLA+ modules translated from the source, the TLC
configurations that check them, and proofs checked by TLAPS.

All state of the service is in the database. The process keeps nothing between
two requests (no caches, no background workers), and several instances may run.
What can go wrong is therefore mostly of one kind: a handler
is a sequence of SQL statements, each atomic by itself, and other requests come
between any two of them; what the handler read before is stale afterwards, and
the request can fail or vanish half-way. Every module is built around that:

* a **request** is a process with a program counter `pc` and the locals its
  handler holds; it takes **one step per SQL statement** (or reading of the
  clock), named after the function that issues the statement;
* a request can **stop at every statement** (a failed query, a client that goes
  away and cancels the request's context, a process that dies): `Refused`,
  `Stops`;
* a statement is guarded by its `WHERE` clause, the unique indexes and the
  foreign keys, and, inside a transaction, by the locks it waits for.

Registration alone goes beyond this: its handler starts goroutines, and its emails
must survive the client and the signal that ends the process, so it is modelled
inside the process that serves it.

## Components, their state and what makes them correct

| Component | State | Operations | Hard because | Correct when |
|---|---|---|---|---|
| Two-step login (`auth/{handler,twofactor,verifier}.go`) | `users.totp_*`, rows of `sessions` | login, verify, lockout | check, counter, rotation and lockout are separate statements | one session per pending login and per code; a spent budget ends the login |
| TOTP lifecycle (`auth/twofactor.go`) | `users.totp_secret/enabled/last_counter` | enroll, confirm, disable | the secret a handler checked may not be the stored one any more | an armed account has a secret, and never a swapped one |
| Session store (`auth/session.go`) | rows of `sessions` | Create, Validate, ValidatePending, RotatePending, RecordTOTPFailure, Invalidate(All) | called by all others, expiry at any time | pending tokens are never promoted, dead ones never revive |
| Password reset (`auth/reset.go`) | `password_reset_tokens`, password, sessions | RequestReset, ConfirmReset | delete-then-insert with retry; consume, write, wipe | single use, only the newest link works, honest answers |
| Member administration (`admin/{role,member}.go`) | `users.role`, sessions, advisory and row locks | setRole, verifyMember, updateMemberForViewer | transactions at READ COMMITTED, and writers that take no lock | a superuser remains, scope is respected, demotion signs out |
| Credentials and profile (`auth/handler.go`, `auth/database.go`) | the account's row, sessions | password change, email change, profile edit | whole-row writes from a stale read; commit before containment | changes are not lost, other sessions end, or the answer warns |
| Registration (`register/register.go`) | `users`, unique email index | submit, two emails in parallel | uniqueness decided by the index; goroutines that may panic | one account per address, one answer, both emails accounted for |
| Input rules (`types/*.go`, `admin/database.go`, migrations 000007, 000009) | phone and category columns | normalise, judge, merge; rewrite older rows | one rule spelled in Go and in SQL; boundaries | migration and handlers agree, no row is stuck, no overflow |
| Process (`server.go`, `http.go`, `config.go`) | configuration, contexts of requests | boot, serve, signal, drain, crash | settings judged twice; the signal cancels requests in flight | what boots has what it was asked for; a drain loses nobody |
| Mailer, Turnstile (`mailer/`, `turnstile/`) | none | send, verify | deadlines, refusals, panics | failures are told apart; verification fails closed |
| Middleware, TOTP cryptography, audit log | none that others read | - | - | - |

Interactions: the account's row is shared by login, TOTP, reset, profile and
administration. The erasure of an account (`POST /auth/delete`) cascades to
sessions and tokens and competes with every other component; it takes none of
their locks. Sessions are created by login and 2FA and ended by logout, reset,
demotion and erasure.
The middleware looks at the session once, when a request arrives. Every request's
context is derived from the one SIGTERM cancels; only registration's emails are
detached from it.

`PROJECT.json` lists the components with their status, the hazards line by line
with the properties aimed at them, and the source lines of every definition.

## Modules

### TwoFactor (and MCTwoFactor, TwoFactorProofs)

One account, its secrets and its sessions. No statement of these handlers
touches two users, so one account is the general case.

| Variable | Code |
|---|---|
| `user` | `totp_secret`, `totp_enabled`, `totp_last_counter`, and whether the row exists |
| `sessions` | rows of `sessions`: pending (`verified = FALSE`) or verified, `totp_attempts`; expired and deleted rows are `dead`, as every statement asks for `expires_at > NOW()` |
| `req` | what the handler holds: cookie, fetched secret, accepted counter |
| `now` | Unix time / 30 s |
| `generated` | secrets handed out; a random secret or token is never produced twice |
| `epoch`, `rotations`, `proven`, `spared` | history, read by properties only |

`Login` / `CreateSession` are step 1 of the login; `FetchUser`, `CheckCode`,
`AcceptCounter` the statements that verify, confirm, disable and erase share;
`RotatePending`, `RecordFailure`, `LockOut` the rest of step 2; `StoreSecret`,
`EnableTOTP`, `WipeTOTP` the enrollment lifecycle; `DeleteUser`, `Logout`,
`Expire`, `Tick` the rest. A code is known by the step it was computed for;
`CheckCode` accepts any step within `MaxSkew`, or rejects.

### PasswordReset (and MCPasswordReset, PasswordResetProofs)

One account, its reset tokens, password and sessions. `Supersede` and
`InsertToken` are the two statements of `issueToken`, with the partial unique
index as `Insertable` and the bounded retry as `Retry`; `ConsumeToken`,
`WritePassword`, `WipeSessions` are the three of `ConfirmReset`, `ClassifyToken`
what follows a refusal. Each reset sets a password of its own, named after its
token. `Login` and `CreateSession` are the two statements of a login without 2FA.

### MemberAdmin (and MCMemberAdmin, MemberAdminProofs)

Several members with their roles. `setRole` is a transaction: advisory lock, read,
count, update (which takes the row lock), revocation, commit; its writes become
visible at the commit, and `late` keeps apart the sessions inserted after the
transaction's DELETE, which it does not see. `updateMemberForViewer` holds a
`FOR UPDATE` lock from scope check to commit. `verifyMember` takes neither.
A statement that would wait for a lock is a disabled action.

### Accounts (and MCAccounts, AccountsProofs)

Several members, their addresses, passwords and sessions. `row` holds the address
and the password of each member, `rowLock` the admin's transaction that has selected
it. Two kinds of update share `ApplyProfileUpdate`: a member's own reads the row
(`FetchUser`), counts rivals of a new address (`CountEmail`) and writes every editable
column (`UpdateOwnRow`) in three autocommitted statements; an admin's, which may not
carry an address, selects `FOR UPDATE` (`SelectMember`) and writes and commits
(`EditMember`). `Merged` is what the read row becomes; `Storable` is the unique index
on `lower(email)`. A change of address or password goes on to `KillSessions` and
`Reissue` (`killAndReissue`), whose failures are answered with a warning (`Warned`).
`Register` and `InsertUser` are the registration up to its answer, without the emails.
Of the editable columns only the address is kept; passwords are used once.

### Server and Registration (and MCRegistration, RegistrationProofs)

`Server` is the process: `phase` is how far it has come, `cfg` the configuration it
finds, `ctx` the context of each request in flight. `LoadConfig`, `OpenDatabase`,
`MakeHandler`, `Listen` are the steps of the boot; `Signal` cancels the contexts,
`BeginShutdown` and `Stop` drain for at most 30 seconds, `Crash` and `Restart` are the
platform's. Several settings are judged by `LoadConfig` (`Loads`) and again where
they are used (`MailerFor`, `TotpMounted`, `Verifies`), each translated from its own code.

`Registration` extends it with `POST /v1/register`: `VerifyHuman` asks Turnstile,
`Validate` may refuse the form, `InsertUser` stores the row (and may hide that it did);
`Render`, `Spawn`, `Wait`, `Record` and `Created` are the handler in
`sendRegistrationEmails`, none of which asks for the request's context; `Send`, `Recover` and `Done` the goroutine of one email.
`wg` is the WaitGroup, `errs` what the goroutines leave, `audit` the rows that record
failures. `Categorize` is the mailer's classification of a failure, which here is what
the SDK leaves behind: whether the deadline passed, the status, a network error.

### PhoneNumbers and Profiles (and MCProfiles, PhoneNumbersProofs, ProfilesProofs)

`PhoneNumbers` has both spellings of the phone rule, character by character because
the rule is about characters: `NormalizePhone` and the `CASE` of migration 000007
(`Backfilled`); every separator is "-", every other character "a".
`Stripped` is a recursive function of the beginnings of a text, so that it can be proved about. `Profiles` has the
columns with rules of their own: the number, the category, and which fields of the
category's block are filled. `Migrate` rewrites what earlier releases left,
`Register`, `Load`/`Apply` (a member's update, in two statements) and `AdminEdit`
(in one, as it holds the row) write it afterwards. `Merged`, `Accepts` and
`ColumnsWritten` are the three parts of `ApplyProfileUpdate`.

### Pagination

The arithmetic of the member list, with theorems about it and no state. MCMemberAdmin
extends it, so that TLC evaluates its assumption for the limits of the code.

### OneTimeSecrets

An abstract specification: secrets that are issued once, work at most once, and never
again when they have been used or withdrawn. PasswordReset implements it with its
tokens, of which at most one is usable (`TokensAreOneTime`), TwoFactor with its pending
sessions (`PendingIsOneTime`).

## Runs

| Run | Question | States |
|---|---|---|
| `twofactor_codes` | two logins of one armed account: rotation and replay | 1.0 M |
| `twofactor_enrollment` | enroll, confirm, disable, verify, lockout against each other; the one-time secrets | 0.8 M |
| `password_reset` | forgot, reset, login, erasure against each other | 0.8 M |
| `member_admin` | role changes, verification, edits, erasure with locks; can they deadlock? | 1.8 M |
| `member_admin_liveness` | does everybody who waits for a lock get it? | 13 k |
| `accounts` | registrations, updates and credential changes of two members | 0.5 M |
| `registration` | submissions, emails, and the life of the process around them | 0.3 M |
| `profiles` | phone and category through migration, registration and updates | 0.5 M |
| four violation runs | see "Where the code does not do what it says" | - |

Every property of a passing run has a mutant in `PROJECT.json`: a plausible bug
(a dropped guard, an index that is missing, a lock that is not taken) under
which the same run finds the property violated. The mutated forms stand in the
modules, marked "Not the code", before the definitions they replace.

### Bounds

* **Requests**: two at a time. A request that has answered is free for the next,
  so the number of requests over a behaviour is not bounded; the hazards are all
  races of two. The liveness run has three: one that holds the row, one that
  holds the advisory lock and waits for the row, one that waits for the advisory lock.
* **SessionIds, Tokens, Secrets** bound how many can be created. `twofactor_codes`
  has four session tokens (two pending, two rotated), `password_reset` three reset
  tokens, so that all three tries of an issuing request can be lost to a rival
  (one that is superseded, one that wins, and one more), and one session,
  `twofactor_enrollment` two secrets and two sessions, enough for every race on one
  pending row that `PendingIsOneTime` is about; the theorem has any number.
* **FirstStep .. LastStep** bounds the clock (one tick), **AttemptBound** the
  failures after which no further verify starts on a row, **MaxAttempts** is 1 or 2
  instead of 5. What is decided is "at the limit or below"; two failures are
  the least for which counting matters.
* **Users**: three members for administration (a superuser who changes the role of a
  member while an admin edits or verifies that member), one for liveness (locks on
  different rows do not interact), two members and two addresses for `accounts`.
* `registration`: two requests and one address (the second is a duplicate, before or
  after the first is answered), a process that is started twice, and two failures of the
  mailer: one where the deadline, a status and a network error compete for the category,
  one without a response. A configuration varies in one concern at a time (Turnstile,
  mailer, TOTP, connection string, bypass), as each is judged by itself; clients come
  to the complete one, with and without Turnstile.
* `profiles`: a behaviour is about the categories (every legacy block, two updates in
  flight, six blocks of which two break every rule) or about the numbers. Those are
  8173 texts: all heads of up to three of the characters the rules tell apart, with and
  without a plus, followed by none or 6 to 15 nines, which crosses every length at
  which a pattern begins or ceases to match. One member is enough: no statement of
  these handlers reads another's row for these columns.
* The limits of the member list are the code's; the largest int is taken as 2^31 - 1,
  the smallest a Go `int` has.
* Symmetry over requests, tokens, secrets and members is used for safety only.

The processes may stop when nothing is in flight (`Quiescent`); deadlock is
checked everywhere, so a request can always go on or fail.

### Fairness

`MemberAdmin!FairSpec` has strong fairness of each request's next statement.
PostgreSQL queues the waiters of a lock, so a waiter is granted a lock that is freed
again and again; the statements that do not wait are run by the Go scheduler.
Failures (`Stops`) are not fair: nothing relies on them.

`Registration!FairSpec` has weak fairness of each handler and of each goroutine: a
goroutine that can run is run, and the calls that leave the process return, because
they carry timeouts of their own (5 s for Turnstile and for each email, the driver's
for a statement). Nothing else is fair: the process need not boot, stop or restart.

## What is checked

* `OneRotationPerPending`, `NoPromotion`: the comment of `RotatePending` (the token
  that was half a credential never becomes a full one; double rotation deletes nothing),
  and that no session comes back from the dead.
* `OneSessionPerCode`: the replay guard, across several pending sessions, the skew
  window and the clock, between two resets of the counter.
* `OverBudgetIsDoomed`: what the lockout does guarantee: a row over its budget is
  about to be deleted by a request in flight, or that DELETE was lost.
* `EnabledHasSecret`, `NoSilentSwap`: nobody is locked out by a confirm that comes
  late; an armed secret is only ever wiped.
* `SingleUse`, `OnlyNewestUsable`, `TruthfulRefusal`, `RetriesAreLostToRivals`:
  tokens; the last says that a request gives up for contention only after it has
  lost three times to tokens stored by others.
* `SuccessMeansWritten`, `OldSessionsEnd`: what an answered reset has done.
* `SuperuserRemains`, `AdminStaysInScope`, `DemotionRevokes`, and the `TypeOK` of
  MemberAdmin, which says that a lock is held by exactly the request whose
  transaction took it.
* `EmailsUnique`: the address is unique because of the index, not of the count before it.
* `PasswordStaysReplaced`: an update that writes a row it has read long before does not
  bring a password back (the column list of `ApplyProfileUpdate`).
* `PlainOkContains`: an answer without a warning means that every session there was at
  the write is gone.
* `EditKeepsAddress`: what an admin's edit writes back is what is there, so it neither
  moves an address nor undoes a member's change of it.
* `NoWaitCycle`: no requests wait for each other in a circle, whatever rows they want.
* `EveryRequestAnswered`: no lock is left behind, nobody waits forever.
* `TokensAreOneTime`, `PendingIsOneTime`: the refinements. They add to the properties
  above that nothing comes back to life, and that what has expired, was superseded,
  locked out or logged out is never used, however long ago a handler looked at it.
* `VerifiedMembersOnly`: Turnstile fails closed: no outage, nonsense or disconnect lets a
  row in.
* `OneWelcome`: nobody gets an email twice, whatever is retried or restarted.
* `FailuresAudited`: every failed email, and no other, has one audit row with the right
  category, although either goroutine may panic.
* `NoMemberForgotten`: neither a disconnect nor an orderly shutdown costs a stored member
  an email; the end of the process does (a crash, or a drain of more than 30 seconds), and
  nothing sends it later. It has two mutants: a shutdown that waits for nobody, and emails
  that are sent under the request's own context.
* `AcceptedConfigBoots`: what `LoadConfig` accepts, the mailer, the router and the Turnstile
  verifier do not refuse. A Turnstile secret of white space only passes `LoadConfig` and
  `Verify` alike; the property does not exclude it (such a server lets nobody register).
* `EverySubmissionAnswered`: unless the process ends first.
* `CategoryRuleKept`, `NoDeadEnd`: rows that handlers have written obey the rule of their
  category, although it is judged on a stale row, and no row is stuck.
* `PhoneAgreesWithBackfill`, `ResubmissionKeepsPhone`, `NumberNeverWiped`: migration and
  handlers agree; a stored number is read as itself; no update erases one that was in the
  copy of the row it read. An update that read the row before a number was stored does
  erase it, as it writes every column.

## Where the code does not do what it says

Each is a run that violates one property, and an entry of "findings" with the
quoted line. All are narrow races; none is reached by the tests.

1. `ArmedSecretIsProven`: a confirm checks a code of the secret it fetched and arms
   the secret that is stored by then, which another enroll put there.
2. `ResetEndsEverySession`: a login that compared the old password before the reset
   inserts its session after the wipe.
3. `DemotionLeavesSuperuser`: the last-superuser guard does not see the erasure of
   the other superuser, which takes no advisory lock.
4. `EmailChangeIsProven`: a profile update that asks for no address writes back the one
   it read, and undoes a change of address that was made, with the password, meanwhile.

Some properties that pass carry a condition because the code does not promise more:

* `OverBudgetIsDoomed` says "about to be deleted": at the limit of wrong codes the
  row is deleted by a second statement (twofactor.go:130), and a verify in flight can
  rotate it in between.
* `DemotionRevokes` excepts members who were pending when the role change read them:
  whether it is a demotion is decided by a role read without a row lock (role.go:57),
  and a verification that commits in between turns a no-op into a demotion that leaves
  the sessions.
* `OneSessionPerCode` counts per epoch of the replay counter, since a disable resets it
  while a verify may still hold the wiped secret and a code already used.
* `SuccessMeansWritten` excepts an account that is erased between the consumption of a
  reset token and the write, which is answered with success.

Smaller things met on the way, which no property is about: the answer of the member
list shows "the effective values" (admin/handler.go:36) but not the clamp of a page
beyond `maxPage`; migration 000007 says that a value it leaves as typed "fails the
app-side update path", which one that consists of separators does not (it is a no-op);
registration trims the fields of the category block, the profile update does not.

## Proofs

`TwoFactorProofs` proves, for every value of the constants that satisfies the
assumptions of TwoFactor (any requests, sessions, secrets, skew and budget):

* `TypeCorrect`: `Spec => []TypeOK`.
* `RotatedOnce`: `Spec => []OneRotationPerPending`. The invariant is strengthened by
  `RotatedIsDead` (the source of every rotation is dead): only a pending row is
  rotated, its rotation kills it, and dead rows stay dead.
* `CodeSpentOnce`: `Spec => []OneSessionPerCode`. The invariant `CodeInv` says that
  every code in flight to its rotation, or rotated, is *burned* (the stored counter
  has reached it, or a reset has begun a later epoch), and that no two of them are
  the same code of one epoch. An accepted code was not burned, so it is new.
* `ArmedHasSecret`: `Spec => []EnabledHasSecret`, `SecretNeverSwapped`: `Spec =>
  NoSilentSwap`. Every step treats the row in one of a few ways (it burns a code, stores
  a secret of an account that is not armed, arms one that has a secret, clears both), and
  each keeps them.
* `NeverPromoted`: `Spec => NoPromotion` (pending rows and dead ones), and `PendingOneTime`: `Spec => PendingIsOneTime`,
  the refinement of OneTimeSecrets. Both rest on one lemma (`SessionMoves`) that says in
  which ways a step can change the table of sessions.
* `BudgetEnforced`: `Spec => []OverBudgetIsDoomed`. The failure that reaches the limit is
  counted by the request that goes on to the lockout; it leaves that statement only by
  deleting the row or by adding it to `spared`.

`MemberAdminProofs` proves, for any members and any number of requests in flight:

* `RolesTyped`: `Spec => []TypeOK`, from the invariant `Inv` (four named parts): what a
  request holds depends on how far it is (`Reqs`), the advisory lock is held by
  exactly one request in its serialized part and a row lock by a request that has its
  target there (`Locks`), and the row of an edit, locked since its scope was checked,
  is still in scope (`Editing`).
* `ScopeRespected`: `Spec => []AdminStaysInScope`. A verification touches pending
  members only, by its `WHERE`; an edit is in scope by `Editing`.
* `OneSuperuserRemains`: `Spec => []SuperuserRemains`. This is not inductive: the
  strengthening `SuperInv` says that while a demotion is being decided (between the
  guard and the commit), a superuser other than its target exists. The holder of the
  advisory lock is the only one who decides (`OneDecides`), verifications write
  pending rows only, and the erasure of a superuser is the exception the property makes.
* `DemotionsRevoke`: `Spec => DemotionRevokes`. The strengthening `OldKnown` says that
  the role read by a role change that is being decided is still the role of the row,
  or the row is gone, unless the member was pending. So the commit that lowers a
  member is one that has deleted the sessions.
* `LocksNeverCycle`: `Spec => []NoWaitCycle`, in any number of requests. Who
  holds the advisory lock is past it, and who holds a row lock does not wait (`WaitsEnd`),
  so every chain of waits ends after two locks. `EveryRequestAnswered` needs fairness in
  addition and is checked.

`PasswordResetProofs` proves, for any number of requests, tokens and tries:

* `ResetTyped`: `Spec => []TypeOK`; a handler at a statement on a token holds one.
* `ResetOnce`, `NewestOnly`: `SingleUse` and `OnlyNewestUsable`, from `TokensOK`: the row
  of a token knows whether it has been consumed (`UsesOK`), and a token is stored only
  when no other is, consumed ones excepted.
* `TokensImplementOneTime`: `Spec => TokensAreOneTime`, the refinement: each step issues,
  uses or withdraws in the abstract store, or is a stutter.
* `RefusalsAreTrue`: `TruthfulRefusal`, from `AnswersOK`: what a handler is about to say of
  its token was true once, and what is true of a token stays true.
* `SuccessIsWritten`, `ResetEndsOldSessions`: a handler past the write has written or the
  account is gone (`WrittenOK`); the sessions there were at the write were issued before
  it, so none of them is one a later login creates (`OldOK`).
* `RivalsCauseRetries`: `RetriesAreLostToRivals`, from `TriesOK`: every try but the current
  one was lost to a token another request has stored since.

`AccountsProofs` proves, for any members, addresses, passwords and requests:

* `AccountsTyped`: `Spec => []TypeOK`, from `Inv`: types, stored sessions have owners who
  exist (`OwnersExist`), a row lock is held by exactly the edit of that row (`Locks`), and
  what a request holds depends on how far it is (`Reqs`).
* `EditsKeepAddresses`: `EditKeepsAddress`, strengthened by `EditsKnown`: the row an edit
  holds has the address that is stored, since nobody writes a locked row.
* `AddressesUnique`: `EmailsUnique`; an insertion and an update store an address only if no
  other row has it, by the index, an edit none that was not there.
* `PasswordsStayReplaced`: `PasswordStaysReplaced`, strengthened by `PasswordsKnown`: a
  password that somebody is about to write was never stored, and nobody else holds it.
* `OkContains`: `PlainOkContains`, strengthened by `Contained`: the sessions there were at
  the write are the member's own or have ended, and after the kill have ended.

`RegistrationProofs` proves, for any addresses, requests, failures and configurations, and
however often the process is started, from the invariant `IInv` of four named parts:

* `RegistrationTyped`: `Spec => []TypeOK`, from `Typed`: what a request holds depends on
  how far it is (`Shape`), and the WaitGroup counts the goroutines at work, so a handler
  that has waited finds every goroutine ended (`WaitGood`).
* `AcceptedConfigsBoot`: `AcceptedConfigBoots`, from `Booted`: a process past `LoadConfig`
  has a configuration that `Loads`.
* `MembersVerified`: `VerifiedMembersOnly`, from `Checked`: who is about to be stored has
  been vouched for.
* `WelcomedOnce`, `FailuresAreAudited`, `NobodyForgotten`: `OneWelcome`,
  `FailuresAudited`, `NoMemberForgotten`, all from
  `Mailed`: a member's emails are those of the one handler that saw its INSERT succeed,
  which knows how far each is (`Story`: untouched, owed an audit row, or settled), and are
  settled when it answers. A step of that handler or of a goroutine concerns this member
  only (`Late`), one lemma for each.

`PhoneNumbersProofs` proves what the phone rules compute, for every text of any length:

* `NumbersAreCanonical`, `NumbersAreFixed`: `NormalizePhone` returns a number that matches
  the pattern of its country, and every such number is read as itself.
* `BackfillIsNormalizePhone`: the `CASE` of migration 000007 stores what `NormalizePhone`
  returns, and leaves as typed exactly what `NormalizePhone` refuses or ignores.
* `StoredNumbersSettle`: so whatever has been stored, from whatever text, is read as itself
  or refused or ignored, never as another number.
* `SpellingsConverge`: the rule without its steps. A text is read as the number `e` if and
  only if `e` is on its plan and the text without separators is in `Spellings(e)`: the
  number itself, or for an Indonesian one the five ways to write code and trunk 0. In
  particular no text is read as two numbers, and nothing else is read as this one.

The recursion is in `Stripped` only. Its equation is shown to have a solution for every
length by taking the least length without one (`LeastElement`, from the library's
well-foundedness of the natural numbers), and so are the facts about it; the rest is case
distinction on the first characters.

`ProfilesProofs` proves, for any texts, legacy rows, forms and requests:

* `CategoriesKept`: `Spec => []CategoryRuleKept`; an update writes the block it has judged
  as a whole. `NumbersKept`: `Spec => NumberNeverWiped`; it writes its number or that of its
  own copy of the row.
* `ProfilesTyped`, `SwitchAlwaysPossible`, `BackfillAgrees`, `ResubmissionKept`: `Spec =>
  []TypeOK`, `[]NoDeadEnd`, `[]PhoneAgreesWithBackfill`, `[]ResubmissionKeepsPhone`, from
  `ProfilesInv`: before the migrations a row holds what was typed (`RowsInv`), after them
  every stored row, and every copy of one that an update still holds (`CopiesInv`), has a
  category and a number that is settled. That an update writes such a row back is
  `StoredNumbersSettle`.
* `OffPlanIsLegacy`: every stored number is empty, on a plan, or a text of an earlier release
  that the rule does not take, from `TracedInv`, which says so of the copies too. No run
  states it; the properties above say less about where a number comes from.

`Pagination` proves `OffsetFits` (no page and size a client can ask for overflows) and
`PagesTile` (a page begins where the one before it ends).

Assumed are only the named ASSUMEs of the modules (the null values are not in the
sets, the clock does not start at 0, at least one try, configurations, failures, legacy rows and forms have
their types, the limits of the member list). No set needs to be finite.

Every invariant and every action property of a passing run is stated by a theorem, and so
are both refinements. Not proved, and out of reach of the prover, are liveness
(`EveryRequestAnswered`, `EverySubmissionAnswered`) and ENABLED (that the system does not
deadlock): these are model-checked only. So are the four violations, which are
counterexamples. No module uses RECURSIVE.

## What is abstracted, and what is not modelled

Passwords are compared by a step that succeeds or stops; session and reset tokens
are model values (the database stores their SHA-256, which no handler inverts);
decryption of the secret is the identity of a model value, and a failure to decrypt
behaves as a rejected code; cookies' attributes and the wording of answers and emails
are left out. Of the form of a registration, Registration keeps the address, Profiles the
phone number and the category; the two phone columns obey one rule, one stands for both.
Audit rows are kept where a property is about them (the failed emails of a registration).
The opportunistic purge deletes only rows that are dead already. Turnstile gates login
and forgot as it gates registration, before any statement of theirs. Timeouts are not
modelled as times: a call with a deadline may fail at any moment.
PostgreSQL is external: statements are atomic, `WHERE` is re-evaluated after a wait.

Not modelled: the rate limiter (a library's counters, which refuse requests before any
statement), the bypass header, the refusal of unknown configuration keys (so `Loads`
accepts more than the code does), the client's address, the access and query logs, the JSON
helpers (stateless), dates, ranks and lengths (a comparison each), AES-GCM and base32
(library calls), the public member count and the reads of the admin area (they change
nothing), and migrations that only create tables and indexes, which appear as the guards
of the statements they constrain.

## Plan

Done, in this order: TwoFactor (the second factor has the most concurrent writers),
PasswordReset (the most promises), MemberAdmin (the locks), Accounts (the stale writes),
Registration inside Server (goroutines and the end of the process), Profiles (rules that
are spelled twice), the refinements, and the proofs of all safety properties of the six,
with those of the phone rules for every text.

Left, should the code grow there: composition of login, reset, password change and
logout-all on one account (who is signed in with which password); today each pair of them that shares a statement is in
one of TwoFactor, PasswordReset and Accounts.
