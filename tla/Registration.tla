---------------------------- MODULE Registration ----------------------------
(***************************************************************************)
(* POST /v1/register: internal/register/register.go with what it calls,    *)
(* internal/turnstile, internal/mailer and Audit, inside the process that  *)
(* Server describes.                                                       *)
(*                                                                         *)
(* A request takes one step per call that leaves the process and one per   *)
(* goroutine it starts, waits for or records; the goroutines of its two    *)
(* emails take steps of their own.  The form is abstracted to the address  *)
(* it registers: Profiles has the rules the other fields obey.             *)
(***************************************************************************)
EXTENDS Server, Sequences, FiniteSets

CONSTANTS
    Emails,         \* addresses people register with
    NoEmail,        \* the address of a request that has none
    Failures        \* bound: how a call to the email provider fails

ASSUME NoEmailIsNone == NoEmail \notin Emails

(* A failure is what the SDK call leaves behind: whether the deadline has   *)
(* passed, the status of the response (0: none) and whether the error is a  *)
(* net.Error, which an expired deadline always is.                          *)
Failure == [late : BOOLEAN, status : {0, 401, 403, 422, 500}, net : BOOLEAN]
ASSUME FailuresAreFailures == Failures \subseteq Failure

\* What became of an email: "failed" comes with its failure.
Fate(k) == [kind |-> k, of |-> [late |-> FALSE, status |-> 0, net |-> FALSE]]
Failed(f) == [kind |-> "failed", of |-> f]

VARIABLES
    members,    \* addresses the table "users" holds
    req,        \* request -> where its handler is and what it holds
    audit,      \* address -> which email -> categories in its audit rows
    \* history, read by properties only
    vouched,    \* addresses whose registration Turnstile vouched for
    welcomed,   \* addresses whose INSERT the handler saw succeed
    mail,       \* address -> which email -> what became of it
    tries,      \* address -> which email -> how often it was sent
    unaudited,  \* emails whose audit row was lost
    abandoned   \* addresses whose registration ended with its process

history == <<vouched, welcomed, mail, tries, unaudited, abandoned>>
vars == <<serverVars, members, req, audit, history>>

-----------------------------------------------------------------------------
(* The two emails.                                                          *)

Which == {"welcome", "notify_admin"}

\* sends is built, started and recorded in this order.
First(S) == IF "welcome" \in S THEN "welcome" ELSE "notify_admin"

Categories == {"timeout", "auth", "network", "api", "unknown"}

\* categorize: the deadline wins over a status, a status over the rest.
Categorize(f) ==
    IF f.late                          THEN "timeout"
    ELSE IF f.status \in {401, 403}    THEN "auth"
    ELSE IF f.status # 0               THEN "api"
    ELSE IF f.net                      THEN "network"
    ELSE                                    "unknown"

-----------------------------------------------------------------------------
(* Requests.  "todo" are the emails the handler has yet to see to in the    *)
(* stage it is in, "task" the goroutines it started, "errs" what they       *)
(* leave: "nil" until a category is written.                                *)

Idle == [pc |-> "idle", email |-> NoEmail, human |-> FALSE, todo |-> {},
         sends |-> {}, wg |-> 0, task |-> [w \in Which |-> "none"],
         errs |-> [w \in Which |-> "nil"]]

At(r, l) == req[r].pc = l
Holds(r, q) == req' = [req EXCEPT ![r] = q]

\* The handler answers, whatever it answers, and returns.
Answers(r) == Holds(r, Idle) /\ Finish(r)

\* The email the handler sees to now.
Now(r) == First(req[r].todo)
NowDone(r) == [req[r] EXCEPT !.todo = @ \ {Now(r)}]

\* recordEmailFailure: an audit row is written, or only a log line is.
RecordFailure(r, w, c) ==
    LET e == req[r].email IN
    \/ audit' = [audit EXCEPT ![e][w] = Append(@, c)] /\ UNCHANGED unaudited
    \/ unaudited' = unaudited \cup {<<e, w>>} /\ UNCHANGED audit

-----------------------------------------------------------------------------
(* Up to the INSERT.                                                        *)

Submit(r, e) ==
    /\ At(r, "idle")
    /\ Accept(r)
    /\ Holds(r, [Idle EXCEPT !.pc = "verify", !.email = e])
    /\ UNCHANGED <<members, audit, history>>

\* What siteverify answers.  A cancelled context reaches nobody.
Replies(r) == {"unreachable"} \cup
    IF ctx[r] = "live" THEN {"not_ok", "garbled", "denied", "granted"} ELSE {}

\* Not the code: an outage of Turnstile lets everybody through.
VerifiesOpen(token, reply) ==
    cfg.turnstile => token /\ cfg.turnstileSecret # "" /\ reply # "denied"

\* Verifier.Verify returns nil.
Verifies(token, reply) ==
    cfg.turnstile => token /\ cfg.turnstileSecret # "" /\ reply = "granted"

VerifyHuman(r) ==
    /\ At(r, "verify")
    /\ \E token \in BOOLEAN, reply \in Replies(r) :
         \/ /\ Verifies(token, reply)
            /\ Holds(r, [req[r] EXCEPT !.pc = "validate",
                                       !.human = token /\ reply = "granted"])
            /\ UNCHANGED serverVars
         \/ ~Verifies(token, reply) /\ Answers(r)
    /\ UNCHANGED <<members, audit, history>>

\* The form is valid, or it is answered with 400.
Validate(r) ==
    /\ At(r, "validate")
    /\ \/ Holds(r, [req[r] EXCEPT !.pc = "insert"]) /\ UNCHANGED serverVars
       \/ Answers(r)
    /\ UNCHANGED <<members, audit, history>>

\* Not the code: there is no unique index on the address.
InsertableAlways(e) == TRUE

\* The unique index on lower(email); handleSubmission lowers the address.
Insertable(e) == e \notin members

\* dbInsertUser under the request's own context.  An
\* error can hide a row that was stored: its answer, not the INSERT, was lost.
InsertUser(r) ==
    LET e == req[r].email
        Stores == /\ ctx[r] = "live" /\ Insertable(e)
                  /\ members' = members \cup {e}
                  /\ vouched' = IF req[r].human THEN vouched \cup {e} ELSE vouched
    IN
    /\ At(r, "insert")
    /\ \/ /\ Stores
          /\ welcomed' = welcomed \cup {e}
          /\ Holds(r, [req[r] EXCEPT !.pc = "render", !.todo = Which])
          /\ UNCHANGED serverVars
       \/ /\ Stores \/ UNCHANGED <<members, vouched>>
          /\ Answers(r)
          /\ UNCHANGED welcomed
    /\ UNCHANGED <<audit, mail, tries, unaudited, abandoned>>

-----------------------------------------------------------------------------
(* sendRegistrationEmails.  All of it runs under context.WithoutCancel: from *)
(* here on nothing asks for the state of the request's context.             *)

\* welcomeMessage and adminMessage; an email that cannot be rendered is
\* recorded at once, as "unknown", and not sent.
Render(r) ==
    /\ At(r, "render") /\ req[r].todo # {}
    /\ \/ /\ Holds(r, [NowDone(r) EXCEPT !.sends = @ \cup {Now(r)}])
          /\ UNCHANGED <<audit, mail, unaudited>>
       \/ /\ Holds(r, NowDone(r))
          /\ mail' = [mail EXCEPT ![req[r].email][Now(r)] = Fate("unrendered")]
          /\ RecordFailure(r, Now(r), "unknown")
    /\ UNCHANGED <<serverVars, members, vouched, welcomed, tries,
                   abandoned>>

Rendered(r) ==
    /\ At(r, "render") /\ req[r].todo = {}
    /\ Holds(r, [req[r] EXCEPT !.pc = "spawn", !.todo = req[r].sends])
    /\ UNCHANGED <<serverVars, members, audit, history>>

\* Not the code: the goroutine adds itself once it runs.
SpawnedUncounted(r) == [NowDone(r) EXCEPT !.task[Now(r)] = "running"]

\* wg.Add(1); go func ...
Spawned(r) == [NowDone(r) EXCEPT !.task[Now(r)] = "running", !.wg = @ + 1]

Spawn(r) ==
    /\ At(r, "spawn") /\ req[r].todo # {}
    /\ Holds(r, Spawned(r))
    /\ UNCHANGED <<serverVars, members, audit, history>>

\* wg.Wait()
Wait(r) ==
    /\ At(r, "spawn") /\ req[r].todo = {}
    /\ req[r].wg = 0
    /\ Holds(r, [req[r] EXCEPT !.pc = "record", !.todo = req[r].sends])
    /\ UNCHANGED <<serverVars, members, audit, history>>

Record(r) ==
    /\ At(r, "record") /\ req[r].todo # {}
    /\ Holds(r, NowDone(r))
    /\ IF req[r].errs[Now(r)] = "nil"
         THEN UNCHANGED <<audit, unaudited>>
         ELSE RecordFailure(r, Now(r), req[r].errs[Now(r)])
    /\ UNCHANGED <<serverVars, members, vouched, welcomed, mail, tries,
                   abandoned>>

\* 201.
Created(r) ==
    /\ At(r, "record") /\ req[r].todo = {}
    /\ Answers(r)
    /\ UNCHANGED <<members, audit, history>>

-----------------------------------------------------------------------------
(* The goroutine that sends email w of request r.                           *)

Task(r, w, st) == req[r].task[w] = st

\* A failure the mailer returns.  LogMailer and noopMailer return none.
SendFails(r, w) ==
    /\ MailerFor(cfg) = "resend"
    /\ \E f \in Failures :
         /\ mail' = [mail EXCEPT ![req[r].email][w] = Failed(f)]
         /\ Holds(r, [req[r] EXCEPT !.task[w] = "returned",
                                    !.errs[w] = Categorize(f)])

\* The mailer is called and returns, without or with an error, or panics.
CallMailer(r, w) ==
    /\ tries' = [tries EXCEPT ![req[r].email][w] = @ + 1]
    /\ \/ /\ mail' = [mail EXCEPT ![req[r].email][w] = Fate("sent")]
          /\ Holds(r, [req[r] EXCEPT !.task[w] = "returned"])
       \/ SendFails(r, w)
       \/ /\ MailerFor(cfg) = "resend"
          /\ mail' = [mail EXCEPT ![req[r].email][w] = Fate("panic")]
          /\ Holds(r, [req[r] EXCEPT !.task[w] = "panicking"])
    /\ UNCHANGED <<serverVars, members, audit, vouched, welcomed, unaudited,
                   abandoned>>

\* Not the code: the emails are sent under the request's context, and none
\* leaves the process once that is cancelled.
SendUnderRequest(r, w) ==
    /\ Task(r, w, "running")
    /\ \/ ctx[r] = "live" /\ CallMailer(r, w)
       \/ /\ ctx[r] = "cancelled"
          /\ Holds(r, [req[r] EXCEPT !.task[w] = "returned", !.errs[w] = "network"])
          /\ UNCHANGED <<serverVars, members, audit, history>>

Send(r, w) ==
    /\ Task(r, w, "running")
    /\ CallMailer(r, w)

\* Not the code: without the deferred Done a panic never gets to it.
RecoveredForGood(q, w) == [q EXCEPT !.task[w] = "ended", !.errs[w] = "unknown"]

\* The deferred recover.
Recovered(q, w) == [q EXCEPT !.task[w] = "returned", !.errs[w] = "unknown"]

Recover(r, w) ==
    /\ Task(r, w, "panicking")
    /\ Holds(r, Recovered(req[r], w))
    /\ UNCHANGED <<serverVars, members, audit, history>>

\* Not the code: Done is deferred last, and so runs first.
DoneFirst(r, w) == req[r].task[w] \in {"returned", "panicking"}

\* The deferred Done runs last.
DoneLast(r, w) == Task(r, w, "returned")

Done(r, w) ==
    /\ DoneLast(r, w)
    /\ Holds(r, [req[r] EXCEPT !.task[w] = "ended", !.wg = @ - 1])
    /\ UNCHANGED <<serverVars, members, audit, history>>

-----------------------------------------------------------------------------
\* The requests that have stored the member with address e and not answered.
Registering(e) ==
    {r \in Requests : req[r].email = e /\ req[r].pc \in {"render", "spawn", "record"}}

\* The process goes on by itself; the handlers of one that ends are gone.
Process ==
    /\ Lifecycle
    /\ req' = [r \in Requests |-> IF ctx'[r] = "none" THEN Idle ELSE req[r]]
    /\ abandoned' = abandoned \cup
         {e \in Emails : Registering(e) \cap cut' # {}}
    /\ UNCHANGED <<members, audit, vouched, welcomed, mail, tries, unaudited>>

ClientLeaves(r) ==
    /\ Disconnect(r)
    /\ UNCHANGED <<members, req, audit, history>>

\* The process has ended for good: the bounded behaviour may end here.
Ended ==
    /\ phase \in Dead
    /\ UNCHANGED vars

Init ==
    /\ ServerInit
    /\ members = {}
    /\ req = [r \in Requests |-> Idle]
    /\ audit = [e \in Emails |-> [w \in Which |-> <<>>]]
    /\ vouched = {}
    /\ welcomed = {}
    /\ mail = [e \in Emails |-> [w \in Which |-> Fate("none")]]
    /\ tries = [e \in Emails |-> [w \in Which |-> 0]]
    /\ unaudited = {}
    /\ abandoned = {}

Handler(r) ==
    \/ VerifyHuman(r) \/ Validate(r) \/ InsertUser(r)
    \/ Render(r) \/ Rendered(r) \/ Spawn(r) \/ Wait(r) \/ Record(r) \/ Created(r)

Goroutine(r, w) == Send(r, w) \/ Recover(r, w) \/ Done(r, w)

Next ==
    \/ Process
    \/ \E r \in Requests :
         \/ \E e \in Emails : Submit(r, e)
         \/ Handler(r) \/ ClientLeaves(r)
         \/ \E w \in Which : Goroutine(r, w)
    \/ Ended

Spec == Init /\ [][Next]_vars

(* A handler and a goroutine go on: every call they make returns, the ones   *)
(* over the network because they carry a timeout of their own.               *)
FairSpec ==
    /\ Spec
    /\ \A r \in Requests :
         /\ WF_vars(Handler(r))
         /\ \A w \in Which : WF_vars(Goroutine(r, w))

-----------------------------------------------------------------------------
(* Properties.                                                              *)

Labels == {"idle", "verify", "validate", "insert", "render", "spawn", "record"}
Tasks == {"none", "running", "panicking", "returned", "ended"}
Request == [pc : Labels, email : Emails \cup {NoEmail}, human : BOOLEAN,
            todo : SUBSET Which, sends : SUBSET Which, wg : 0 .. 2,
            task : [Which -> Tasks], errs : [Which -> Categories \cup {"nil"}]]
Outcome == {Failed(f) : f \in Failures}
    \cup {Fate(k) : k \in {"none", "sent", "panic", "unrendered"}}

\* Every variable has its type, the handler runs exactly while its context
\* exists, and the WaitGroup counts the goroutines that are still at work.
TypeOK ==
    /\ ServerTypeOK
    /\ members \subseteq Emails
    /\ req \in [Requests -> Request]
    /\ audit \in [Emails -> [Which -> Seq(Categories)]]
    /\ vouched \subseteq Emails /\ welcomed \subseteq Emails
    /\ mail \in [Emails -> [Which -> Outcome]]
    /\ tries \in [Emails -> [Which -> Nat]]
    /\ unaudited \subseteq Emails \X Which
    /\ abandoned \subseteq Emails
    /\ \A r \in Requests :
         /\ At(r, "idle") <=> ctx[r] = "none"
         /\ req[r].wg = Cardinality({w \in Which :
                          req[r].task[w] \in {"running", "panicking", "returned"}})

\* With Turnstile on, every member is one it vouched for: an unreachable,
\* confused or refusing siteverify, a missing token and a request that is cut
\* off while it asks all keep the row out ("fails closed").
VerifiedMembersOnly == cfg.turnstile => members \subseteq vouched

\* No email is sent twice or to somebody who is not a member, however many
\* requests register one address at a time, and again after a restart.
OneWelcome ==
    \A e \in Emails, w \in Which :
        tries[e][w] <= 1 /\ (tries[e][w] > 0 => e \in members)

\* Whether c is the category by which an operator would know failure f: "expired
\* key: auth; Resend down: network; slow Resend: timeout".
Diagnoses(c, f) ==
    /\ c = "timeout" <=> f.late
    /\ c = "auth" <=> ~f.late /\ f.status \in {401, 403}
    /\ c = "network" => f.status = 0

\* Every email that failed, and no other, has exactly one audit row and that
\* row names the right category, once the member's request is over: two
\* goroutines, either of which may panic, leave their results to a handler
\* that waits for both.  (Unless the row's INSERT failed, or the process ended.)
FailuresAudited ==
    \A e \in welcomed, w \in Which :
        Registering(e) = {} /\ <<e, w>> \notin unaudited /\ e \notin abandoned =>
            CASE mail[e][w].kind = "sent"   -> audit[e][w] = <<>>
              [] mail[e][w].kind = "failed" ->
                   Len(audit[e][w]) = 1 /\ Diagnoses(audit[e][w][1], mail[e][w].of)
              [] OTHER                      -> audit[e][w] = <<"unknown">>

\* "Both emails are attempted before the 201 regardless of their outcome": once
\* the INSERT was seen to succeed, a disconnect ("can never abort delivery"), a
\* failed or panicking email, or the signal and an orderly shutdown never leave
\* the member without either; only the end of the process does, a crash or a
\* drain that ran out of its 30 seconds.
NoMemberForgotten ==
    \A e \in welcomed :
        \/ Registering(e) # {}
        \/ e \in abandoned
        \/ \A w \in Which : mail[e][w].kind # "none"

\* Every submission is answered, whatever panics, is cancelled or runs late,
\* unless the process ends first.
EverySubmissionAnswered ==
    \A r \in Requests : ctx[r] # "none" ~> ctx[r] = "none"
=============================================================================
