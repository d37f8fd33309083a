------------------------- MODULE RegistrationProofs -------------------------
(***************************************************************************)
(* What Registration guarantees for any addresses, requests, failures and  *)
(* configurations, and however often the process is started.               *)
(***************************************************************************)
EXTENDS Registration, FiniteSetTheorems, TLAPS

-----------------------------------------------------------------------------
(* The process.                                                             *)

\* The life of the process begins and ends requests, and ends them all when it
\* ends; it neither starts one nor changes the configuration.
LEMMA LifecycleFacts ==
    ASSUME ServerTypeOK, Lifecycle
    PROVE  /\ ServerTypeOK'
           /\ cfg' = cfg
           /\ \A r \in Requests : ctx[r] = "none" => ctx'[r] = "none"
           /\ \A r \in Requests : ctx[r] # "none" /\ ctx'[r] = "none" => r \in cut'
<1> USE StartsPositive DEF ServerTypeOK, Phases, Dead, Serving, Contexts, InFlight
<1>1. CASE LoadConfig
    BY <1>1 DEF LoadConfig, Becomes
<1>2. CASE OpenDatabase
    BY <1>2 DEF OpenDatabase, Becomes
<1>3. CASE MakeHandler
    BY <1>3 DEF MakeHandler, Becomes
<1>4. CASE Listen
    BY <1>4 DEF Listen, Becomes
<1>5. CASE Signal
    BY <1>5 DEF Signal
<1>6. CASE BeginShutdown
    BY <1>6 DEF BeginShutdown, Becomes
<1>7. CASE Stop
    BY <1>7 DEF Stop, Dies, Drained
<1>8. CASE Crash
    BY <1>8 DEF Crash, Dies
<1>9. CASE Restart
    BY <1>9 DEF Restart
<1> QED
    BY <1>1, <1>2, <1>3, <1>4, <1>5, <1>6, <1>7, <1>8, <1>9 DEF Lifecycle

\* A request comes only to a process that serves.
LEMMA AcceptFacts ==
    ASSUME ServerTypeOK, NEW r \in Requests, Accept(r)
    PROVE  /\ ServerTypeOK' /\ cfg' = cfg /\ phase' = phase
           /\ ctx[r] = "none" /\ ctx'[r] # "none"
           /\ \A s \in Requests \ {r} : ctx'[s] = ctx[s]
BY DEF Accept, ServerTypeOK, Phases, Dead, Serving, Contexts, InFlight

\* A client that leaves, and a handler that returns, are those of one request.
LEMMA DisconnectFacts ==
    ASSUME ServerTypeOK, NEW r \in Requests, Disconnect(r)
    PROVE  /\ ServerTypeOK' /\ cfg' = cfg /\ phase' = phase
           /\ \A s \in Requests : ctx'[s] = "none" <=> ctx[s] = "none"
BY DEF Disconnect, ServerTypeOK, Phases, Dead, Serving, Contexts, InFlight

LEMMA FinishFacts ==
    ASSUME ServerTypeOK, NEW r \in Requests, Finish(r)
    PROVE  /\ ServerTypeOK' /\ cfg' = cfg /\ phase' = phase
           /\ ctx'[r] = "none"
           /\ \A s \in Requests \ {r} : ctx'[s] = ctx[s]
BY DEF Finish, ServerTypeOK, Phases, Dead, Serving, Contexts, InFlight

-----------------------------------------------------------------------------
(* What a request holds.                                                    *)

\* The goroutines the WaitGroup counts.
Active(q) == {w \in Which : q.task[w] \in {"running", "panicking", "returned"}}

Registers(q) == q.pc \in {"render", "spawn", "record"}

\* What a request holds depends on how far it is.
Shape(q) ==
    /\ q.pc = "idle" => q = Idle
    /\ q.pc # "idle" => q.email \in Emails
    /\ q.pc \notin {"render", "spawn", "record"} => q.sends = {}
    /\ q.pc = "render" => q.todo \cap q.sends = {}
    /\ q.pc \notin {"spawn", "record"} =>
         \A w \in Which : q.task[w] = "none" /\ q.errs[w] = "nil"
    /\ q.pc = "spawn" =>
         /\ q.todo \subseteq q.sends
         /\ \A w \in Which : q.task[w] = "none" <=> w \in q.todo \/ w \notin q.sends
         /\ \A w \in Which : q.task[w] \in {"none", "running"} => q.errs[w] = "nil"
    /\ q.pc = "record" =>
         /\ q.todo \subseteq q.sends
         /\ \A w \in q.sends : q.task[w] = "ended"
         /\ \A w \in Which \ q.sends : q.task[w] = "none"

Good(q) == q \in Request /\ Shape(q) /\ q.wg = Cardinality(Active(q))

ReqsOK ==
    /\ req \in [Requests -> Request]
    /\ \A r \in Requests : Good(req[r]) /\ (At(r, "idle") <=> ctx[r] = "none")

\* The types of everything but the requests.
RowsOK ==
    /\ members \subseteq Emails
    /\ audit \in [Emails -> [Which -> Seq(Categories)]]
    /\ vouched \subseteq Emails /\ welcomed \subseteq Emails
    /\ mail \in [Emails -> [Which -> Outcome]]
    /\ tries \in [Emails -> [Which -> Nat]]
    /\ unaudited \subseteq Emails \X Which
    /\ abandoned \subseteq Emails

Typed == ServerTypeOK /\ ReqsOK /\ RowsOK

\* The invariant is more than the type invariant.
LEMMA TypedIsTypeOK == Typed => TypeOK
BY DEF Typed, TypeOK, ReqsOK, RowsOK, Good, Active

-----------------------------------------------------------------------------
(* The WaitGroup.                                                           *)

\* There are two emails.
LEMMA TwoEmails ==
    /\ IsFiniteSet(Which) /\ Cardinality(Which) = 2
    /\ \A S \in SUBSET Which : IsFiniteSet(S) /\ Cardinality(S) \in 0 .. 2
<1>1. IsFiniteSet({"welcome"}) /\ Cardinality({"welcome"}) = 1
    BY FS_Singleton
<1>2. Which = {"welcome"} \cup {"notify_admin"}
    BY DEF Which
<1>3. IsFiniteSet(Which) /\ Cardinality(Which) = 2
    BY <1>1, <1>2, FS_AddElement
<1>4. ASSUME NEW S \in SUBSET Which PROVE IsFiniteSet(S) /\ Cardinality(S) \in 0 .. 2
  <2>1. IsFiniteSet(S) /\ Cardinality(S) <= Cardinality(Which)
      BY <1>3, FS_Subset
  <2>2. Cardinality(S) \in Nat
      BY <2>1, FS_CardinalityType
  <2> QED
      BY <1>3, <2>1, <2>2
<1> QED
    BY <1>3, <1>4

\* The emails are seen to one by one.
LEMMA FirstFact ==
    ASSUME NEW S \in SUBSET Which, S # {}
    PROVE  First(S) \in S
BY DEF First, Which

\* No goroutine is at work for a request that has started none.
LEMMA NoneActive ==
    ASSUME NEW q, \A w \in Which : q.task[w] \in {"none", "ended"}
    PROVE  Active(q) = {} /\ Cardinality(Active(q)) = 0
BY FS_EmptySet DEF Active

\* A free process is a request that holds nothing.
LEMMA IdleGood == Good(Idle)
<1>1. Cardinality(Active(Idle)) = 0
    BY NoneActive DEF Idle
<1>2. Idle \in Request
    BY DEF Idle, Request, Labels, Tasks, Categories, Which
<1>3. Shape(Idle)
    BY DEF Idle, Shape
<1> QED
    BY <1>1, <1>2, <1>3 DEF Good, Idle

\* A handler that goes on before its goroutines, or between them, counts the same.
LEMMA SameCount ==
    ASSUME NEW q, NEW p, Good(q), p \in Request, Shape(p),
           p.task = q.task, p.wg = q.wg
    PROVE  Good(p)
BY DEF Good, Active

\* A goroutine that is started is counted.
LEMMA SpawnGood ==
    ASSUME NEW r \in Requests, Good(req[r]), At(r, "spawn"), req[r].todo # {}
    PROVE  Good(Spawned(r))
<1> DEFINE q == req[r]
           n == Now(r)
           p == Spawned(r)
<1>1. q \in Request /\ Shape(q) /\ q.wg = Cardinality(Active(q)) /\ q.pc = "spawn"
    BY DEF Good, At
<1>2. q.todo \in SUBSET Which /\ n \in q.todo /\ n \in Which
    BY <1>1, FirstFact DEF Now, Request
<1>3. /\ p.pc = q.pc /\ p.email = q.email /\ p.human = q.human /\ p.sends = q.sends
      /\ p.errs = q.errs /\ p.todo = q.todo \ {n} /\ p.wg = q.wg + 1
      /\ p.task = [q.task EXCEPT ![n] = "running"]
      /\ p = [q EXCEPT !.todo = p.todo, !.task = p.task, !.wg = p.wg]
    BY <1>1 DEF Spawned, NowDone, Request
<1>4. q.task[n] = "none" /\ n \in q.sends /\ q.task \in [Which -> Tasks]
    BY <1>1, <1>2 DEF Shape, Request
<1> HIDE DEF q, n, p
<1>5. Active(p) = Active(q) \cup {n} /\ n \notin Active(q)
    BY <1>2, <1>3, <1>4 DEF Active
<1>6. Active(q) \in SUBSET Which /\ Active(p) \in SUBSET Which
    BY DEF Active
<1>7. Cardinality(Active(p)) = Cardinality(Active(q)) + 1
    BY <1>5, <1>6, TwoEmails, FS_AddElement
<1>8. p.wg = Cardinality(Active(p)) /\ p.wg \in 0 .. 2
    BY <1>1, <1>3, <1>6, <1>7, TwoEmails
<1>9. p.task \in [Which -> Tasks] /\ p.todo \in SUBSET Which
    BY <1>2, <1>3, <1>4 DEF Tasks
<1>10. p \in Request
    BY <1>1, <1>3, <1>8, <1>9 DEF Request
<1>11. Shape(p)
    BY <1>1, <1>2, <1>3, <1>4 DEF Shape
<1> QED
    BY <1>8, <1>10, <1>11 DEF Good, p

\* A goroutine of a handler that waits moves on; it is counted until it ends.
LEMMA TaskGood ==
    ASSUME NEW q, Good(q), NEW w \in Which, NEW p \in Request,
           q.task[w] \in {"running", "panicking", "returned"},
           NEW t \in {"panicking", "returned"},
           NEW c \in Categories \cup {"nil"}, t = "panicking" => c = q.errs[w],
           p = [q EXCEPT !.task[w] = t, !.errs[w] = c]
    PROVE  Good(p)
<1>1. q \in Request /\ Shape(q) /\ q.wg = Cardinality(Active(q))
    BY DEF Good
<1>2. /\ p.pc = q.pc /\ p.email = q.email /\ p.sends = q.sends /\ p.todo = q.todo
      /\ p.wg = q.wg
      /\ p.task = [q.task EXCEPT ![w] = t] /\ p.errs = [q.errs EXCEPT ![w] = c]
    BY <1>1 DEF Request
<1>3. q.pc = "spawn" /\ q.task \in [Which -> Tasks] /\ q.errs \in [Which -> Categories \cup {"nil"}]
    BY <1>1 DEF Shape, Request, Labels
<1>4. Active(p) = Active(q)
    BY <1>2, <1>3 DEF Active
<1>5. Shape(p)
    BY <1>1, <1>2, <1>3 DEF Shape
<1> QED
    BY <1>1, <1>2, <1>4, <1>5 DEF Good

\* One that ends is counted no more.
LEMMA EndGood ==
    ASSUME NEW q, Good(q), NEW w \in Which, q.task[w] = "returned",
           NEW p, p = [q EXCEPT !.task[w] = "ended", !.wg = @ - 1]
    PROVE  Good(p)
<1>1. q \in Request /\ Shape(q) /\ q.wg = Cardinality(Active(q))
    BY DEF Good
<1>2. /\ p.pc = q.pc /\ p.email = q.email /\ p.sends = q.sends /\ p.todo = q.todo
      /\ p.errs = q.errs /\ p.wg = q.wg - 1
      /\ p.task = [q.task EXCEPT ![w] = "ended"]
      /\ p = [q EXCEPT !.task = p.task, !.wg = p.wg]
    BY <1>1 DEF Request
<1>3. q.pc = "spawn" /\ q.task \in [Which -> Tasks]
    BY <1>1 DEF Shape, Request, Labels
<1>4. Active(p) = Active(q) \ {w} /\ w \in Active(q)
    BY <1>2, <1>3 DEF Active
<1>5. Active(q) \in SUBSET Which /\ Active(p) \in SUBSET Which
    BY DEF Active
<1>6. Cardinality(Active(p)) = Cardinality(Active(q)) - 1
    BY <1>4, <1>5, TwoEmails, FS_RemoveElement
<1>7. p.wg = Cardinality(Active(p)) /\ p.wg \in 0 .. 2
    BY <1>1, <1>2, <1>5, <1>6, TwoEmails
<1>8. p.task \in [Which -> Tasks]
    BY <1>2, <1>3 DEF Tasks
<1>9. p \in Request
    BY <1>1, <1>2, <1>7, <1>8 DEF Request
<1>10. Shape(p)
    BY <1>1, <1>2, <1>3 DEF Shape
<1> QED
    BY <1>7, <1>9, <1>10 DEF Good

\* A handler that waits for nobody finds that every goroutine has ended.
LEMMA WaitGood ==
    ASSUME NEW q, Good(q), q.pc = "spawn", q.todo = {}, q.wg = 0,
           NEW p, p = [q EXCEPT !.pc = "record", !.todo = q.sends]
    PROVE  Good(p) /\ \A w \in q.sends : q.task[w] = "ended"
<1>1. q \in Request /\ Shape(q) /\ q.wg = Cardinality(Active(q))
    BY DEF Good
<1>2. Active(q) \in SUBSET Which
    BY DEF Active
<1>3. Active(q) = {}
    BY <1>1, <1>2, TwoEmails, FS_EmptySet
<1>4. q.task \in [Which -> Tasks] /\ q.sends \in SUBSET Which
    BY <1>1 DEF Request
<1>5. \A w \in q.sends : q.task[w] = "ended"
    BY <1>1, <1>3, <1>4 DEF Active, Shape, Tasks
<1>6. \A w \in Which \ q.sends : q.task[w] = "none"
    BY <1>1 DEF Shape
<1>7. /\ p \in Request /\ p.task = q.task /\ p.wg = q.wg /\ p.sends = q.sends
      /\ p.pc = "record" /\ p.todo = q.sends /\ p.email = q.email
    BY <1>1, <1>4 DEF Request, Labels
<1>8. Shape(p)
    BY <1>1, <1>5, <1>6, <1>7 DEF Shape
<1> QED
    BY <1>5, <1>7, <1>8, SameCount

-----------------------------------------------------------------------------
(* Type correctness.                                                        *)

\* A step of one request leaves the others as they are.
LEMMA HoldsGood ==
    ASSUME ReqsOK, NEW r \in Requests, NEW q, Good(q), Holds(r, q),
           q.pc = "idle" <=> ctx'[r] = "none",
           \A s \in Requests \ {r} : ctx'[s] = "none" <=> ctx[s] = "none"
    PROVE  ReqsOK' /\ req'[r] = q /\ \A s \in Requests \ {r} : req'[s] = req[s]
BY DEF ReqsOK, Good, Holds, At

\* An answer ends the request.
LEMMA AnswersGood ==
    ASSUME Typed, NEW r \in Requests, Answers(r)
    PROVE  /\ ReqsOK' /\ ServerTypeOK' /\ cfg' = cfg /\ phase' = phase
           /\ req'[r] = Idle
           /\ \A s \in Requests \ {r} : req'[s] = req[s]
<1>1. Holds(r, Idle) /\ Finish(r) /\ ServerTypeOK /\ ReqsOK
    BY DEF Answers, Typed
<1>2. /\ ServerTypeOK' /\ cfg' = cfg /\ phase' = phase /\ ctx'[r] = "none"
      /\ \A s \in Requests \ {r} : ctx'[s] = ctx[s]
    BY <1>1, FinishFacts
<1>3. Idle.pc = "idle"
    BY DEF Idle
<1> QED
    BY <1>1, <1>2, <1>3, IdleGood, HoldsGood

\* So does a step within the process that serves it.
LEMMA MovesGood ==
    ASSUME Typed, NEW r \in Requests, NEW q, Good(q), Holds(r, q), UNCHANGED serverVars,
           q.pc # "idle", ~At(r, "idle")
    PROVE  /\ ReqsOK' /\ ServerTypeOK' /\ cfg' = cfg /\ phase' = phase
           /\ req'[r] = q
           /\ \A s \in Requests \ {r} : req'[s] = req[s]
<1>1. ctx' = ctx /\ ServerTypeOK' /\ cfg' = cfg /\ phase' = phase
    BY DEF serverVars, Typed, ServerTypeOK, InFlight
<1>2. ReqsOK /\ ctx[r] # "none"
    BY DEF Typed, ReqsOK
<1> QED
    BY <1>1, <1>2, HoldsGood

\* A request is free or at a statement of its own, and holds an address then.
LEMMA AtFacts ==
    ASSUME Typed, NEW r \in Requests, ~At(r, "idle")
    PROVE  Good(req[r]) /\ req[r] \in Request /\ req[r].email \in Emails
BY DEF Typed, ReqsOK, Good, Shape, At

\* A request that has begun.
LEMMA SubmitFacts ==
    ASSUME Typed, NEW r \in Requests, NEW e \in Emails, Submit(r, e)
    PROVE  /\ Typed' /\ cfg' = cfg /\ phase' = phase
           /\ req'[r] = [Idle EXCEPT !.pc = "verify", !.email = e]
           /\ \A s \in Requests \ {r} : req'[s] = req[s]
<1> DEFINE q == [Idle EXCEPT !.pc = "verify", !.email = e]
<1>1. Good(Idle) /\ Idle.pc = "idle"
    BY IdleGood DEF Idle
<1>2. /\ q \in Request /\ q.pc = "verify" /\ q.email = e /\ q.task = Idle.task
      /\ q.wg = Idle.wg /\ q.errs = Idle.errs /\ q.sends = Idle.sends
    BY <1>1 DEF Good, Request, Labels
<1>3. Shape(q)
    BY <1>2 DEF Shape, Idle
<1>4. Good(q)
    BY <1>1, <1>2, <1>3, SameCount
<1>5. Holds(r, q) /\ Accept(r)
    BY DEF Submit
<1> HIDE DEF q
<1>6. /\ ServerTypeOK' /\ cfg' = cfg /\ phase' = phase /\ ctx'[r] # "none"
      /\ \A s \in Requests \ {r} : ctx'[s] = ctx[s]
    BY <1>5, AcceptFacts DEF Typed
<1>7. ReqsOK' /\ req'[r] = q /\ \A s \in Requests \ {r} : req'[s] = req[s]
    BY <1>2, <1>4, <1>5, <1>6, HoldsGood DEF Typed
<1>8. RowsOK'
    BY DEF Submit, history, Typed, RowsOK
<1> QED
    BY <1>6, <1>7, <1>8 DEF Typed, q

\* Before the INSERT a request starts no goroutine.
LEMMA EarlyGood ==
    ASSUME NEW q, Good(q), q.pc \in {"verify", "validate", "insert"},
           NEW p \in Request, p.pc \in {"validate", "insert", "render"},
           p.email = q.email, p.task = q.task, p.wg = q.wg, p.errs = q.errs,
           p.sends = q.sends
    PROVE  Good(p)
<1>1. q \in Request /\ Shape(q)
    BY DEF Good
<1>2. Shape(p)
    BY <1>1 DEF Shape
<1> QED
    BY <1>2, SameCount

\* The handler asks Turnstile, and goes on as a human if Turnstile is on.
LEMMA VerifyFacts ==
    ASSUME Typed, NEW r \in Requests, VerifyHuman(r)
    PROVE  /\ Typed' /\ cfg' = cfg /\ phase' = phase
           /\ \/ req'[r] = Idle
              \/ /\ req'[r].pc = "validate" /\ req'[r].email = req[r].email
                 /\ cfg.turnstile => req'[r].human
           /\ \A s \in Requests \ {r} : req'[s] = req[s]
<1>1. RowsOK' /\ At(r, "verify") /\ ~At(r, "idle")
    BY DEF VerifyHuman, At, history, Typed, RowsOK
<1>2. CASE Answers(r)
    BY <1>1, <1>2, AnswersGood DEF Typed
<1>3. ASSUME NEW token \in BOOLEAN, NEW reply \in Replies(r), Verifies(token, reply),
             Holds(r, [req[r] EXCEPT !.pc = "validate",
                                     !.human = token /\ reply = "granted"]),
             UNCHANGED serverVars
      PROVE  /\ Typed' /\ cfg' = cfg /\ phase' = phase
             /\ req'[r].pc = "validate" /\ req'[r].email = req[r].email
             /\ cfg.turnstile => req'[r].human
             /\ \A s \in Requests \ {r} : req'[s] = req[s]
  <2> DEFINE b == token /\ reply = "granted"
             q == [req[r] EXCEPT !.pc = "validate", !.human = b]
  <2>1. Good(req[r]) /\ req[r] \in Request /\ req[r].pc = "verify"
      BY <1>1, AtFacts DEF At
  <2>2. /\ q \in Request /\ q.pc = "validate" /\ q.human = b /\ q.email = req[r].email
        /\ q.task = req[r].task /\ q.wg = req[r].wg /\ q.errs = req[r].errs
        /\ q.sends = req[r].sends
      BY <2>1 DEF Request, Labels
  <2>3. Good(q)
      BY <2>1, <2>2, EarlyGood
  <2>4. Holds(r, q)
      BY <1>3
  <2>5. cfg.turnstile => b
      BY <1>3 DEF Verifies
  <2> HIDE DEF q, b
  <2>6. /\ ReqsOK' /\ ServerTypeOK' /\ cfg' = cfg /\ phase' = phase
        /\ req'[r] = q /\ \A s \in Requests \ {r} : req'[s] = req[s]
      BY <1>1, <1>3, <2>2, <2>3, <2>4, MovesGood
  <2> QED
      BY <1>1, <2>2, <2>5, <2>6 DEF Typed
<1> QED
    BY <1>2, <1>3 DEF VerifyHuman

\* Validation keeps what Turnstile has said.
LEMMA ValidateFacts ==
    ASSUME Typed, NEW r \in Requests, Validate(r)
    PROVE  /\ Typed' /\ cfg' = cfg /\ phase' = phase
           /\ \/ req'[r] = Idle
              \/ /\ At(r, "validate") /\ req'[r].pc = "insert"
                 /\ req'[r].email = req[r].email /\ req'[r].human = req[r].human
           /\ \A s \in Requests \ {r} : req'[s] = req[s]
<1>1. RowsOK' /\ At(r, "validate") /\ ~At(r, "idle")
    BY DEF Validate, At, history, Typed, RowsOK
<1>2. CASE Answers(r)
    BY <1>1, <1>2, AnswersGood DEF Typed
<1>3. CASE Holds(r, [req[r] EXCEPT !.pc = "insert"]) /\ UNCHANGED serverVars
  <2> DEFINE q == [req[r] EXCEPT !.pc = "insert"]
  <2>1. Good(req[r]) /\ req[r] \in Request /\ req[r].pc = "validate"
      BY <1>1, AtFacts DEF At
  <2>2. /\ q \in Request /\ q.pc = "insert" /\ q.human = req[r].human
        /\ q.email = req[r].email
        /\ q.task = req[r].task /\ q.wg = req[r].wg /\ q.errs = req[r].errs
        /\ q.sends = req[r].sends
      BY <2>1 DEF Request, Labels
  <2>3. Good(q)
      BY <2>1, <2>2, EarlyGood
  <2>4. Holds(r, q)
      BY <1>3
  <2> HIDE DEF q
  <2>5. /\ ReqsOK' /\ ServerTypeOK' /\ cfg' = cfg /\ phase' = phase
        /\ req'[r] = q /\ \A s \in Requests \ {r} : req'[s] = req[s]
      BY <1>1, <1>3, <2>2, <2>3, <2>4, MovesGood
  <2> QED
      BY <1>1, <2>2, <2>5 DEF Typed
<1> QED
    BY <1>2, <1>3 DEF Validate

\* The INSERT stores the address unless it is there, and the handler that sees it
\* succeed goes on to the emails.
LEMMA InsertFacts ==
    ASSUME Typed, NEW r \in Requests, InsertUser(r)
    PROVE  LET e == req[r].email IN
           /\ Typed' /\ cfg' = cfg /\ phase' = phase
           /\ At(r, "insert") /\ e \in Emails
           /\ \A s \in Requests \ {r} : req'[s] = req[s]
           /\ UNCHANGED <<audit, mail, tries, unaudited, abandoned>>
           /\ \/ members' = members /\ vouched' = vouched
              \/ /\ e \notin members /\ members' = members \cup {e}
                 /\ vouched' = IF req[r].human THEN vouched \cup {e} ELSE vouched
           /\ \/ req'[r] = Idle /\ welcomed' = welcomed
              \/ /\ req'[r].pc = "render" /\ req'[r].email = e /\ req'[r].todo = Which
                 /\ e \notin members /\ e \in members' /\ welcomed' = welcomed \cup {e}
<1> DEFINE e == req[r].email
<1>1. /\ At(r, "insert") /\ ~At(r, "idle") /\ e \in Emails
      /\ UNCHANGED <<audit, mail, tries, unaudited, abandoned>>
    BY AtFacts DEF InsertUser, At
<1>2. Good(req[r]) /\ req[r] \in Request /\ req[r].pc = "insert"
    BY <1>1, AtFacts DEF At
<1>3. RowsOK
    BY DEF Typed
<1>4. ASSUME Holds(r, [req[r] EXCEPT !.pc = "render", !.todo = Which]),
             UNCHANGED serverVars
      PROVE  /\ ReqsOK' /\ ServerTypeOK' /\ cfg' = cfg /\ phase' = phase
             /\ \A s \in Requests \ {r} : req'[s] = req[s]
             /\ req'[r].pc = "render" /\ req'[r].email = e /\ req'[r].todo = Which
  <2> DEFINE q == [req[r] EXCEPT !.pc = "render", !.todo = Which]
  <2>1. /\ q \in Request /\ q.pc = "render" /\ q.email = e /\ q.todo = Which
        /\ q.task = req[r].task /\ q.wg = req[r].wg /\ q.errs = req[r].errs
        /\ q.sends = req[r].sends
      BY <1>2 DEF Request, Labels
  <2>2. Good(q)
      BY <1>2, <2>1, EarlyGood
  <2>3. Holds(r, q)
      BY <1>4
  <2> HIDE DEF q
  <2> QED
      BY <1>1, <1>4, <2>1, <2>2, <2>3, MovesGood
<1>5. ASSUME Answers(r)
      PROVE  /\ ReqsOK' /\ ServerTypeOK' /\ cfg' = cfg /\ phase' = phase
             /\ req'[r] = Idle /\ \A s \in Requests \ {r} : req'[s] = req[s]
    BY <1>5, AnswersGood
<1>6. \/ members' = members /\ vouched' = vouched
      \/ /\ e \notin members /\ members' = members \cup {e}
         /\ vouched' = IF req[r].human THEN vouched \cup {e} ELSE vouched
    BY DEF InsertUser, Insertable
<1>7. \/ /\ Holds(r, [req[r] EXCEPT !.pc = "render", !.todo = Which])
         /\ UNCHANGED serverVars
         /\ e \notin members /\ e \in members' /\ welcomed' = welcomed \cup {e}
      \/ Answers(r) /\ welcomed' = welcomed
    BY DEF InsertUser, Insertable
<1> HIDE DEF e
<1>8. RowsOK'
    BY <1>1, <1>3, <1>6, <1>7 DEF RowsOK
<1> QED
    BY <1>1, <1>4, <1>5, <1>6, <1>7, <1>8 DEF Typed, e

-----------------------------------------------------------------------------
(* What is known of one email of a member.                                  *)

Data(e, w) == [mail |-> mail[e][w], rows |-> audit[e][w], tries |-> tries[e][w],
               lost |-> <<e, w>> \in unaudited]

\* Nothing has been done about it.
Untouched(d) == d.mail = Fate("none") /\ d.rows = <<>> /\ d.tries = 0 /\ ~d.lost

\* The sending of it has panicked, and nobody knows yet.
Panicked(d) == d.mail = Fate("panic") /\ d.rows = <<>> /\ d.tries = 1 /\ ~d.lost

\* It has been sent, or not, as result c tells the handler.
Owed(d, c) ==
    /\ d.rows = <<>> /\ d.tries = 1 /\ ~d.lost
    /\ \/ c = "nil" /\ d.mail.kind = "sent"
       \/ \E f \in Failures : d.mail = Failed(f) /\ c = Categorize(f)
       \/ c = "unknown" /\ d.mail = Fate("panic")

\* It has been seen to.
Settled(d) ==
    /\ d.tries <= 1 /\ d.mail.kind \in {"sent", "failed", "panic", "unrendered"}
    /\ ~d.lost /\ d.mail.kind = "sent" => d.rows = <<>>
    /\ ~d.lost /\ d.mail.kind = "failed" =>
         Len(d.rows) = 1 /\ Diagnoses(d.rows[1], d.mail.of)
    /\ ~d.lost /\ d.mail.kind \notin {"sent", "failed"} => d.rows = <<"unknown">>

\* What a handler that holds q may rely on about email w.
Story(q, w, d) ==
    /\ q.pc = "render" =>
         IF w \in q.todo \cup q.sends THEN Untouched(d) ELSE Settled(d)
    /\ q.pc = "spawn" =>
         /\ w \notin q.sends => Settled(d)
         /\ w \in q.sends /\ q.task[w] \in {"none", "running"} => Untouched(d)
         /\ q.task[w] = "panicking" => Panicked(d)
         /\ q.task[w] \in {"returned", "ended"} => Owed(d, q.errs[w])
    /\ q.pc = "record" => IF w \in q.todo THEN Owed(d, q.errs[w]) ELSE Settled(d)

Limited(d) == d.tries <= 1

\* Whatever a handler is at, no email has been sent twice.
LEMMA StoryLimited ==
    ASSUME NEW q, Good(q), Registers(q), NEW w \in Which, NEW d, Story(q, w, d)
    PROVE  Limited(d)
<1>1. q.task[w] \in Tasks /\ (q.pc = "spawn" => (q.task[w] = "none" <=> w \in q.todo \/ w \notin q.sends))
    BY DEF Good, Request, Shape
<1>2. Untouched(d) \/ Panicked(d) \/ Settled(d) \/ Owed(d, q.errs[w])
    BY <1>1 DEF Story, Registers, Tasks
<1>3. Untouched(d) \/ Panicked(d) => Limited(d)
    BY DEF Limited, Untouched, Panicked, Fate
<1>4. Settled(d) => Limited(d)
    BY DEF Limited, Settled
<1>5. CASE Owed(d, q.errs[w])
  <2>1. \A f : Failed(f).kind = "failed" /\ Fate("panic").kind = "panic"
      BY DEF Failed, Fate
  <2>2. d.mail.kind \in {"sent", "failed", "panic"} /\ d.tries = 1
      BY <1>5, <2>1 DEF Owed
  <2> QED
      BY <2>2 DEF Limited
<1> QED
    BY <1>2, <1>3, <1>4, <1>5

\* The category of a failure is the one by which an operator would know it.
LEMMA CategorizeDiagnoses ==
    ASSUME NEW f \in Failures
    PROVE  Categorize(f) \in Categories /\ Diagnoses(Categorize(f), f)
<1>1. f \in Failure
    BY FailuresAreFailures
<1> QED
    BY <1>1 DEF Failure, Categorize, Categories, Diagnoses

\* What is owed is settled by recording a failure, or by its not having failed.
LEMMA OweNothing ==
    ASSUME NEW d, Owed(d, "nil")
    PROVE  Settled(d)
<1>1. \A f \in Failures : Categorize(f) # "nil"
    BY CategorizeDiagnoses DEF Categories
<1>2. d.rows = <<>> /\ d.tries = 1 /\ d.mail.kind = "sent"
    BY <1>1 DEF Owed
<1> QED
    BY <1>2 DEF Settled

LEMMA OwePaid ==
    ASSUME NEW d, NEW x, NEW c \in Categories, Owed(d, c),
           x.mail = d.mail, x.tries = d.tries,
           x.lost \/ x.rows = Append(d.rows, c)
    PROVE  Settled(x)
<1>1. /\ d.rows = <<>> /\ d.tries = 1
      /\ \/ \E f \in Failures : d.mail = Failed(f) /\ c = Categorize(f)
         \/ c = "unknown" /\ d.mail = Fate("panic")
    BY DEF Owed, Categories
<1>2. Append(<<>>, c) = <<c>> /\ Len(<<c>>) = 1 /\ <<c>>[1] = c
    OBVIOUS
<1>3. CASE c = "unknown" /\ d.mail = Fate("panic")
    BY <1>1, <1>2, <1>3 DEF Settled, Fate
<1>4. ASSUME NEW f \in Failures, d.mail = Failed(f), c = Categorize(f)
      PROVE  Settled(x)
  <2>1. d.mail.kind = "failed" /\ d.mail.of = f
      BY <1>4 DEF Failed
  <2>2. Diagnoses(c, f)
      BY <1>4, CategorizeDiagnoses
  <2>3. x.lost \/ x.rows = <<c>>
      BY <1>1, <1>2
  <2>4. x.lost \/ (Len(x.rows) = 1 /\ Diagnoses(x.rows[1], x.mail.of))
      BY <1>2, <2>1, <2>2, <2>3
  <2> QED
      BY <1>1, <2>1, <2>4 DEF Settled
<1> QED
    BY <1>1, <1>3, <1>4

\* An email that could not be rendered is settled by recording just that.
LEMMA UnrenderedSettled ==
    ASSUME NEW d, NEW x, Untouched(d), x.mail = Fate("unrendered"), x.tries = d.tries,
           x.lost \/ x.rows = Append(d.rows, "unknown")
    PROVE  Settled(x)
<1>1. x.mail.kind = "unrendered" /\ x.tries = 0 /\ d.rows = <<>>
    BY DEF Untouched, Fate
<1>2. Append(<<>>, "unknown") = <<"unknown">>
    OBVIOUS
<1>3. x.lost \/ x.rows = <<"unknown">>
    BY <1>1, <1>2
<1> QED
    BY <1>1, <1>3 DEF Settled

-----------------------------------------------------------------------------
(* What one step of the handler, or of a goroutine, does after the INSERT.  *)

\* An entry of a table by address and email is changed, and only it.
LEMMA EntryChanged ==
    ASSUME NEW T, NEW f \in [Emails -> [Which -> T]], NEW e \in Emails, NEW w \in Which,
           NEW x \in T, NEW g, g = [f EXCEPT ![e][w] = x]
    PROVE  /\ g \in [Emails -> [Which -> T]]
           /\ g[e][w] = x
           /\ \A h \in Emails, v \in Which : h # e \/ v # w => g[h][v] = f[h][v]
OBVIOUS

\* A failure is recorded for one email, or the record of it is lost.
LEMMA RecordFacts ==
    ASSUME Typed, NEW r \in Requests, NEW e \in Emails, req[r].email = e,
           NEW w \in Which, NEW c \in Categories, RecordFailure(r, w, c)
    PROVE  /\ audit' \in [Emails -> [Which -> Seq(Categories)]]
           /\ unaudited' \subseteq Emails \X Which
           /\ <<e, w>> \in unaudited' \/ audit'[e][w] = Append(audit[e][w], c)
           /\ \A h \in Emails, v \in Which : h # e \/ v # w =>
                audit'[h][v] = audit[h][v]
                /\ (<<h, v>> \in unaudited' <=> <<h, v>> \in unaudited)
<1>1. /\ audit \in [Emails -> [Which -> Seq(Categories)]]
      /\ unaudited \subseteq Emails \X Which
    BY DEF Typed, RowsOK
<1>2. CASE audit' = [audit EXCEPT ![e][w] = Append(audit[e][w], c)] /\ unaudited' = unaudited
  <2>1. Append(audit[e][w], c) \in Seq(Categories)
      BY <1>1
  <2> QED
      BY <1>1, <1>2, <2>1, EntryChanged
<1>3. CASE unaudited' = unaudited \cup {<<e, w>>} /\ audit' = audit
    BY <1>1, <1>3
<1> QED
    BY <1>2, <1>3 DEF RecordFailure

\* What is known of an email depends on its entries only.
LEMMA SameData ==
    ASSUME NEW h \in Emails, NEW v \in Which, mail'[h][v] = mail[h][v],
           audit'[h][v] = audit[h][v], tries'[h][v] = tries[h][v],
           <<h, v>> \in unaudited' <=> <<h, v>> \in unaudited
    PROVE  Data(h, v)' = Data(h, v)
BY DEF Data

\* The handler of request r is seeing to the emails to e, and knows how far each is.
Known(r, e) ==
    /\ Typed /\ req[r].email = e /\ Registers(req[r])
    /\ \A w \in Which : Story(req[r], w, Data(e, w))

\* After a step it still does, or has seen to both; nothing else has changed.
Late(r, e) ==
    /\ Typed' /\ cfg' = cfg /\ phase' = phase
    /\ \A s \in Requests \ {r} : req'[s] = req[s]
    /\ UNCHANGED <<members, vouched, welcomed, abandoned>>
    /\ \A h \in Emails \ {e}, v \in Which : Data(h, v)' = Data(h, v)
    /\ \/ /\ Registers(req'[r]) /\ req'[r].email = e
          /\ \A v \in Which : Story(req'[r], v, Data(e, v)')
       \/ req'[r] = Idle /\ \A v \in Which : Settled(Data(e, v)')

\* A step that touches nothing but what the handler holds.
LEMMA QuietLate ==
    ASSUME NEW r \in Requests, NEW e \in Emails, Known(r, e),
           NEW p, Good(p), Registers(p), p.email = e, Holds(r, p),
           UNCHANGED <<serverVars, members, audit, history>>,
           \A v \in Which : Story(p, v, Data(e, v))
    PROVE  Late(r, e)
<1>1. Typed /\ RowsOK /\ ~At(r, "idle") /\ p.pc # "idle"
    BY DEF Known, Registers, At, Typed
<1>2. /\ ReqsOK' /\ ServerTypeOK' /\ cfg' = cfg /\ phase' = phase /\ req'[r] = p
      /\ \A s \in Requests \ {r} : req'[s] = req[s]
    BY <1>1, MovesGood
<1>3. RowsOK'
    BY <1>1 DEF RowsOK, history
<1>4. \A h \in Emails, v \in Which : Data(h, v)' = Data(h, v)
    BY SameData DEF history
<1> QED
    BY <1>2, <1>3, <1>4 DEF Late, Typed, history

\* An email is rendered, or recorded as one that cannot be.
LEMMA RenderLate ==
    ASSUME NEW r \in Requests, NEW e \in Emails, Known(r, e), Render(r)
    PROVE  Late(r, e)
<1> DEFINE q == req[r]
           n == Now(r)
<1>1. /\ Typed /\ RowsOK /\ Good(q) /\ q \in Request /\ q.pc = "render" /\ Shape(q)
      /\ q.email = e /\ ~At(r, "idle") /\ At(r, "render")
    BY AtFacts DEF Known, Render, At, Typed, Good
<1>2. q.todo \in SUBSET Which /\ n \in q.todo /\ n \in Which /\ n \notin q.sends
    BY <1>1, FirstFact DEF Now, Request, Render, Shape
<1>3. \A w \in Which : Story(q, w, Data(e, w))
    BY DEF Known
<1>4. Untouched(Data(e, n))
    BY <1>1, <1>2, <1>3 DEF Story
<1>5. UNCHANGED <<serverVars, members, vouched, welcomed, tries, abandoned>>
    BY DEF Render
<1>6. CASE /\ Holds(r, [NowDone(r) EXCEPT !.sends = @ \cup {Now(r)}])
           /\ UNCHANGED <<audit, mail, unaudited>>
  <2> DEFINE p == [NowDone(r) EXCEPT !.sends = @ \cup {Now(r)}]
  <2>1. /\ p \in Request /\ p.pc = "render" /\ p.email = e /\ p.task = q.task
        /\ p.wg = q.wg /\ p.errs = q.errs /\ p.todo = q.todo \ {n}
        /\ p.sends = q.sends \cup {n}
      BY <1>1, <1>2 DEF NowDone, Request
  <2>2. Shape(p)
      BY <1>1, <1>2, <2>1 DEF Shape
  <2>3. Good(p)
      BY <1>1, <2>1, <2>2, SameCount
  <2>4. Holds(r, p)
      BY <1>6
  <2> HIDE DEF p
  <2>5. \A v \in Which : Story(p, v, Data(e, v))
      BY <1>1, <1>2, <1>3, <2>1 DEF Story
  <2> QED
      BY <1>5, <1>6, <2>1, <2>3, <2>4, <2>5, QuietLate DEF Registers, history
<1>7. CASE /\ Holds(r, NowDone(r))
           /\ mail' = [mail EXCEPT ![req[r].email][Now(r)] = Fate("unrendered")]
           /\ RecordFailure(r, Now(r), "unknown")
  <2> DEFINE p == NowDone(r)
  <2>1. /\ p \in Request /\ p.pc = "render" /\ p.email = e /\ p.task = q.task
        /\ p.wg = q.wg /\ p.errs = q.errs /\ p.todo = q.todo \ {n}
        /\ p.sends = q.sends
      BY <1>1, <1>2 DEF NowDone, Request
  <2>2. Shape(p)
      BY <1>1, <1>2, <2>1 DEF Shape
  <2>3. Good(p)
      BY <1>1, <2>1, <2>2, SameCount
  <2>4. Holds(r, p)
      BY <1>7
  <2>5. /\ RecordFailure(r, n, "unknown") /\ "unknown" \in Categories
        /\ mail' = [mail EXCEPT ![e][n] = Fate("unrendered")]
        /\ Fate("unrendered") \in Outcome
      BY <1>1, <1>7 DEF Categories, Outcome
  <2> HIDE DEF p, n, q
  <2>6. /\ ReqsOK' /\ ServerTypeOK' /\ cfg' = cfg /\ phase' = phase /\ req'[r] = p
        /\ \A s \in Requests \ {r} : req'[s] = req[s]
      BY <1>1, <1>5, <2>1, <2>3, <2>4, MovesGood
  <2>7. /\ audit' \in [Emails -> [Which -> Seq(Categories)]]
        /\ unaudited' \subseteq Emails \X Which
        /\ <<e, n>> \in unaudited' \/ audit'[e][n] = Append(audit[e][n], "unknown")
        /\ \A h \in Emails, v \in Which : h # e \/ v # n =>
             audit'[h][v] = audit[h][v]
             /\ (<<h, v>> \in unaudited' <=> <<h, v>> \in unaudited)
    <3>1. req[r].email = e
        BY <1>1 DEF q
    <3> QED
        BY <1>1, <1>2, <2>5, <3>1, RecordFacts
  <2>8. /\ mail' \in [Emails -> [Which -> Outcome]] /\ mail'[e][n] = Fate("unrendered")
        /\ \A h \in Emails, v \in Which : h # e \/ v # n => mail'[h][v] = mail[h][v]
      BY <1>1, <1>2, <2>5, EntryChanged DEF RowsOK
  <2>9. RowsOK'
      BY <1>1, <1>5, <2>7, <2>8 DEF RowsOK
  <2>10. \A h \in Emails, v \in Which : h # e \/ v # n => Data(h, v)' = Data(h, v)
      BY <1>5, <2>7, <2>8, SameData
  <2>11. ASSUME NEW v \in Which, v = n PROVE Settled(Data(e, v)')
    <3>1. /\ Data(e, v)'.mail = Fate("unrendered") /\ Data(e, v)'.tries = Data(e, v).tries
          /\ Data(e, v)'.lost \/ Data(e, v)'.rows = Append(Data(e, v).rows, "unknown")
        BY <1>5, <2>7, <2>8, <2>11 DEF Data
    <3>2. Untouched(Data(e, v))
        BY <1>4, <2>11
    <3> QED
        BY <3>1, <3>2, UnrenderedSettled
  <2>12. ASSUME NEW v \in Which PROVE Story(p, v, Data(e, v)')
    <3>1. CASE v = n
        BY <1>2, <2>1, <2>11, <3>1 DEF Story
    <3>2. CASE v # n
      <4>1. Data(e, v)' = Data(e, v) /\ Story(q, v, Data(e, v))
          BY <1>3, <2>10, <3>2
      <4> QED
          BY <1>1, <2>1, <3>2, <4>1 DEF Story
    <3> QED
        BY <3>1, <3>2
  <2> QED
      BY <1>5, <2>1, <2>6, <2>9, <2>10, <2>12 DEF Late, Typed, Registers
<1> QED
    BY <1>6, <1>7 DEF Render

\* Every email has been rendered or recorded.
LEMMA RenderedLate ==
    ASSUME NEW r \in Requests, NEW e \in Emails, Known(r, e), Rendered(r)
    PROVE  Late(r, e)
<1> DEFINE q == req[r]
           p == [req[r] EXCEPT !.pc = "spawn", !.todo = req[r].sends]
<1>1. /\ Good(q) /\ q \in Request /\ q.pc = "render" /\ Shape(q) /\ q.email = e
      /\ q.todo = {} /\ \A w \in Which : Story(q, w, Data(e, w))
    BY AtFacts DEF Known, Rendered, At, Good
<1>2. /\ p \in Request /\ p.pc = "spawn" /\ p.email = e /\ p.task = q.task
      /\ p.wg = q.wg /\ p.errs = q.errs /\ p.todo = q.sends /\ p.sends = q.sends
    BY <1>1 DEF Request, Labels
<1>3. Shape(p)
    BY <1>1, <1>2 DEF Shape
<1>4. Good(p)
    BY <1>1, <1>2, <1>3, SameCount
<1>5. \A w \in Which : q.task[w] = "none"
    BY <1>1 DEF Shape
<1>6. \A w \in Which : Story(p, w, Data(e, w))
    BY <1>1, <1>2, <1>5 DEF Story
<1> QED
    BY <1>2, <1>4, <1>6, QuietLate DEF Rendered, Registers

\* A goroutine is started.
LEMMA SpawnLate ==
    ASSUME NEW r \in Requests, NEW e \in Emails, Known(r, e), Spawn(r)
    PROVE  Late(r, e)
<1> DEFINE q == req[r]
           n == Now(r)
           p == Spawned(r)
<1>1. /\ Good(q) /\ q \in Request /\ q.pc = "spawn" /\ Shape(q) /\ q.email = e
      /\ q.todo # {} /\ At(r, "spawn") /\ \A w \in Which : Story(q, w, Data(e, w))
    BY AtFacts DEF Known, Spawn, At, Good
<1>2. Good(p)
    BY <1>1, SpawnGood
<1>3. q.todo \in SUBSET Which /\ n \in q.todo /\ n \in Which
    BY <1>1, FirstFact DEF Now, Request
<1>4. /\ p.pc = "spawn" /\ p.email = e /\ p.sends = q.sends /\ p.errs = q.errs
      /\ p.task = [q.task EXCEPT ![n] = "running"] /\ q.task \in [Which -> Tasks]
    BY <1>1 DEF Spawned, NowDone, Request
<1>5. n \in q.sends /\ q.task[n] = "none"
    BY <1>1, <1>3 DEF Shape
<1>6. ASSUME NEW w \in Which PROVE Story(p, w, Data(e, w))
  <2>1. w # n => p.task[w] = q.task[w]
      BY <1>4
  <2>2. w = n => p.task[w] = "running"
      BY <1>3, <1>4
  <2> QED
      BY <1>1, <1>4, <1>5, <2>1, <2>2 DEF Story
<1> QED
    BY <1>2, <1>4, <1>6, QuietLate DEF Spawn, Registers

\* Both goroutines have ended.
LEMMA WaitLate ==
    ASSUME NEW r \in Requests, NEW e \in Emails, Known(r, e), Wait(r)
    PROVE  Late(r, e)
<1> DEFINE q == req[r]
           p == [req[r] EXCEPT !.pc = "record", !.todo = req[r].sends]
<1>1. /\ Good(q) /\ q \in Request /\ q.pc = "spawn" /\ Shape(q) /\ q.email = e
      /\ q.todo = {} /\ q.wg = 0 /\ \A w \in Which : Story(q, w, Data(e, w))
    BY AtFacts DEF Known, Wait, At, Good
<1>2. Good(p) /\ \A w \in q.sends : q.task[w] = "ended"
    BY <1>1, WaitGood
<1>3. /\ p.pc = "record" /\ p.email = e /\ p.errs = q.errs /\ p.todo = q.sends
      /\ q.sends \in SUBSET Which
    BY <1>1 DEF Request
<1>4. \A w \in Which : Story(p, w, Data(e, w))
    BY <1>1, <1>2, <1>3 DEF Story
<1> QED
    BY <1>2, <1>3, <1>4, QuietLate DEF Wait, Registers

\* What a goroutine left is recorded, if it is a failure.
LEMMA RecordLate ==
    ASSUME NEW r \in Requests, NEW e \in Emails, Known(r, e), Record(r)
    PROVE  Late(r, e)
<1> DEFINE q == req[r]
           n == Now(r)
           p == NowDone(r)
           c == req[r].errs[Now(r)]
<1>1. /\ Typed /\ RowsOK /\ Good(q) /\ q \in Request /\ q.pc = "record" /\ Shape(q)
      /\ q.email = e /\ req[r].email = e /\ ~At(r, "idle") /\ q.todo # {}
      /\ \A w \in Which : Story(q, w, Data(e, w))
    BY AtFacts DEF Known, Record, At, Typed, Good
<1>2. q.todo \in SUBSET Which /\ n \in q.todo /\ n \in Which
    BY <1>1, FirstFact DEF Now, Request
<1>3. UNCHANGED <<serverVars, members, vouched, welcomed, mail, tries, abandoned>>
    BY DEF Record
<1>4. /\ p \in Request /\ p.pc = "record" /\ p.email = e /\ p.task = q.task
      /\ p.wg = q.wg /\ p.errs = q.errs /\ p.todo = q.todo \ {n} /\ p.sends = q.sends
    BY <1>1, <1>2 DEF NowDone, Request
<1>5. Shape(p)
    BY <1>1, <1>2, <1>4 DEF Shape
<1>6. Good(p) /\ Holds(r, p)
    BY <1>1, <1>4, <1>5, SameCount DEF Record
<1>7. c \in Categories \cup {"nil"} /\ c = q.errs[n]
    BY <1>1, <1>2 DEF Request
<1>8. Owed(Data(e, n), c)
    BY <1>1, <1>2, <1>7 DEF Story
<1>9. /\ c = "nil" => UNCHANGED <<audit, unaudited>>
      /\ c # "nil" => RecordFailure(r, n, c)
    BY DEF Record
<1> HIDE DEF p, n, q, c
<1>10. /\ ReqsOK' /\ ServerTypeOK' /\ cfg' = cfg /\ phase' = phase /\ req'[r] = p
       /\ \A s \in Requests \ {r} : req'[s] = req[s]
    BY <1>1, <1>3, <1>4, <1>6, MovesGood
<1>11. /\ audit' \in [Emails -> [Which -> Seq(Categories)]]
       /\ unaudited' \subseteq Emails \X Which
       /\ c # "nil" => <<e, n>> \in unaudited' \/ audit'[e][n] = Append(audit[e][n], c)
       /\ \A h \in Emails, v \in Which : h # e \/ v # n =>
            audit'[h][v] = audit[h][v]
            /\ (<<h, v>> \in unaudited' <=> <<h, v>> \in unaudited)
  <2>1. CASE c = "nil"
      BY <1>1, <1>9, <2>1 DEF RowsOK
  <2>2. CASE c # "nil"
      BY <1>1, <1>2, <1>7, <1>9, <2>2, RecordFacts
  <2> QED
      BY <2>1, <2>2
<1>12. RowsOK'
    BY <1>1, <1>3, <1>11 DEF RowsOK
<1>13. \A h \in Emails, v \in Which : h # e \/ v # n => Data(h, v)' = Data(h, v)
    BY <1>3, <1>11, SameData
<1>14. ASSUME NEW v \in Which, v = n PROVE Settled(Data(e, v)')
  <2>1. Owed(Data(e, v), c)
      BY <1>8, <1>14
  <2>2. CASE c = "nil"
    <3>1. Data(e, v)' = Data(e, v)
        BY <1>3, <1>9, <2>2, SameData
    <3>2. Settled(Data(e, v))
        BY <2>1, <2>2, OweNothing
    <3> QED
        BY <3>1, <3>2
  <2>3. CASE c # "nil"
    <3>1. /\ Data(e, v)'.mail = Data(e, v).mail /\ Data(e, v)'.tries = Data(e, v).tries
          /\ Data(e, v)'.lost \/ Data(e, v)'.rows = Append(Data(e, v).rows, c)
        BY <1>3, <1>11, <1>14, <2>3 DEF Data
    <3>2. c \in Categories
        BY <1>7, <2>3
    <3> QED
        BY <2>1, <3>1, <3>2, OwePaid
  <2> QED
      BY <2>2, <2>3
<1>15. ASSUME NEW v \in Which PROVE Story(p, v, Data(e, v)')
  <2>1. CASE v = n
      BY <1>2, <1>4, <1>14, <2>1 DEF Story
  <2>2. CASE v # n
    <3>1. Data(e, v)' = Data(e, v) /\ Story(q, v, Data(e, v))
        BY <1>1, <1>13, <2>2
    <3> QED
        BY <1>1, <1>4, <2>2, <3>1 DEF Story
  <2> QED
      BY <2>1, <2>2
<1> QED
    BY <1>3, <1>4, <1>10, <1>12, <1>13, <1>15 DEF Late, Typed, Registers

\* The member is told.
LEMMA CreatedLate ==
    ASSUME NEW r \in Requests, NEW e \in Emails, Known(r, e), Created(r)
    PROVE  Late(r, e)
<1>1. Typed /\ RowsOK /\ req[r].pc = "record" /\ req[r].todo = {}
    BY DEF Known, Created, At, Typed
<1>2. \A v \in Which : Settled(Data(e, v))
    BY <1>1 DEF Known, Story
<1>3. Answers(r) /\ UNCHANGED <<members, audit, history>>
    BY DEF Created
<1>4. /\ ReqsOK' /\ ServerTypeOK' /\ cfg' = cfg /\ phase' = phase /\ req'[r] = Idle
      /\ \A s \in Requests \ {r} : req'[s] = req[s]
    BY <1>1, <1>3, AnswersGood
<1>5. RowsOK'
    BY <1>1, <1>3 DEF RowsOK, history
<1>6. \A h \in Emails, v \in Which : Data(h, v)' = Data(h, v)
    BY <1>3, SameData DEF history
<1>7. \A v \in Which : Settled(Data(e, v)')
    BY <1>2, <1>6
<1> QED
    BY <1>3, <1>4, <1>5, <1>6, <1>7 DEF Late, Typed, history

\* A goroutine is at work for a handler that waits.
LEMMA AtWork ==
    ASSUME Typed, NEW r \in Requests, NEW w \in Which,
           req[r].task[w] \in {"running", "panicking", "returned"}
    PROVE  req[r].pc = "spawn" /\ Good(req[r]) /\ req[r] \in Request
BY DEF Typed, ReqsOK, Good, Shape, Request, Labels

\* The goroutine of one email has moved on, as p says.
LEMMA TaskStory ==
    ASSUME NEW q \in Request, q.pc = "spawn", NEW w \in Which, NEW t \in Tasks,
           NEW c \in Categories \cup {"nil"},
           NEW p \in Request, p.pc = "spawn", p.sends = q.sends,
           p.task = [q.task EXCEPT ![w] = t], p.errs = [q.errs EXCEPT ![w] = c],
           w \in q.sends, NEW d,
           t = "panicking" => Panicked(d), t \in {"returned", "ended"} => Owed(d, c),
           t \in {"panicking", "returned", "ended"}
    PROVE  /\ Story(p, w, d)
           /\ \A v \in Which : v # w => \A x : Story(q, v, x) => Story(p, v, x)
<1>1. p.task[w] = t /\ p.errs[w] = c
    BY DEF Request
<1>2. \A v \in Which : v # w => p.task[v] = q.task[v] /\ p.errs[v] = q.errs[v]
    BY DEF Request
<1>3. Story(p, w, d)
    BY <1>1 DEF Story
<1>4. ASSUME NEW v \in Which, v # w, NEW x, Story(q, v, x) PROVE Story(p, v, x)
    BY <1>2, <1>4 DEF Story
<1> QED
    BY <1>3, <1>4

\* What the sending of an email leaves behind, if it is not seen to yet.
LEMMA SentOwed ==
    ASSUME NEW d, NEW x, Untouched(d), x.rows = d.rows, x.tries = d.tries + 1,
           x.lost = d.lost
    PROVE  /\ x.mail = Fate("sent") => Owed(x, "nil")
           /\ \A f \in Failures : x.mail = Failed(f) => Owed(x, Categorize(f))
           /\ x.mail = Fate("panic") => Panicked(x)
<1>1. x.rows = <<>> /\ x.tries = 1 /\ ~x.lost
    BY DEF Untouched
<1>2. x.mail = Fate("sent") => x.mail.kind = "sent"
    BY DEF Fate
<1>3. x.mail = Fate("sent") => Owed(x, "nil")
    BY <1>1, <1>2 DEF Owed
<1>4. \A f \in Failures : x.mail = Failed(f) => Owed(x, Categorize(f))
    BY <1>1 DEF Owed
<1>5. x.mail = Fate("panic") => Panicked(x)
    BY <1>1 DEF Panicked
<1> QED
    BY <1>3, <1>4, <1>5

\* An email is sent, is not, or panics.
LEMMA SendLate ==
    ASSUME NEW r \in Requests, NEW e \in Emails, Known(r, e),
           NEW w \in Which, Send(r, w)
    PROVE  Late(r, e)
<1> DEFINE q == req[r]
<1>1. /\ Typed /\ RowsOK /\ q.email = e /\ q.task[w] = "running"
      /\ \A v \in Which : Story(q, v, Data(e, v))
    BY DEF Known, Typed, Send, Task
<1>2. q.pc = "spawn" /\ Good(q) /\ q \in Request /\ Shape(q) /\ ~At(r, "idle")
    BY <1>1, AtWork DEF Good, At
<1>3. q.errs[w] = "nil" /\ w \in q.sends /\ Untouched(Data(e, w))
    BY <1>1, <1>2 DEF Shape, Story
<1>4. /\ UNCHANGED <<serverVars, members, audit, vouched, welcomed, unaudited, abandoned>>
      /\ tries' = [tries EXCEPT ![e][w] = tries[e][w] + 1]
    BY <1>1 DEF Send, CallMailer
<1>5. PICK t \in {"panicking", "returned"}, c \in Categories \cup {"nil"}, m \in Outcome :
        /\ t = "panicking" => c = "nil"
        /\ mail' = [mail EXCEPT ![e][w] = m]
        /\ Holds(r, [q EXCEPT !.task[w] = t, !.errs[w] = c])
        /\ \/ m = Fate("sent") /\ t = "returned" /\ c = "nil"
           \/ \E f \in Failures : m = Failed(f) /\ t = "returned" /\ c = Categorize(f)
           \/ m = Fate("panic") /\ t = "panicking"
  <2> DEFINE Q(t, c, m) ==
        /\ t = "panicking" => c = "nil"
        /\ mail' = [mail EXCEPT ![e][w] = m]
        /\ Holds(r, [q EXCEPT !.task[w] = t, !.errs[w] = c])
        /\ \/ m = Fate("sent") /\ t = "returned" /\ c = "nil"
           \/ \E f \in Failures : m = Failed(f) /\ t = "returned" /\ c = Categorize(f)
           \/ m = Fate("panic") /\ t = "panicking"
  <2>1. \A t : [q EXCEPT !.task[w] = t] = [q EXCEPT !.task[w] = t, !.errs[w] = "nil"]
      BY <1>2, <1>3 DEF Request
  <2>2. Fate("sent") \in Outcome /\ Fate("panic") \in Outcome
      BY DEF Outcome
  <2>3. CASE /\ mail' = [mail EXCEPT ![req[r].email][w] = Fate("sent")]
             /\ Holds(r, [req[r] EXCEPT !.task[w] = "returned"])
    <3>1. Q("returned", "nil", Fate("sent"))
        BY <1>1, <2>1, <2>3
    <3> QED
        BY <2>2, <3>1
  <2>4. CASE SendFails(r, w)
    <3>1. PICK f \in Failures :
            /\ mail' = [mail EXCEPT ![req[r].email][w] = Failed(f)]
            /\ Holds(r, [req[r] EXCEPT !.task[w] = "returned",
                                       !.errs[w] = Categorize(f)])
        BY <2>4 DEF SendFails
    <3>2. Q("returned", Categorize(f), Failed(f))
        BY <1>1, <3>1
    <3>3. Failed(f) \in Outcome /\ Categorize(f) \in Categories
        BY CategorizeDiagnoses DEF Outcome
    <3> QED
        BY <3>2, <3>3
  <2>5. CASE /\ mail' = [mail EXCEPT ![req[r].email][w] = Fate("panic")]
             /\ Holds(r, [req[r] EXCEPT !.task[w] = "panicking"])
    <3>1. Q("panicking", "nil", Fate("panic"))
        BY <1>1, <2>1, <2>5
    <3> QED
        BY <2>2, <3>1
  <2> QED
      BY <2>3, <2>4, <2>5 DEF Send, CallMailer
<1> DEFINE p == [q EXCEPT !.task[w] = t, !.errs[w] = c]
<1>6. /\ p \in Request /\ p.pc = "spawn" /\ p.email = e /\ p.sends = q.sends
      /\ p.task = [q.task EXCEPT ![w] = t] /\ p.errs = [q.errs EXCEPT ![w] = c]
    BY <1>1, <1>2 DEF Request, Tasks
<1>7. Good(p)
    BY <1>1, <1>2, <1>3, <1>5, <1>6, TaskGood
<1> HIDE DEF p, q
<1>8. /\ ReqsOK' /\ ServerTypeOK' /\ cfg' = cfg /\ phase' = phase /\ req'[r] = p
      /\ \A s \in Requests \ {r} : req'[s] = req[s]
    BY <1>1, <1>2, <1>4, <1>5, <1>6, <1>7, MovesGood DEF p
<1>9. /\ mail' \in [Emails -> [Which -> Outcome]] /\ mail'[e][w] = m
      /\ \A h \in Emails, v \in Which : h # e \/ v # w => mail'[h][v] = mail[h][v]
    BY <1>1, <1>5, EntryChanged DEF RowsOK
<1>10. /\ tries' \in [Emails -> [Which -> Nat]] /\ tries'[e][w] = tries[e][w] + 1
       /\ \A h \in Emails, v \in Which : h # e \/ v # w => tries'[h][v] = tries[h][v]
  <2>1. tries \in [Emails -> [Which -> Nat]] /\ tries[e][w] + 1 \in Nat
      BY <1>1 DEF RowsOK
  <2> QED
      BY <1>4, <2>1, EntryChanged
<1>11. RowsOK'
    BY <1>1, <1>4, <1>9, <1>10 DEF RowsOK
<1>12. \A h \in Emails, v \in Which : h # e \/ v # w => Data(h, v)' = Data(h, v)
    BY <1>4, <1>9, <1>10, SameData
<1>13. (t = "panicking" => Panicked(Data(e, w)')) /\ (t = "returned" => Owed(Data(e, w)', c))
  <2>1. /\ Data(e, w)'.mail = m /\ Data(e, w)'.rows = Data(e, w).rows
        /\ Data(e, w)'.tries = Data(e, w).tries + 1
        /\ Data(e, w)'.lost = Data(e, w).lost
      BY <1>4, <1>9, <1>10 DEF Data
  <2> QED
      BY <1>3, <1>5, <2>1, SentOwed
<1>14. \A v \in Which : Story(p, v, Data(e, v)')
  <2>1. /\ Story(p, w, Data(e, w)')
        /\ \A v \in Which : v # w => \A x : Story(q, v, x) => Story(p, v, x)
    <3>1. /\ t \in Tasks /\ c \in Categories \cup {"nil"}
          /\ t \in {"panicking", "returned", "ended"}
          /\ t \in {"returned", "ended"} => Owed(Data(e, w)', c)
        BY <1>5, <1>13 DEF Tasks
    <3> DEFINE d == Data(e, w)'
    <3>2. (t = "panicking" => Panicked(d)) /\ (t \in {"returned", "ended"} => Owed(d, c))
        BY <1>13, <3>1
    <3> HIDE DEF d
    <3>3. /\ Story(p, w, d)
          /\ \A v \in Which : v # w => \A x : Story(q, v, x) => Story(p, v, x)
        BY <1>2, <1>3, <1>6, <3>1, <3>2, TaskStory
    <3> QED
        BY <3>3 DEF d
  <2>2. ASSUME NEW v \in Which, v # w PROVE Story(p, v, Data(e, v)')
      BY <1>1, <1>12, <2>1, <2>2
  <2> QED
      BY <2>1, <2>2
<1> QED
    BY <1>4, <1>6, <1>8, <1>11, <1>12, <1>14 DEF Late, Typed, Registers

\* A panic is caught and becomes a failure.
LEMMA RecoverLate ==
    ASSUME NEW r \in Requests, NEW e \in Emails, Known(r, e),
           NEW w \in Which, Recover(r, w)
    PROVE  Late(r, e)
<1> DEFINE q == req[r]
           p == Recovered(req[r], w)
<1>1. /\ Typed /\ q.email = e /\ q.task[w] = "panicking"
      /\ \A v \in Which : Story(q, v, Data(e, v))
    BY DEF Known, Recover, Task
<1>2. q.pc = "spawn" /\ Good(q) /\ q \in Request /\ Shape(q)
    BY <1>1, AtWork DEF Good
<1>3. w \in q.sends /\ Panicked(Data(e, w))
    BY <1>1, <1>2 DEF Shape, Story
<1>4. Owed(Data(e, w), "unknown")
    BY <1>3 DEF Panicked, Owed
<1>5. /\ p \in Request /\ p.pc = "spawn" /\ p.email = e /\ p.sends = q.sends
      /\ p.task = [q.task EXCEPT ![w] = "returned"] /\ p.errs = [q.errs EXCEPT ![w] = "unknown"]
    BY <1>1, <1>2 DEF Recovered, Request, Tasks, Categories
<1>6. "unknown" \in Categories \cup {"nil"} /\ "returned" \in Tasks
    BY DEF Categories, Tasks
<1>7. p = [q EXCEPT !.task[w] = "returned", !.errs[w] = "unknown"]
    BY DEF Recovered
<1> HIDE DEF p, q
<1>8. Good(p)
    BY <1>1, <1>2, <1>5, <1>6, <1>7, TaskGood
<1>9. \A v \in Which : Story(p, v, Data(e, v))
    BY <1>1, <1>2, <1>3, <1>4, <1>5, <1>6, TaskStory
<1> QED
    BY <1>5, <1>8, <1>9, QuietLate DEF Recover, Registers, p

\* A goroutine ends.
LEMMA DoneLate ==
    ASSUME NEW r \in Requests, NEW e \in Emails, Known(r, e),
           NEW w \in Which, Done(r, w)
    PROVE  Late(r, e)
<1> DEFINE q == req[r]
           p == [req[r] EXCEPT !.task[w] = "ended", !.wg = @ - 1]
           c == req[r].errs[w]
<1>1. /\ Typed /\ q.email = e /\ q.task[w] = "returned"
      /\ \A v \in Which : Story(q, v, Data(e, v))
    BY DEF Known, Done, DoneLast, Task
<1>2. q.pc = "spawn" /\ Good(q) /\ q \in Request /\ Shape(q)
    BY <1>1, AtWork DEF Good
<1>3. w \in q.sends /\ Owed(Data(e, w), c) /\ c \in Categories \cup {"nil"}
    BY <1>1, <1>2 DEF Shape, Story, Request
<1>4. Good(p)
    BY <1>1, <1>2, EndGood
<1>5. /\ p \in Request /\ p.pc = "spawn" /\ p.email = e /\ p.sends = q.sends
      /\ p.task = [q.task EXCEPT ![w] = "ended"] /\ p.errs = [q.errs EXCEPT ![w] = c]
    BY <1>1, <1>2, <1>4 DEF Good, Request
<1>6. "ended" \in Tasks
    BY DEF Tasks
<1>7. Holds(r, p)
    BY DEF Done
<1> HIDE DEF p, q, c
<1>8. \A v \in Which : Story(p, v, Data(e, v))
    BY <1>1, <1>2, <1>3, <1>5, <1>6, TaskStory
<1> QED
    BY <1>4, <1>5, <1>7, <1>8, QuietLate DEF Done, Registers

-----------------------------------------------------------------------------
(* The invariants.                                                          *)

\* Nothing but a configuration LoadConfig let through gets past it.
Booted ==
    /\ phase # "gave_up"
    /\ phase \notin Dead \cup {"load"} => Loads(cfg)

\* Turnstile has vouched for whoever is about to be stored.
Checked ==
    cfg.turnstile =>
        /\ members \subseteq vouched
        /\ \A r \in Requests : req[r].pc \in {"validate", "insert"} => req[r].human

\* Only one handler sees to a member's emails, and knows how far each is; when
\* none does, both are settled, or the process has ended in between.
Mailed ==
    /\ \A r \in Requests, e \in Emails : Registers(req[r]) /\ req[r].email = e =>
         e \in welcomed /\ \A w \in Which : Story(req[r], w, Data(e, w))
    /\ \A r, s \in Requests :
         Registers(req[r]) /\ Registers(req[s]) /\ req[r].email = req[s].email => r = s
    /\ welcomed \subseteq members
    /\ \A e \in Emails \ welcomed, w \in Which : Untouched(Data(e, w))
    /\ \A e \in Emails, w \in Which : Limited(Data(e, w))
    /\ \A e \in welcomed \ abandoned, w \in Which :
         Registering(e) = {} => Settled(Data(e, w))

\* A configuration that is let through is one a mailer can be built from.
LEMMA LoadedHasMailer ==
    ASSUME NEW c, Loads(c)
    PROVE  MailerFor(c) # "none"
<1>1. CASE ~c.mailer
    BY <1>1 DEF MailerFor
<1>2. CASE c.mailer /\ ~Blank(c.apiKey)
    BY <1>2 DEF MailerFor
<1>3. CASE c.mailer /\ Blank(c.apiKey)
    BY <1>3 DEF MailerFor, Loads
<1> QED
    BY <1>1, <1>2, <1>3

\* The process goes on.
LEMMA BootKept ==
    ASSUME Booted, Lifecycle
    PROVE  Booted'
<1> USE DEF Booted, Dead
<1>1. CASE LoadConfig
    BY <1>1 DEF LoadConfig, Becomes
<1>2. CASE OpenDatabase
    BY <1>2 DEF OpenDatabase, Becomes
<1>3. CASE MakeHandler
  <2>1. MailerFor(cfg) # "none"
      BY <1>3, LoadedHasMailer DEF MakeHandler
  <2> QED
      BY <1>3, <2>1 DEF MakeHandler, Becomes
<1>4. CASE Listen
    BY <1>4 DEF Listen, Becomes
<1>5. CASE Signal
    BY <1>5 DEF Signal
<1>6. CASE BeginShutdown
    BY <1>6 DEF BeginShutdown, Becomes
<1>7. CASE Stop
    BY <1>7 DEF Stop, Dies
<1>8. CASE Crash
    BY <1>8 DEF Crash, Dies
<1>9. CASE Restart
    BY <1>9 DEF Restart
<1> QED
    BY <1>1, <1>2, <1>3, <1>4, <1>5, <1>6, <1>7, <1>8, <1>9 DEF Lifecycle

\* The process goes on; requests end with it, or go on as they were.
LEMMA ProcessFacts ==
    ASSUME Typed, Process
    PROVE  /\ Typed' /\ cfg' = cfg
           /\ \A r \in Requests : \/ req'[r] = req[r]
                                  \/ req'[r] = Idle /\ (At(r, "idle") \/ r \in cut')
           /\ UNCHANGED <<members, audit, vouched, welcomed, mail, tries, unaudited>>
           /\ abandoned' = abandoned \cup {e \in Emails : Registering(e) \cap cut' # {}}
<1>1. /\ ServerTypeOK /\ ReqsOK /\ RowsOK /\ Lifecycle
      /\ req' = [r \in Requests |-> IF ctx'[r] = "none" THEN Idle ELSE req[r]]
      /\ UNCHANGED <<members, audit, vouched, welcomed, mail, tries, unaudited>>
      /\ abandoned' = abandoned \cup {e \in Emails : Registering(e) \cap cut' # {}}
    BY DEF Typed, Process
<1>2. /\ ServerTypeOK' /\ cfg' = cfg
      /\ \A r \in Requests : ctx[r] = "none" => ctx'[r] = "none"
      /\ \A r \in Requests : ctx[r] # "none" /\ ctx'[r] = "none" => r \in cut'
    BY <1>1, LifecycleFacts
<1>3. Idle.pc = "idle" /\ Good(Idle) /\ Idle \in Request
    BY IdleGood DEF Idle, Good
<1>4. \A r \in Requests : Good(req[r]) /\ req[r] \in Request /\ (At(r, "idle") <=> ctx[r] = "none")
    BY <1>1 DEF ReqsOK
<1>5. \A r \in Requests : \/ req'[r] = req[r]
                          \/ req'[r] = Idle /\ (At(r, "idle") \/ r \in cut')
    BY <1>1, <1>2, <1>4
<1>6. req' \in [Requests -> Request]
    BY <1>1, <1>3, <1>4
<1>7. \A r \in Requests : Good(req'[r]) /\ (req'[r].pc = "idle" <=> ctx'[r] = "none")
    BY <1>1, <1>2, <1>3, <1>4 DEF At
<1>8. ReqsOK'
    BY <1>6, <1>7 DEF ReqsOK, Good, At
<1>9. RowsOK'
    BY <1>1 DEF RowsOK
<1> QED
    BY <1>1, <1>2, <1>5, <1>8, <1>9 DEF Typed

\* A step before the INSERT concerns no member, and no email.
LEMMA EarlyMailed ==
    ASSUME Typed, Mailed, UNCHANGED <<members, audit, history>>,
           \A s \in Requests : \/ req'[s] = req[s]
                               \/ ~Registers(req[s]) /\ ~Registers(req'[s])
    PROVE  Mailed'
<1>1. \A h \in Emails, v \in Which : Data(h, v)' = Data(h, v)
    BY SameData DEF history
<1>2. /\ \A s \in Requests : Registers(req'[s]) <=> Registers(req[s])
      /\ \A s \in Requests : Registers(req[s]) => req'[s] = req[s]
    OBVIOUS
<1>3. \A e \in Emails : Registering(e)' = Registering(e)
    BY <1>2 DEF Registering, Registers
<1>4. welcomed' = welcomed /\ members' = members /\ abandoned' = abandoned
    BY DEF history
<1>5. ASSUME NEW s \in Requests, NEW e \in Emails, Registers(req'[s]), req'[s].email = e
      PROVE  e \in welcomed' /\ \A w \in Which : Story(req'[s], w, Data(e, w)')
    BY <1>1, <1>2, <1>4, <1>5 DEF Mailed
<1>6. ASSUME NEW r \in Requests, NEW s \in Requests, Registers(req'[r]), Registers(req'[s]),
             req'[r].email = req'[s].email
      PROVE  r = s
    BY <1>2, <1>6 DEF Mailed
<1>7. /\ \A e \in Emails \ welcomed', w \in Which : Untouched(Data(e, w)')
      /\ \A e \in Emails, w \in Which : Limited(Data(e, w)')
      /\ welcomed' \subseteq members'
    BY <1>1, <1>4 DEF Mailed
<1>8. \A e \in welcomed' \ abandoned', w \in Which :
         Registering(e)' = {} => Settled(Data(e, w)')
    BY <1>1, <1>3, <1>4 DEF Mailed, Typed, RowsOK
<1> QED
    BY <1>5, <1>6, <1>7, <1>8 DEF Mailed

\* A step of the handler, or of a goroutine, after the INSERT.
LEMMA LateMailed ==
    ASSUME Typed, Mailed, NEW r \in Requests, NEW e \in Emails, Known(r, e), Late(r, e)
    PROVE  Mailed'
<1>1. /\ Registers(req[r]) /\ req[r].email = e /\ e \in welcomed
      /\ \A s \in Requests : Registers(req[s]) /\ req[s].email = e => s = r
    BY DEF Known, Mailed
<1>2. /\ welcomed' = welcomed /\ members' = members /\ abandoned' = abandoned
      /\ \A s \in Requests \ {r} : req'[s] = req[s]
      /\ \A h \in Emails \ {e}, v \in Which : Data(h, v)' = Data(h, v)
    BY DEF Late
<1>3. Registers(req'[r]) => req'[r].email = e /\ \A v \in Which : Story(req'[r], v, Data(e, v)')
    BY DEF Late, Idle, Registers
<1>4. ~Registers(req'[r]) => \A v \in Which : Settled(Data(e, v)')
    BY DEF Late
<1>5. Good(req'[r])
    BY DEF Late, Typed, ReqsOK
<1>6. ASSUME NEW s \in Requests, NEW h \in Emails, Registers(req'[s]), req'[s].email = h
      PROVE  h \in welcomed' /\ \A w \in Which : Story(req'[s], w, Data(h, w)')
  <2>1. CASE s = r
      BY <1>1, <1>2, <1>3, <1>6, <2>1
  <2>2. CASE s # r
    <3>1. req'[s] = req[s] /\ h # e
        BY <1>1, <1>2, <1>6, <2>2
    <3> QED
        BY <1>2, <1>6, <3>1 DEF Mailed
  <2> QED
      BY <2>1, <2>2
<1>7. ASSUME NEW s \in Requests, NEW t \in Requests, Registers(req'[s]), Registers(req'[t]),
             req'[s].email = req'[t].email
      PROVE  s = t
  <2>1. \A u \in Requests : Registers(req'[u]) => Registers(req[u]) /\ req'[u].email = req[u].email
      BY <1>1, <1>2, <1>3
  <2> QED
      BY <1>7, <2>1 DEF Mailed
<1>8. \A h \in Emails \ welcomed', w \in Which : Untouched(Data(h, w)')
    BY <1>1, <1>2 DEF Mailed
<1>9. ASSUME NEW h \in Emails, NEW w \in Which PROVE Limited(Data(h, w)')
  <2>1. CASE h # e
      BY <1>2, <2>1 DEF Mailed
  <2>2. CASE h = e /\ Registers(req'[r])
      BY <1>3, <1>5, <2>2, StoryLimited
  <2>3. CASE h = e /\ ~Registers(req'[r])
      BY <1>4, <2>3 DEF Settled, Limited
  <2> QED
      BY <2>1, <2>2, <2>3
<1>10. ASSUME NEW h \in welcomed' \ abandoned', NEW w \in Which, Registering(h)' = {}
       PROVE  Settled(Data(h, w)')
  <2>1. h \in Emails /\ h \in welcomed \ abandoned
      BY <1>2 DEF Typed, RowsOK
  <2>2. CASE h = e
    <3>1. ~Registers(req'[r])
        BY <1>3, <1>10, <2>2 DEF Registering, Registers
    <3> QED
        BY <1>4, <2>2, <3>1
  <2>3. CASE h # e
    <3>1. Registering(h) = {}
        BY <1>1, <1>2, <1>10, <2>3 DEF Registering, Registers
    <3> QED
        BY <1>2, <2>1, <2>3, <3>1 DEF Mailed
  <2> QED
      BY <2>2, <2>3
<1>11. welcomed' \subseteq members'
    BY <1>2 DEF Mailed
<1> QED
    BY <1>6, <1>7, <1>8, <1>9, <1>10, <1>11 DEF Mailed

\* The INSERT hands a new member to the one handler that saw it succeed.
LEMMA InsertMailed ==
    ASSUME Typed, Mailed, NEW r \in Requests, InsertUser(r)
    PROVE  Mailed'
<1> DEFINE e == req[r].email
<1>1. /\ At(r, "insert") /\ e \in Emails
      /\ \A s \in Requests \ {r} : req'[s] = req[s]
      /\ UNCHANGED <<audit, mail, tries, unaudited, abandoned>>
      /\ members \subseteq members'
      /\ \/ req'[r] = Idle /\ welcomed' = welcomed
         \/ /\ req'[r].pc = "render" /\ req'[r].email = e /\ req'[r].todo = Which
            /\ e \notin members /\ e \in members' /\ welcomed' = welcomed \cup {e}
    BY InsertFacts
<1>2. ~Registers(req[r]) /\ ~Registers(Idle)
    BY <1>1 DEF Registers, At, Idle
<1>3. PICK f \in Emails : f = e
    BY <1>1
<1> HIDE DEF e
<1>4. \A h \in Emails, v \in Which : Data(h, v)' = Data(h, v)
    BY <1>1, SameData
<1>5. \A s \in Requests : Registers(req[s]) => s # r /\ req'[s] = req[s]
    BY <1>1, <1>2
<1>6. \A h \in Emails, w \in Which : Limited(Data(h, w)')
    BY <1>4 DEF Mailed
<1>7. CASE req'[r] = Idle /\ welcomed' = welcomed
  <2>1. /\ \A s \in Requests : Registers(req'[s]) <=> Registers(req[s])
        /\ welcomed' \subseteq members'
      BY <1>1, <1>2, <1>7 DEF Mailed
  <2>2. \A h \in Emails : Registering(h)' = Registering(h)
      BY <1>5, <2>1 DEF Registering, Registers
  <2>3. ASSUME NEW s \in Requests, NEW h \in Emails, Registers(req'[s]), req'[s].email = h
        PROVE  h \in welcomed' /\ \A w \in Which : Story(req'[s], w, Data(h, w)')
      BY <1>4, <1>5, <1>7, <2>1, <2>3 DEF Mailed
  <2>4. ASSUME NEW s \in Requests, NEW t \in Requests, Registers(req'[s]), Registers(req'[t]),
               req'[s].email = req'[t].email
        PROVE  s = t
      BY <1>5, <2>1, <2>4 DEF Mailed
  <2>5. \A h \in Emails \ welcomed', w \in Which : Untouched(Data(h, w)')
      BY <1>4, <1>7 DEF Mailed
  <2>6. \A h \in welcomed' \ abandoned', w \in Which :
           Registering(h)' = {} => Settled(Data(h, w)')
      BY <1>1, <1>4, <1>7, <2>2 DEF Mailed, Typed, RowsOK
  <2> QED
      BY <1>6, <2>1, <2>3, <2>4, <2>5, <2>6 DEF Mailed
<1>8. CASE /\ req'[r].pc = "render" /\ req'[r].email = f /\ req'[r].todo = Which
           /\ f \notin members /\ f \in members' /\ welcomed' = welcomed \cup {f}
  <2>1. /\ Registers(req'[r]) /\ f \notin welcomed /\ welcomed' \subseteq members'
        /\ \A s \in Requests \ {r} : Registers(req'[s]) => Registers(req[s]) /\ req'[s] = req[s]
      BY <1>1, <1>8 DEF Mailed, Registers
  <2>2. \A w \in Which : Untouched(Data(f, w))
      BY <2>1 DEF Mailed
  <2>3. \A s \in Requests \ {r} : Registers(req'[s]) => req'[s].email # f
      BY <2>1 DEF Mailed
  <2>4. ASSUME NEW s \in Requests, NEW h \in Emails, Registers(req'[s]), req'[s].email = h
        PROVE  h \in welcomed' /\ \A w \in Which : Story(req'[s], w, Data(h, w)')
    <3>1. CASE s = r
        BY <1>4, <1>8, <2>2, <2>4, <3>1 DEF Story
    <3>2. CASE s # r
        BY <1>4, <1>8, <2>1, <2>4, <3>2 DEF Mailed
    <3> QED
        BY <3>1, <3>2
  <2>5. ASSUME NEW s \in Requests, NEW t \in Requests, Registers(req'[s]), Registers(req'[t]),
               req'[s].email = req'[t].email
        PROVE  s = t
    <3>1. CASE s # r /\ t # r
        BY <2>1, <2>5, <3>1 DEF Mailed
    <3>2. CASE s = r \/ t = r
        BY <1>8, <2>3, <2>5, <3>2
    <3> QED
        BY <3>1, <3>2
  <2>6. \A h \in Emails \ welcomed', w \in Which : Untouched(Data(h, w)')
      BY <1>4, <1>8 DEF Mailed
  <2>7. ASSUME NEW h \in welcomed' \ abandoned', NEW w \in Which, Registering(h)' = {}
        PROVE  Settled(Data(h, w)')
    <3>1. h # f
        BY <1>8, <2>1, <2>7 DEF Registering, Registers
    <3>2. h \in welcomed \ abandoned /\ h \in Emails
        BY <1>1, <1>8, <2>7, <3>1 DEF Typed, RowsOK
    <3>3. Registering(h) = {}
        BY <1>5, <2>7 DEF Registering, Registers
    <3> QED
        BY <1>4, <3>2, <3>3 DEF Mailed
  <2> QED
      BY <1>6, <2>1, <2>4, <2>5, <2>6, <2>7 DEF Mailed
<1> QED
    BY <1>1, <1>3, <1>7, <1>8

\* What ends with the process is abandoned.
LEMMA ProcessMailed ==
    ASSUME Typed, Mailed, Process
    PROVE  Mailed'
<1>1. /\ \A r \in Requests : \/ req'[r] = req[r]
                             \/ req'[r] = Idle /\ (At(r, "idle") \/ r \in cut')
      /\ UNCHANGED <<members, audit, vouched, welcomed, mail, tries, unaudited>>
      /\ abandoned' = abandoned \cup {e \in Emails : Registering(e) \cap cut' # {}}
    BY ProcessFacts
<1>2. \A h \in Emails, v \in Which : Data(h, v)' = Data(h, v)
    BY <1>1, SameData
<1>3. \A r \in Requests : Registers(req'[r]) => Registers(req[r]) /\ req'[r] = req[r]
    BY <1>1 DEF Registers, Idle
<1>4. \A r \in Requests : Registers(req[r]) => r \in cut' \/ req'[r] = req[r]
    BY <1>1 DEF Registers, At
<1>5. ASSUME NEW s \in Requests, NEW h \in Emails, Registers(req'[s]), req'[s].email = h
      PROVE  h \in welcomed' /\ \A w \in Which : Story(req'[s], w, Data(h, w)')
    BY <1>1, <1>2, <1>3, <1>5 DEF Mailed
<1>6. ASSUME NEW s \in Requests, NEW t \in Requests, Registers(req'[s]), Registers(req'[t]),
             req'[s].email = req'[t].email
      PROVE  s = t
    BY <1>3, <1>6 DEF Mailed
<1>7. /\ \A e \in Emails \ welcomed', w \in Which : Untouched(Data(e, w)')
      /\ \A e \in Emails, w \in Which : Limited(Data(e, w)')
      /\ welcomed' \subseteq members'
    BY <1>1, <1>2 DEF Mailed
<1>8. ASSUME NEW e \in welcomed' \ abandoned', NEW w \in Which, Registering(e)' = {}
      PROVE  Settled(Data(e, w)')
  <2>1. e \in Emails /\ e \in welcomed \ abandoned /\ Registering(e) \cap cut' = {}
      BY <1>1, <1>8 DEF Typed, RowsOK
  <2>2. Registering(e) = {}
      BY <1>4, <1>8, <2>1 DEF Registering, Registers
  <2> QED
      BY <1>2, <2>1, <2>2 DEF Mailed
<1> QED
    BY <1>5, <1>6, <1>7, <1>8 DEF Mailed

IInv == Typed /\ Booted /\ Checked /\ Mailed

\* Whatever a handler or a goroutine does after the INSERT concerns one member.
LEMMA LateSteps ==
    ASSUME Typed, Mailed, NEW r \in Requests,
           \/ Render(r) \/ Rendered(r) \/ Spawn(r) \/ Wait(r) \/ Record(r) \/ Created(r)
           \/ \E w \in Which : Goroutine(r, w)
    PROVE  \E e \in Emails : Known(r, e) /\ Late(r, e)
<1>1. Registers(req[r]) /\ ~At(r, "idle")
  <2>1. CASE Render(r) \/ Rendered(r) \/ Spawn(r) \/ Wait(r) \/ Record(r) \/ Created(r)
      BY <2>1 DEF Render, Rendered, Spawn, Wait, Record, Created, At, Registers
  <2>2. CASE \E w \in Which : Goroutine(r, w)
    <3>1. \E w \in Which : req[r].task[w] \in {"running", "panicking", "returned"}
        BY <2>2 DEF Goroutine, Send, CallMailer, Recover, Done, DoneLast, Task
    <3> QED
        BY <3>1, AtWork DEF Registers, At
  <2> QED
      BY <2>1, <2>2
<1>2. PICK e \in Emails : req[r].email = e
    BY <1>1, AtFacts
<1>3. Known(r, e)
    BY <1>1, <1>2 DEF Known, Mailed
<1>4. Late(r, e)
  <2>1. CASE Render(r) \/ Rendered(r) \/ Spawn(r) \/ Wait(r) \/ Record(r) \/ Created(r)
      BY <1>3, <2>1, RenderLate, RenderedLate, SpawnLate, WaitLate, RecordLate, CreatedLate
  <2>2. CASE \E w \in Which : Goroutine(r, w)
      BY <1>3, <2>2, SendLate, RecoverLate, DoneLate DEF Goroutine
  <2> QED
      BY <2>1, <2>2
<1> QED
    BY <1>3, <1>4

\* Such a step keeps the invariant.
LEMMA LateInv ==
    ASSUME IInv, NEW r \in Requests, NEW e \in Emails, Known(r, e), Late(r, e)
    PROVE  IInv'
<1>1. Typed' /\ Booted' /\ Mailed'
    BY LateMailed DEF IInv, Late, Booted
<1>2. req'[r].pc \notin {"validate", "insert"}
    BY DEF Late, Registers, Idle
<1>3. Checked'
    BY <1>2 DEF IInv, Checked, Late
<1> QED
    BY <1>1, <1>3 DEF IInv

\* Turnstile is asked before a request is validated and stored.
LEMMA VerifyInv ==
    ASSUME IInv, NEW r \in Requests, VerifyHuman(r)
    PROVE  IInv'
<1>1. /\ Typed' /\ cfg' = cfg /\ phase' = phase
      /\ \A s \in Requests \ {r} : req'[s] = req[s]
      /\ \/ req'[r] = Idle
         \/ req'[r].pc = "validate" /\ (cfg.turnstile => req'[r].human)
    BY VerifyFacts DEF IInv
<1>2. UNCHANGED <<members, audit, history>> /\ ~Registers(req[r])
    BY DEF VerifyHuman, Registers, At
<1>3. ~Registers(req'[r])
    BY <1>1 DEF Registers, Idle
<1>4. Mailed'
    BY <1>1, <1>2, <1>3, EarlyMailed DEF IInv
<1>5. Checked'
    BY <1>1, <1>2 DEF IInv, Checked, Idle, history
<1> QED
    BY <1>1, <1>4, <1>5 DEF IInv, Booted

LEMMA ValidateInv ==
    ASSUME IInv, NEW r \in Requests, Validate(r)
    PROVE  IInv'
<1>1. /\ Typed' /\ cfg' = cfg /\ phase' = phase
      /\ \A s \in Requests \ {r} : req'[s] = req[s]
      /\ \/ req'[r] = Idle
         \/ req[r].pc = "validate" /\ req'[r].pc = "insert" /\ req'[r].human = req[r].human
    BY ValidateFacts DEF IInv, At
<1>2. UNCHANGED <<members, audit, history>> /\ ~Registers(req[r])
    BY DEF Validate, Registers, At
<1>3. ~Registers(req'[r])
    BY <1>1 DEF Registers, Idle
<1>4. Mailed'
    BY <1>1, <1>2, <1>3, EarlyMailed DEF IInv
<1>5. Checked'
    BY <1>1, <1>2 DEF IInv, Checked, Idle, history
<1> QED
    BY <1>1, <1>4, <1>5 DEF IInv, Booted

LEMMA InsertInv ==
    ASSUME IInv, NEW r \in Requests, InsertUser(r)
    PROVE  IInv'
<1> DEFINE e == req[r].email
<1>1. /\ Typed' /\ cfg' = cfg /\ phase' = phase
      /\ \A s \in Requests \ {r} : req'[s] = req[s]
      /\ req[r].pc = "insert"
      /\ \/ members' = members /\ vouched' = vouched
         \/ /\ members' = members \cup {e}
            /\ vouched' = IF req[r].human THEN vouched \cup {e} ELSE vouched
      /\ req'[r] = Idle \/ req'[r].pc = "render"
    BY InsertFacts DEF IInv, At
<1>2. req'[r].pc \notin {"validate", "insert"}
    BY <1>1 DEF Idle
<1>3. Mailed'
    BY InsertMailed DEF IInv
<1> HIDE DEF e
<1>4. cfg.turnstile => members' \subseteq vouched'
    BY <1>1 DEF IInv, Checked
<1>5. Checked'
    BY <1>1, <1>2, <1>4 DEF IInv, Checked
<1> QED
    BY <1>1, <1>3, <1>5 DEF IInv, Booted

\* Requests come, and their clients go.
LEMMA SubmitInv ==
    ASSUME IInv, NEW r \in Requests, NEW f \in Emails, Submit(r, f)
    PROVE  IInv'
<1>1. /\ Typed' /\ cfg' = cfg /\ phase' = phase
      /\ \A s \in Requests \ {r} : req'[s] = req[s]
      /\ req'[r] = [Idle EXCEPT !.pc = "verify", !.email = f]
    BY SubmitFacts DEF IInv
<1>2. UNCHANGED <<members, audit, history>> /\ ~Registers(req[r])
    BY DEF Submit, Registers, At
<1>3. req'[r].pc = "verify"
    BY <1>1 DEF Idle
<1>4. Mailed'
    BY <1>1, <1>2, <1>3, EarlyMailed DEF IInv, Registers
<1>5. Checked'
    BY <1>1, <1>2, <1>3 DEF IInv, Checked, history
<1> QED
    BY <1>1, <1>4, <1>5 DEF IInv, Booted

LEMMA LeaveInv ==
    ASSUME IInv, NEW r \in Requests, ClientLeaves(r)
    PROVE  IInv'
<1>1. /\ ServerTypeOK' /\ cfg' = cfg /\ phase' = phase
      /\ \A s \in Requests : ctx'[s] = "none" <=> ctx[s] = "none"
    BY DisconnectFacts DEF IInv, Typed, ClientLeaves
<1>2. UNCHANGED <<members, req, audit, history>>
    BY DEF ClientLeaves
<1>3. Typed'
    BY <1>1, <1>2 DEF IInv, Typed, ReqsOK, RowsOK, At, history
<1>4. Mailed'
    BY <1>2, EarlyMailed DEF IInv
<1>5. Checked'
    BY <1>1, <1>2 DEF IInv, Checked, history
<1> QED
    BY <1>1, <1>3, <1>4, <1>5 DEF IInv, Booted

\* The process goes on.
LEMMA ProcessInv ==
    ASSUME IInv, Process
    PROVE  IInv'
<1>1. /\ Typed' /\ cfg' = cfg
      /\ \A r \in Requests : req'[r] = req[r] \/ req'[r] = Idle
      /\ UNCHANGED <<members, vouched>>
    BY ProcessFacts DEF IInv
<1>2. Booted' /\ Mailed'
    BY BootKept, ProcessMailed DEF IInv, Process
<1>3. Checked'
    BY <1>1 DEF IInv, Checked, Idle
<1> QED
    BY <1>1, <1>2, <1>3 DEF IInv

\* Nothing is known of anybody at first.
LEMMA InitInv == Init => IInv
<1> SUFFICES ASSUME Init PROVE IInv
    OBVIOUS
<1> USE DEF Init
<1>1. ServerTypeOK
    BY ConfigsAreConfigs, StartsPositive
       DEF ServerInit, ServerTypeOK, Phases, Dead, Serving, Contexts, InFlight
<1>2. Idle \in Request /\ Good(Idle) /\ Idle.pc = "idle" /\ ~Registers(Idle)
    BY IdleGood DEF Good, Idle, Registers
<1>3. ReqsOK
    BY <1>2 DEF ReqsOK, At, ServerInit
<1>4. Fate("none") \in Outcome /\ <<>> \in Seq(Categories)
    BY DEF Outcome
<1>5. RowsOK
    BY <1>4 DEF RowsOK
<1>6. Booted
    BY DEF Booted, Dead, ServerInit
<1>7. Checked
    BY <1>2 DEF Checked
<1>8. \A e \in Emails, w \in Which : Untouched(Data(e, w))
    BY DEF Untouched, Data
<1>9. \A e \in Emails, w \in Which : Limited(Data(e, w))
    BY DEF Limited, Data, Fate
<1>10. Mailed
    BY <1>2, <1>8, <1>9 DEF Mailed
<1> QED
    BY <1>1, <1>3, <1>5, <1>6, <1>7, <1>10 DEF IInv, Typed

\* The invariant holds whatever happens.
LEMMA Invariant == Spec => []IInv
<1>1. ASSUME IInv, [Next]_vars PROVE IInv'
  <2>1. CASE Process
      BY <1>1, <2>1, ProcessInv
  <2>2. ASSUME NEW r \in Requests, Handler(r) PROVE IInv'
    <3>1. CASE VerifyHuman(r) \/ Validate(r) \/ InsertUser(r)
        BY <1>1, <3>1, VerifyInv, ValidateInv, InsertInv
    <3>2. CASE Render(r) \/ Rendered(r) \/ Spawn(r) \/ Wait(r) \/ Record(r) \/ Created(r)
      <4>1. PICK e \in Emails : Known(r, e) /\ Late(r, e)
          BY <1>1, <3>2, LateSteps DEF IInv
      <4> QED
          BY <1>1, <4>1, LateInv
    <3> QED
        BY <2>2, <3>1, <3>2 DEF Handler
  <2>3. ASSUME NEW r \in Requests, NEW w \in Which, Goroutine(r, w) PROVE IInv'
    <3>1. PICK e \in Emails : Known(r, e) /\ Late(r, e)
        BY <1>1, <2>3, LateSteps DEF IInv
    <3> QED
        BY <1>1, <3>1, LateInv
  <2>4. ASSUME NEW r \in Requests, ClientLeaves(r) \/ \E e \in Emails : Submit(r, e)
        PROVE  IInv'
      BY <1>1, <2>4, LeaveInv, SubmitInv
  <2>5. CASE UNCHANGED vars
    <3>1. /\ UNCHANGED <<members, req, audit, history>>
          /\ UNCHANGED <<phase, cfg, ctx, starts, cut>>
        BY <2>5 DEF vars, serverVars
    <3>2. Typed'
        BY <1>1, <3>1 DEF IInv, Typed, ServerTypeOK, InFlight, ReqsOK, RowsOK, At, history
    <3>3. Mailed'
        BY <1>1, <3>1, EarlyMailed DEF IInv
    <3>4. Booted' /\ Checked'
        BY <1>1, <3>1 DEF IInv, Booted, Checked, history
    <3> QED
        BY <3>2, <3>3, <3>4 DEF IInv
  <2> QED
      BY <1>1, <2>1, <2>2, <2>3, <2>4, <2>5 DEF Next, Ended
<1> QED
    BY <1>1, InitInv, PTL DEF Spec

-----------------------------------------------------------------------------
(* What follows from it.                                                    *)

\* In every reachable state all variables have their types, a handler runs
\* exactly while its context exists, and the WaitGroup counts the goroutines
\* that are still at work (sendRegistrationEmails).
THEOREM RegistrationTyped == Spec => []TypeOK
<1>1. IInv => TypeOK
    BY TypedIsTypeOK DEF IInv
<1> QED
    BY <1>1, Invariant, PTL

\* For any configurations, one that LoadConfig accepts lets the process serve
\* with what it was asked for (LoadConfig, mailer.New, NewRouter, Verify).
THEOREM AcceptedConfigsBoot == Spec => []AcceptedConfigBoots
<1>1. ASSUME IInv PROVE AcceptedConfigBoots
  <2>1. phase # "gave_up" /\ cfg \in Config
      BY <1>1 DEF IInv, Booted, Typed, ServerTypeOK
  <2>2. phase \in Serving => Loads(cfg)
      BY <1>1 DEF IInv, Booted, Serving, Dead
  <2>3. Loads(cfg) => MailerFor(cfg) # "none"
      BY LoadedHasMailer
  <2>4. Loads(cfg) => TotpMounted(cfg) = cfg.totp /\ (cfg.turnstile => cfg.turnstileSecret # "")
      BY <2>1 DEF Loads, TotpMounted, Config
  <2> QED
      BY <2>1, <2>2, <2>3, <2>4 DEF AcceptedConfigBoots
<1> QED
    BY <1>1, Invariant, PTL

\* With Turnstile on, nobody it has not vouched for becomes a member, for any
\* requests and however often the process ends (VerifyRequest, Verify).
THEOREM MembersVerified == Spec => []VerifiedMembersOnly
<1>1. IInv => VerifiedMembersOnly
    BY DEF IInv, Checked, VerifiedMembersOnly
<1> QED
    BY <1>1, Invariant, PTL

\* However many requests register one address, and however often the process
\* ends, no email is sent twice or to somebody who is not a member.
THEOREM WelcomedOnce == Spec => []OneWelcome
<1>1. ASSUME IInv, NEW e \in Emails, NEW w \in Which
      PROVE  tries[e][w] <= 1 /\ (tries[e][w] > 0 => e \in members)
  <2>1. Limited(Data(e, w)) /\ (e \notin welcomed => Untouched(Data(e, w)))
        /\ welcomed \subseteq members
      BY <1>1 DEF IInv, Mailed
  <2>2. tries[e][w] = Data(e, w).tries
      BY DEF Data
  <2> QED
      BY <2>1, <2>2 DEF Limited, Untouched
<1>2. IInv => OneWelcome
    BY <1>1 DEF OneWelcome
<1> QED
    BY <1>2, Invariant, PTL

\* What became of each email of a member whose request is over.
LEMMA SettledOnceOver ==
    ASSUME IInv, NEW e \in welcomed, NEW w \in Which, Registering(e) = {}, e \notin abandoned
    PROVE  /\ mail[e][w].kind \in {"sent", "failed", "panic", "unrendered"}
           /\ <<e, w>> \notin unaudited =>
                /\ mail[e][w].kind = "sent" => audit[e][w] = <<>>
                /\ mail[e][w].kind = "failed" =>
                     Len(audit[e][w]) = 1 /\ Diagnoses(audit[e][w][1], mail[e][w].of)
                /\ mail[e][w].kind \notin {"sent", "failed"} => audit[e][w] = <<"unknown">>
<1>1. Settled(Data(e, w))
    BY DEF IInv, Mailed
<1>2. /\ Data(e, w).mail = mail[e][w] /\ Data(e, w).rows = audit[e][w]
      /\ Data(e, w).lost <=> <<e, w>> \in unaudited
    BY DEF Data
<1> QED
    BY <1>1, <1>2 DEF Settled

\* For any failures, whichever goroutine fails or panics and in whatever order
\* they end, each failed email has one audit row, and it names the right
\* category (sendRegistrationEmails, categorize, recordEmailFailure).
THEOREM FailuresAreAudited == Spec => []FailuresAudited
<1>1. IInv => FailuresAudited
    BY SettledOnceOver DEF FailuresAudited
<1> QED
    BY <1>1, Invariant, PTL

\* A member whose INSERT was seen to succeed is left without an email only by
\* the end of the process ("attempted before the 201", register.go).
THEOREM NobodyForgotten == Spec => []NoMemberForgotten
<1>1. IInv => NoMemberForgotten
    BY SettledOnceOver DEF NoMemberForgotten
<1> QED
    BY <1>1, Invariant, PTL
=============================================================================
