------------------------------- MODULE Server -------------------------------
(***************************************************************************)
(* The process: how it decides to serve (config.LoadConfig, database.New,  *)
(* NewHTTPHandler, StartServer), how it stops (ServeWith), and what both   *)
(* do to the requests in flight.  Registration composes it with a handler. *)
(*                                                                         *)
(* Several settings are judged twice, once by LoadConfig and once where    *)
(* they are used.  A configuration is therefore a variable: Init picks any *)
(* of Configs, which contains the ones the two places could disagree on.   *)
(***************************************************************************)
EXTENDS Naturals

CONSTANTS
    Requests,       \* requests the server can have in flight
    Configs,        \* configurations the process may find ...
    BusyConfigs,    \* ... and bound: those under which clients are considered
    MaxStarts       \* bound: how often the process is started

ASSUME StartsPositive == MaxStarts \in Nat \ {0}

VARIABLES
    phase,      \* how far the process has come
    cfg,        \* the configuration it finds
    ctx,        \* request -> the state of its context
    starts,     \* how often it has been started
    cut         \* history: requests that ended with the last process

serverVars == <<phase, cfg, ctx, starts, cut>>

Dead == {"refused", "gave_up", "crashed", "stopped"}
Phases == {"load", "database", "handler", "listen", "up", "signalled", "draining"}
            \cup Dead
Serving == {"up", "signalled", "draining"}
Contexts == {"none", "live", "cancelled"}

InFlight == {r \in Requests : ctx[r] # "none"}

-----------------------------------------------------------------------------
(* Settings.  A text is "" or "blank" (white space only) or a "value"; an   *)
(* encryption key decodes to 32 bytes ("full") or to something else.        *)

Texts == {"", "blank", "value"}
Keys == {"", "blank", "short", "full"}
Config == [turnstile : BOOLEAN, turnstileSecret : Texts,
           connectionString : Texts, bypass : Texts,
           mailer : BOOLEAN, apiKey : Texts, production : BOOLEAN,
           totp : BOOLEAN, totpKey : Keys]
ASSUME ConfigsAreConfigs == Configs \subseteq Config

\* strings.TrimSpace(s) == ""
Blank(s) == s \in {"", "blank"}

\* totp.ParseKey, which trims the key before it decodes it.
KeyUsable(k) == k = "full"

\* Not the code: the API key is compared as it was typed.
LoadsUntrimmed(c) ==
    /\ c.turnstile => c.turnstileSecret # ""
    /\ ~Blank(c.connectionString)
    /\ ~Blank(c.bypass)
    /\ c.mailer /\ c.production => c.apiKey # ""
    /\ c.totp => KeyUsable(c.totpKey)

\* What LoadConfig does not refuse.
Loads(c) ==
    /\ c.turnstile => c.turnstileSecret # ""
    /\ ~Blank(c.connectionString)
    /\ ~Blank(c.bypass)
    /\ c.mailer /\ c.production => ~Blank(c.apiKey)
    /\ c.totp => KeyUsable(c.totpKey)

\* mailer.New: which mailer is built, if any.
MailerFor(c) ==
    IF ~c.mailer              THEN "noop"
    ELSE IF ~Blank(c.apiKey)  THEN "resend"
    ELSE IF c.production      THEN "none"
    ELSE                           "log"

\* The routes auth.NewRouter mounts, and whether a login asks for a code.
TotpMounted(c) == c.totp /\ KeyUsable(c.totpKey)

-----------------------------------------------------------------------------
(* Starting.                                                                *)

Becomes(p) == phase' = p /\ UNCHANGED <<cfg, ctx, starts, cut>>

\* config.LoadConfig, a failure of which is fatal.
LoadConfig ==
    /\ phase = "load"
    /\ Becomes(IF Loads(cfg) THEN "database" ELSE "refused")

\* database.New pings the database.
OpenDatabase ==
    /\ phase = "database"
    /\ Becomes("handler") \/ Becomes("crashed")

\* NewHTTPHandler.  When there is no mailer StartServer logs and returns: the
\* process exits without an error status.
MakeHandler ==
    /\ phase = "handler"
    /\ Becomes(IF MailerFor(cfg) = "none" THEN "gave_up" ELSE "listen")

\* net.Listen, and ServeWith up to its goroutine.
Listen ==
    /\ phase = "listen"
    /\ Becomes("up") \/ Becomes("crashed")

-----------------------------------------------------------------------------
(* Stopping.                                                                *)

\* The process is gone, and with it the requests in flight.
Dies(p) ==
    /\ phase' = p
    /\ cut' = InFlight
    /\ ctx' = [r \in Requests |-> "none"]
    /\ UNCHANGED <<cfg, starts>>

\* SIGTERM, SIGINT or SIGQUIT cancels serviceCtx, from which BaseContext derives
\* the context of every request.
Signal ==
    /\ phase = "up"
    /\ phase' = "signalled"
    /\ ctx' = [r \in Requests |-> IF r \in InFlight THEN "cancelled" ELSE "none"]
    /\ UNCHANGED <<cfg, starts, cut>>

\* ServeWith sees the signal and calls Shutdown, which closes the listener.
BeginShutdown ==
    /\ phase = "signalled"
    /\ Becomes("draining")

\* Not the code: Close, which waits for nobody.
DrainedAtOnce == TRUE

\* Shutdown returns once no connection is busy.
Drained == InFlight = {}

\* ... or when its 30 seconds are over; main returns either way.
Stop ==
    /\ phase = "draining"
    /\ \/ /\ Drained
          /\ phase' = "stopped"
          /\ ctx' = [r \in Requests |-> "none"]
          /\ UNCHANGED <<cfg, starts, cut>>
       \/ Dies("stopped")

\* Serve fails (log.Fatal), or the platform kills the process.
Crash ==
    /\ phase \in Serving
    /\ Dies("crashed")

\* The platform starts another one.
Restart ==
    /\ phase \in Dead
    /\ starts < MaxStarts
    /\ phase' = "load"
    /\ starts' = starts + 1
    /\ cut' = {}
    /\ UNCHANGED <<cfg, ctx>>

Lifecycle ==
    \/ LoadConfig \/ OpenDatabase \/ MakeHandler \/ Listen
    \/ Signal \/ BeginShutdown \/ Stop \/ Crash \/ Restart

-----------------------------------------------------------------------------
(* Requests, as the server sees them.                                       *)

\* A request is read and its handler called.  One may still come in while the
\* server drains, on a connection accepted before the listener was closed; the
\* context of a request that comes after the signal is cancelled from the start.
Accept(r) ==
    /\ phase \in Serving
    /\ cfg \in BusyConfigs
    /\ ctx[r] = "none"
    /\ ctx' = [ctx EXCEPT ![r] = IF phase = "up" THEN "live" ELSE "cancelled"]
    /\ UNCHANGED <<phase, cfg, starts, cut>>

\* The client goes away.
Disconnect(r) ==
    /\ ctx[r] = "live"
    /\ ctx' = [ctx EXCEPT ![r] = "cancelled"]
    /\ UNCHANGED <<phase, cfg, starts, cut>>

\* The handler returns.
Finish(r) ==
    /\ ctx[r] # "none"
    /\ ctx' = [ctx EXCEPT ![r] = "none"]
    /\ UNCHANGED <<phase, cfg, starts, cut>>

ServerInit ==
    /\ phase = "load"
    /\ cfg \in Configs
    /\ ctx = [r \in Requests |-> "none"]
    /\ starts = 1
    /\ cut = {}

-----------------------------------------------------------------------------
(* Properties.                                                              *)

ServerTypeOK ==
    /\ phase \in Phases
    /\ cfg \in Config
    /\ ctx \in [Requests -> Contexts]
    /\ starts \in 1 .. MaxStarts
    /\ cut \subseteq Requests
    /\ phase \notin Serving => InFlight = {}

\* A configuration LoadConfig lets through is one the rest of the program can
\* work with: it never makes the process give up without an error status, and
\* a server that serves has a mailer, the second step of the login it was
\* asked for ("unreachable", says auth.NewRouter of the contrary) and, with
\* Turnstile on, a secret that is not empty.  LoadConfig, mailer.New, NewRouter
\* and Verify each judge the same settings on their own.  (A secret of white
\* space only passes both: siteverify has to refuse it.)
AcceptedConfigBoots ==
    /\ phase # "gave_up"
    /\ phase \in Serving =>
         /\ MailerFor(cfg) # "none"
         /\ TotpMounted(cfg) = cfg.totp
         /\ cfg.turnstile => cfg.turnstileSecret # ""
=============================================================================
