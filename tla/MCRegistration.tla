--------------------------- MODULE MCRegistration ---------------------------
(***************************************************************************)
(* Registration on small instances.                                        *)
(***************************************************************************)
EXTENDS Registration

\* A production configuration with everything on.
Full == [turnstile |-> TRUE, turnstileSecret |-> "value",
         connectionString |-> "value", bypass |-> "value",
         mailer |-> TRUE, apiKey |-> "value", production |-> TRUE,
         totp |-> TRUE, totpKey |-> "full"]

\* Clients are considered with and without Turnstile.
MCBusyConfigs == {Full, [Full EXCEPT !.turnstile = FALSE]}

\* Every setting of one concern, the others as they should be.
MCConfigs ==
    {[Full EXCEPT !.turnstile = b, !.turnstileSecret = t] : b \in BOOLEAN, t \in Texts}
    \cup {[Full EXCEPT !.mailer = b, !.production = p, !.apiKey = t] :
            b \in BOOLEAN, p \in BOOLEAN, t \in Texts}
    \cup {[Full EXCEPT !.totp = b, !.totpKey = k] : b \in BOOLEAN, k \in Keys}
    \cup {[Full EXCEPT !.connectionString = t] : t \in Texts}
    \cup {[Full EXCEPT !.bypass = t] : t \in Texts}

\* A refusal of the key that came too late to matter, and no response at all.
MCFailures == {[late |-> TRUE, status |-> 401, net |-> TRUE],
               [late |-> FALSE, status |-> 0, net |-> TRUE]}
=============================================================================
