--------------------------- MODULE OneTimeSecrets ---------------------------
(***************************************************************************)
(* What a store of one-time secrets promises its callers, whatever the     *)
(* secrets are for: a secret is issued once, works at most once, and never *)
(* again once it has been used or withdrawn.  PasswordReset implements it  *)
(* with its tokens and TwoFactor with its pending sessions, each with      *)
(* statements that other requests come between.                            *)
(***************************************************************************)
CONSTANTS
    Secrets,    \* secrets that can be issued
    Exclusive   \* TRUE: none is issued while another is usable

VARIABLES
    usable,     \* secrets that work
    spent,      \* secrets that no longer do, or never will
    used        \* those of them that have worked

secretVars == <<usable, spent, used>>

Init == usable = {} /\ spent = {} /\ used = {}

Issue(s) ==
    /\ s \notin usable \cup spent
    /\ Exclusive => usable = {}
    /\ usable' = usable \cup {s}
    /\ UNCHANGED <<spent, used>>

\* A use may withdraw other secrets along with the one it spends.
Use(s, W) ==
    /\ s \in usable
    /\ usable' = usable \ ({s} \cup W)
    /\ spent' = spent \cup {s} \cup W
    /\ used' = used \cup {s}

\* A secret can be withdrawn before it is issued: its value is taken.
Withdraw(W) ==
    /\ usable' = usable \ W
    /\ spent' = spent \cup W
    /\ UNCHANGED used

Next ==
    \/ \E s \in Secrets : Issue(s)
    \/ \E s \in Secrets, W \in SUBSET Secrets : Use(s, W)
    \/ \E W \in SUBSET Secrets : Withdraw(W)

Spec == Init /\ [][Next]_secretVars
=============================================================================
