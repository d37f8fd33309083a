----------------------------- MODULE MCAccounts -----------------------------
(***************************************************************************)
(* Accounts on small instances.                                            *)
(***************************************************************************)
EXTENDS Accounts, TLC

\* Nothing tells two members of any of these sets apart.
Symmetry == Permutations(Requests) \cup Permutations(Users) \cup Permutations(Emails)
                \cup Permutations(SessionIds) \cup Permutations(Passwords)
=============================================================================
