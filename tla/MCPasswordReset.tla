-------------------------- MODULE MCPasswordReset --------------------------
(***************************************************************************)
(* PasswordReset on small instances.                                       *)
(***************************************************************************)
EXTENDS PasswordReset, TLC

\* Requests and tokens of either kind are interchangeable.
Symmetry == Permutations(Requests) \cup Permutations(SessionIds)
                \cup Permutations(Tokens)
=============================================================================
