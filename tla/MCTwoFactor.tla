---------------------------- MODULE MCTwoFactor ----------------------------
(***************************************************************************)
(* TwoFactor on small instances.                                           *)
(***************************************************************************)
EXTENDS TwoFactor, TLC

\* Requests, tokens and secrets are interchangeable.
Symmetry == Permutations(Requests) \cup Permutations(SessionIds)
                \cup Permutations(Secrets)
=============================================================================
