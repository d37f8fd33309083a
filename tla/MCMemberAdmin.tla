--------------------------- MODULE MCMemberAdmin ---------------------------
(***************************************************************************)
(* MemberAdmin on small instances, and the page limits of the code.        *)
(***************************************************************************)
EXTENDS MemberAdmin, Pagination, TLC

\* Requests and users are interchangeable.
Symmetry == Permutations(Requests) \cup Permutations(Users)
=============================================================================
