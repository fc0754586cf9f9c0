------------------------------ MODULE MCClient ------------------------------
(* Client for TLC: two other users, two names, and two ids for this user, so *)
(* that it can register again after a lost response.                         *)
EXTENDS Client

CONSTANTS me1, me2, o1, o2

Symmetry == Permutations({me1, me2}) \cup Permutations({o1, o2})
=============================================================================
