--------------------------- MODULE MCRefreshTokens --------------------------
(* Instances of RefreshTokens for TLC. *)
EXTENDS RefreshTokens, TLC

CONSTANTS t1, t2, t3, t4, f1, f2, r1, r2

Symmetry == Permutations(Tokens) \cup Permutations(Families)
              \cup Permutations(Requests)
=============================================================================
