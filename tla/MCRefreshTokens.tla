--------------------------- MODULE MCRefreshTokens ---------------------------
(* Model values for checking RefreshTokens with TLC. *)
EXTENDS RefreshTokens, TLC

CONSTANTS t1, t2, t3, d1, alice

MCToken == {t1, t2, t3}
MCOwner == [d \in Device |-> alice]

Symmetry == Permutations(MCToken)
=============================================================================
