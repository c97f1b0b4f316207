-------------------------- MODULE MCFederationLink --------------------------
(* Model values for checking FederationLink with TLC. *)
EXTENDS FederationLink, TLC

CONSTANTS peer, p1, p2, e1, u1, u2

MCPdu == {p1, p2}
Symmetry == Permutations(MCPdu) \cup Permutations({u1, u2})
MCTwins == {<<p1, p2>>, <<p2, p1>>}
=============================================================================
