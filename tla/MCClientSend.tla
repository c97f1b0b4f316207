---------------------------- MODULE MCClientSend ----------------------------
(* Model values for checking ClientSend with TLC. *)
EXTENDS ClientSend, TLC

CONSTANTS e0, e1, e2, e3, t1, t2, r1, r2, r3, r4

MCRequestId == {r1, r2, r3, r4}
Symmetry == Permutations({e1, e2, e3}) \cup Permutations(MCRequestId)
              \cup Permutations({t1, t2})
=============================================================================
