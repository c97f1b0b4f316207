------------------------ MODULE MCInboundTransaction ------------------------
(* Two transactions, one with two PDUs and an EDU, sent up to three times  *)
(* in all.                                                                 *)
EXTENDS InboundTransaction, TLC

CONSTANTS p1, p2, p3, e1, e2, u1, u2, r1, r2, r3

MCPdu == {p1, p2, p3}
MCTwins == {<<p2, p3>>, <<p3, p2>>}
MCRequestId == {r1, r2, r3}
(* One EDU the server reads and one it passes over. *)
MCEdu == {e1, e2}
MCSent == {[id |-> u1, pdus |-> <<p1, p2>>, edus |-> <<e2, e1>>],
           [id |-> u2, pdus |-> <<p3>>, edus |-> << >>]}

Symmetry == Permutations(MCRequestId)
=============================================================================
