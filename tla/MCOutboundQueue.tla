--------------------------- MODULE MCOutboundQueue ---------------------------
(* Model values for checking OutboundQueue with TLC. *)
EXTENDS OutboundQueue, TLC

CONSTANTS d1, d2, p1, p2, p3, e1

MCDest == {d1, d2}
MCPdu == {p1, p2, p3}

=============================================================================
