-------------------------- MODULE MCServerDiscovery --------------------------
(* Model values for checking ServerDiscovery with TLC. *)
EXTENDS ServerDiscovery

CONSTANTS r1, r2
=============================================================================
