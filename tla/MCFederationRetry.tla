-------------------------- MODULE MCFederationRetry --------------------------
(* Model values for checking FederationRetry with TLC. *)
EXTENDS FederationRetry

CONSTANTS o1, o2
=============================================================================
