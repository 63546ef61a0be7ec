-------------------------- MODULE MCSessionTokens --------------------------
(* Small instances of SessionTokens for TLC.                                *)
EXTENDS SessionTokens, TLC

CONSTANTS home, cloud

\* Gateways differ in nothing but their identity.
AnyGateway == Permutations(Gateways)
=============================================================================
