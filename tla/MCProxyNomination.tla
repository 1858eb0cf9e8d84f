------------------------- MODULE MCProxyNomination -------------------------
(* TLC instances of ProxyNomination.                                       *)
EXTENDS ProxyNomination

CONSTANTS n1

OneGroup  == <<n1>>
=============================================================================
