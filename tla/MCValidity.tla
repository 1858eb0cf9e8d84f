----------------------------- MODULE MCValidity -----------------------------
(* TLC instances of Validity.                                              *)
EXTENDS Validity

CONSTANTS online, commission, version, kusama

OnlineCommission == <<online, commission>>
=============================================================================
