----------------------------- MODULE MCStakingTx -----------------------------
(* TLC instances of StakingTx.                                             *)
EXTENDS StakingTx

CONSTANTS n1, n2, c1, c2

TwoGroups == <<n1, n2>>
OneOrder  == {<<c1, c2>>}
=============================================================================
