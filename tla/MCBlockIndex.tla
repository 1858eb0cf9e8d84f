---------------------------- MODULE MCBlockIndex ----------------------------
(* TLC instances of BlockIndex.  Block 1 holds a batch that pays two claims *)
(* of one validator, and a call for a validator without commission; block 2 *)
(* a call that failed, for a claim already paid.                           *)
EXTENDS BlockIndex

CONSTANTS v, n, c1, c2, c3, x1, x2, x3

ByV == [c \in Claims |-> v]
ToBoth == [c \in Claims |-> IF c = c1 THEN {v, n} ELSE {v}]
Blocks == [x \in Extrinsics |-> IF x = x2 THEN 2 ELSE 1]
Pays(c) == [claim |-> c, ok |-> TRUE]
Calls == [x \in Extrinsics |->
  CASE x = x1 -> <<Pays(c1), Pays(c2)>>
    [] x = x2 -> <<[Pays(c2) EXCEPT !.ok = FALSE]>>
    [] x = x3 -> <<Pays(c3)>>]
=============================================================================
