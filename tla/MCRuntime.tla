----------------------------- MODULE MCRuntime -----------------------------
(* TLC instances of Runtime.                                               *)
EXTENDS Runtime

CONSTANTS score, validity, monitor

\* One job is enabled by a true, one by a false, and one has no key.
TwoKeys == (score :> TRUE) @@ (validity :> FALSE) @@ (monitor :> Absent)
=============================================================================
