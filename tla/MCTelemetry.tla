---------------------------- MODULE MCTelemetry ----------------------------
(* TLC instances of Telemetry.                                             *)
EXTENDS Telemetry

CONSTANTS c, x, c1, c2, x1, x2

\* Nodes c1 and c2 go by the candidate's name c, x1 and x2 by the name x.
ByLetter == [i \in Ids |-> IF i \in {c1, c2} THEN c ELSE x]

\* Two nodes of the candidate, two of the other name, or one of each.
Pairs == {{c1, c2}, {x1, x2}, {c2, x1}}
=============================================================================
