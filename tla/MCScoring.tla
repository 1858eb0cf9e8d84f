----------------------------- MODULE MCScoring -----------------------------
(* TLC instances of Scoring.                                               *)
EXTENDS Scoring

CONSTANTS c1, c2, Paris

TwoCandidates == <<c1, c2>>

At(rank, offline, city) == [rank |-> rank, offline |-> offline, city |-> city, valid |-> TRUE]

High  == At(2, 3, Paris)
Low   == At(0, 1, Paris)
Known == {Low, High, At(2, 3, NoLocation), [High EXCEPT !.valid = FALSE]}

\* In one city, apart in rank.
Apart == {[c \in {c1, c2} |-> IF c = c1 THEN Low ELSE High]}
=============================================================================
