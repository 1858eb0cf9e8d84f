----------------------------- MODULE MCRegistry -----------------------------
(* TLC instances of CandidateRegistry.                                     *)
EXTENDS CandidateRegistry

CONSTANTS s1, s2, s3, x

First1 == [slot |-> 1, name |-> "a", stash |-> s1]
Moved1 == [slot |-> 1, name |-> "a", stash |-> s2]
Named1 == [slot |-> 1, name |-> "b", stash |-> s1]
Taken1 == [slot |-> 2, name |-> "a", stash |-> s1]
Second == [slot |-> 2, name |-> "b", stash |-> s3]

\* A candidate alone; with another one and a new stash; by another name, that of the other; in
\* the other's slot.  So candidates join, leave and come back, and two may collide.
Files    == {<<First1>>, <<Second, Moved1>>, <<Named1>>, <<Taken1>>}
Reported == {<<s1, x>>}
=============================================================================
