--------------------------- MODULE MCValidatorSets ---------------------------
(* TLC instances of ValidatorSets.                                         *)
EXTENDS ValidatorSets

CONSTANTS c1, c2, parent

TwoCandidates == <<c1, c2>>
SomeNames     == [a \in Accounts |-> IF a = c2 THEN None ELSE a]

\* Each candidate may have an identity of its own, the second one without a name, or be a
\* sub-account of parent.
SomeFamily  == [a \in Accounts |-> {a, parent}]
SomeParents == {[a \in Accounts |-> CASE a = c1 -> q [] a = c2 -> None [] a = parent -> parent] :
                  q \in {c1, parent}}

\* The validators change with every era.
SomeElected ==
  [e \in 1 .. (MaxSession + 1) \div SessionsPerEra |->
     CASE e % 3 = 1 -> {c1} [] e % 3 = 2 -> {parent} [] e % 3 = 0 -> {c1, c2}]
=============================================================================
