--------------------------- MODULE MCEraStatistics ---------------------------
(* TLC instances of EraStatistics.                                         *)
EXTENDS EraStatistics

CONSTANTS v1, v2

TwoCandidates == <<v1, v2>>
SomeEarn      == [e \in Eras |-> IF e = 2 THEN <<v1>> ELSE <<v1, v2>>]

\* From the lengths of the eras.
FirstBlocks(lengths) ==
  [e \in 0 .. MaxEra + 1 |-> 1 + FoldLeft(LAMBDA a, b : a + b, 0, SubSeq(lengths, 1, e))]

\* From a third of the expected length to four times it; in the third the chain is so young at
\* first that a search may begin before its first block.  Then an era that is shorter than a
\* third, and a length whose third is a fraction.
SomeLayouts ==
  {[length |-> 3, first |-> FirstBlocks(l)] :
     l \in {<<12, 1, 6, 1>>, <<12, 6, 1, 5>>, <<1, 1, 4, 3>>}}
  \cup {[length |-> 6, first |-> FirstBlocks(<<12, 6, 1, 6>>)],
        [length |-> 4, first |-> FirstBlocks(<<8, 2, 4, 3>>)]}
=============================================================================
