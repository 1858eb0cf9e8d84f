\* Four eras of even and uneven lengths, in one layout with an era too short for the search;
\* two faults of any kind.
CONSTANTS
  v1 = v1
  v2 = v2
  Candidates <- TwoCandidates
  Earned <- SomeEarn
  FirstActive = 2
  MaxEra = 3
  Layouts <- SomeLayouts
  MaxEras = 3
  HistoryDepth = 3
  MaxTests = 12
  MaxFaults = 2
SPECIFICATION Spec
INVARIANTS TotalMeansRows
PROPERTIES ImplementsLedger ErasRecorded InclusionCatchesUp
