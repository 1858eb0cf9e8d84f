\* The last session of an era and two more, one change of an identity, one fault of any kind.
CONSTANTS
  c1 = c1
  c2 = c2
  parent = parent
  None = None
  Accounts = {c1, c2, parent}
  Candidates <- TwoCandidates
  NameOf <- SomeNames
  Family <- SomeFamily
  FirstParents <- SomeParents
  Elected <- SomeElected
  SessionsPerEra = 2
  FirstSession = 3
  MaxSession = 5
  YoungUntil = 4
  Depth = 3
  MaxMoves = 1
  MaxFaults = 1
SPECIFICATION Spec
INVARIANTS SeenErasAreTrue
PROPERTIES ImplementsLedger StandingCatchesUp
