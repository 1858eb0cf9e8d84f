\* An account of its own and a proxied one, two eras, one fault of any kind at any step.  A
\* round's candidates are enough for one of the accounts; then it gives up.
CONSTANTS
  n1 = n1
  n2 = n2
  c1 = c1
  c2 = c2
  Nominators = {n1, n2}
  Proxied = {n2}
  Groups <- TwoGroups
  Candidates = {c1, c2}
  Rankings <- OneOrder
  Numbers = {2}
  MaxEra = 2
  FaultKinds = {"late", "lost", "failed", "send", "read", "crash"}
  MaxFaults = 1
SPECIFICATION FairSpec
INVARIANTS  RowsWereSent
PROPERTIES OneNominationPerEra NominatedIsShown
