\* One nominator, every kind of fault, one of them in a behaviour.
CONSTANTS
  n1 = n1
  None = None
  Nominators = {n1}
  Groups <- OneGroup
  Slates = {s1}
  Risky = {s1}
  Blacklisted = {}
  Delay = 1
  EraLength = 3
  MaxPending = 2
  MaxBlock = 3
  FaultKinds = {"crash", "loss", "call", "boot"}
  MaxFaults = 1
SPECIFICATION Spec
INVARIANTS OnePendingPerNominator RecordedWasSent
PROPERTIES ResendsOnlyAfterFault ImplementsPromise
\* After a failed first round no job runs, and the chain stops at MaxBlock.
CHECK_DEADLOCK FALSE
