\* Blocks up to 3, first run anywhere; one call fails, or the process crashes, at any step.
CONSTANTS
  v = v
  n = n
  c1 = c1
  c2 = c2
  c3 = c3
  x1 = x1
  x2 = x2
  x3 = x3
  Claims = {c1, c2, c3}
  ValidatorOf <- ByV
  PaidBy <- ToBoth
  Free = {c3}
  Payout = Payout
  NoIndex = NoIndex
  Extrinsics = {x1, x2, x3}
  BlockOf <- Blocks
  CallsOf <- Calls
  Threshold = 3
  MaxHead = 3
  MaxDepth = 1
  MaxFaults = 1
SPECIFICATION FairSpec
INVARIANTS IndexedIsRecorded PayoutAfterRewards
PROPERTIES EveryBlockScanned ImplementsPromise
