\* One nominator, long enough for an announcement to grow too old; a crash or a lost
\* transaction at any step.  A round that finds a pending row is skipped.
CONSTANTS
  n1 = n1
  None = None
  Nominators = {n1}
  Groups <- OneGroup
  Slates = {s1}
  Risky = {}
  Blacklisted = {}
  Delay = 1
  EraLength = 10
  MaxPending = 1
  MaxBlock = 4
  FaultKinds = {"crash", "loss"}
  MaxFaults = 1
SPECIFICATION FairSpec
PROPERTIES DelayedTxSettles AnnouncementsDoNotLinger
