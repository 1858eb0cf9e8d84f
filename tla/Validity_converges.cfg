\* One candidate with two checks: the time online, which the records read at the start
\* decide, and the commission, which is asked for.  The job and a round overlap; one call
\* fails at any step, or a run outlasts what it read, or the process restarts.
CONSTANTS
  online = online
  commission = commission
  version = version
  kusama = kusama
  None = None
  Candidates = {c1}
  Types = {online, commission, version, kusama}
  Checks <- OnlineCommission
  Online = online
  OnRecord = {version}
  Unguarded = {online}
  Unreadable = {commission}
  Tolerated = {kusama}
  Noted = {version}
  MaxFaults = 1
SPECIFICATION FairSpec
INVARIANTS OneReasonPerType ValidIsExplained PickedIsExplained
PROPERTIES VerdictsConverge
