\* Two candidates, two passes at once, a change of anything at any step, one failure.
CONSTANTS
  c1 = c1
  c2 = c2
  job = job
  round = round
  Paris = Paris
  NoLocation = NoLocation
  Null = Null
  Passes = {job, round}
  Candidates <- TwoCandidates
  Values <- Known
  Banned = {c2}
  Starts <- Apart
  MaxSession = 2
  MaxEvents = 1
SPECIFICATION FairSpec
INVARIANTS TypeOK
PROPERTIES ScoresCatchUp
CHECK_DEADLOCK FALSE
