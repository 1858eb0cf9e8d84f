\* Two nodes, of one name or of two, two handlers at once, a lost socket and a restart.
CONSTANTS
  c = c
  x = x
  c1 = c1
  c2 = c2
  x1 = x1
  x2 = x2
  Ids = {c1, c2, x1, x2}
  Names = {c, x}
  NameOf <- ByLetter
  Candidates = {c}
  Sockets = {s1}
  Handlers = {h1, h2}
  Crowds <- Pairs
  MaxDrops = 1
  MaxRestarts = 1
SPECIFICATION FairSpec
INVARIANTS TypeOK RefsCoverKnownNodes
PROPERTIES OfflineOnlyWhenGone ConnectedStaysOnline
