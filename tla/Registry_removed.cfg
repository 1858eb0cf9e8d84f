\* Two starts, from one of four files each.
CONSTANTS
  s1 = s1
  s2 = s2
  s3 = s3
  x = x
  Null = Null
  Configs <- Files
  Offences = {}
  MaxBoots = 2
  MaxNodes = 0
  MaxSession = 1
  MaxFailures = 0
SPECIFICATION RegistrySpec
INVARIANT OthersAreRemoved
CHECK_DEADLOCK FALSE
