\* Three starts from one of four files, each cut short anywhere; nodes come and go, and events
\* report validators offline; one registration of each start fails.
CONSTANTS
  s1 = s1
  s2 = s2
  s3 = s3
  x = x
  Null = Null
  Configs <- Files
  Offences <- Reported
  MaxBoots = 3
  MaxNodes = 1
  MaxSession = 2
  MaxFailures = 1
SPECIFICATION RegistrySpec
INVARIANTS RegistryTypeOK OneRecordPerCandidate UpMeansConfigured TelemetryNodesCounted
PROPERTIES HistoryKept
CHECK_DEADLOCK FALSE
