\* Three endpoints, one of them down; up to three troubles and a crash.
CONSTANTS
  score = score
  validity = validity
  monitor = monitor
  offline = offline
  main = main
  Absent = Absent
  Endpoints = 3
  Down = {1}
  Callers = {score, validity, monitor, offline, main}
  Jobs = {score, validity, monitor}
  Handler = offline
  Main = main
  Keys <- TwoKeys
  CallsPerRun = 2
  TroubleKinds = {"drop", "limit", "mute"}
  MaxTrouble = 3
  MaxCrashes = 1
SPECIFICATION Spec
INVARIANTS OneAttempt NobodyForgotten
PROPERTIES ReachesGood JobsGoOn
