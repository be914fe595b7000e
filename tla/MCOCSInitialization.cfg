SPECIFICATION Spec
CONSTANTS
  AllTolerations = {"infra", "edge", "user"}
  Fleets <- const_Fleets
  Monitored = {TRUE, FALSE}
  MaxEdits = 2
  MaxDisturbances = 1
INVARIANTS
  TypeOK
  ConfigFollowsClusters
  TolerationsFollowClusters
  RookRunsConfig
  ReadyMeansComplete
PROPERTIES
  HolderPodsKept
  Settles
CHECK_DEADLOCK FALSE
