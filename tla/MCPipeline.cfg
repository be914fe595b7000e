SPECIFICATION Spec
CONSTANTS
  Platform <- AllPlatform
  Scripts <- SafetyScripts
  Leftovers <- DyingPool
  MaxDisturbances <- SafetyDisturbances
INVARIANTS
  TypeOK
  
  ReadyMeansHealthy
  NooBaaHasItsStorageClass
  KMSOutlivesCeph
  FinalizerWaits
PROPERTIES
  ClassOutlivesNooBaa
CHECK_DEADLOCK FALSE
