SPECIFICATION Spec
CONSTANTS
  Platform <- AllPlatform
  Scripts <- LivenessScripts
  Leftovers <- NoLeftovers
  MaxDisturbances <- LivenessDisturbances
PROPERTIES
  Converges
  UninstallCompletes
CHECK_DEADLOCK FALSE
