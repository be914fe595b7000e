SPECIFICATION Spec
CONSTANTS
  Platform <- AllPlatform
  Scripts <- RadosScripts
  Leftovers <- NoLeftovers
  MaxDisturbances <- Calm
INVARIANTS
  ExternalDelivered
CHECK_DEADLOCK FALSE
