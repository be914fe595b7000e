SPECIFICATION Spec
CONSTANTS
  Platform <- AllPlatform
  Scripts <- Expansion
  Leftovers <- NoLeftovers
  MaxDisturbances <- Calm
PROPERTIES
  ExpandingUntilUpdating
CHECK_DEADLOCK FALSE
