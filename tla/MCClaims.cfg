SPECIFICATION Spec
CONSTANTS
  None = None
  Types = {"blockpool"}
  Clients = {"node"}
  MaxRequests = 2
  MaxDisturbances = 1
INVARIANTS
  TypeOK
  ReadyMeansOwned
  ServedIsCurrent
PROPERTIES
  CapsKept
CHECK_DEADLOCK FALSE
