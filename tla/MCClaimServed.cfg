SPECIFICATION FairSpec
CONSTANTS
  None = None
  Types = {"blockpool", "sharedfilesystem"}
  Clients = {"node"}
  MaxRequests = 1
  MaxDisturbances = 1
PROPERTIES
  ClaimServed
CHECK_DEADLOCK FALSE
