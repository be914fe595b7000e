SPECIFICATION FairSpec
CONSTANTS
  c1 = c1
  c2 = c2
  None = None
  Clusters = {c2}
  Name <- NamesInOrder
  Namespace <- OwnNamespaces
  External <- OneExternal
  OperatorNamespace = "operator"
  MaxCreations = 2
  Second <- DistinctSeconds
  CreateModes = {"none"}
  Outcomes = {"error", "skipped", "requeue", "clean", "negative"}
  InvalidSpecs = FALSE
  MaxDisturbances = 3
PROPERTIES
  UninstallCompletes
