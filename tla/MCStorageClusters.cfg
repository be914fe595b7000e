SPECIFICATION Spec
CONSTANTS
  c1 = c1
  c2 = c2
  None = None
  Clusters = {c1, c2}
  Name <- NamesInOrder
  Namespace <- SharedNamespace
  External <- BothInternal
  OperatorNamespace = "operator"
  MaxCreations = 3
  Second <- DistinctSeconds
  CreateModes = {"none"}
  Outcomes = {"error", "skipped", "requeue", "expanding", "clean", "negative"}
  InvalidSpecs = FALSE
  MaxDisturbances = 1
INVARIANTS
  TypeOK
  NoOrphans
  OneActivePerKind
PROPERTIES
  IgnoredStaysIgnored
