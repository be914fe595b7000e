SPECIFICATION Spec
CONSTANTS
  Nodes = {"n1", "n2", "n3", "n4"}
  RackNames <- const_RackNames
  OperatorRacks = 5
  Zones = {"a", "b", "c"}
  Starts <- const_Starts
  Labellings <- const_Labellings
  MaxEdits = 1
  MaxDisturbances = 1
INVARIANTS
  TypeOK
  RacksKeepZones
  EnoughRacks
PROPERTIES
  DomainKept
  ZoneKeyKept
  ValuesSettle
CHECK_DEADLOCK FALSE
