SPECIFICATION Spec
CONSTANTS
  Machines = {"m1"}
  Pausable = {"Cluster", "DOCluster", "Machine", "DOMachine"}
  MaxIncidents = 1
INVARIANTS RestIsQuiet RestsWhenUp RestsWhenDown
CHECK_DEADLOCK FALSE
