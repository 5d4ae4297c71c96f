SPECIFICATION Spec
CONSTANTS
  Machines = {"m1"}
  Pausable = {"DOMachine"}
  MaxIncidents = 1
PROPERTY PausedNotQueued
CHECK_DEADLOCK FALSE
