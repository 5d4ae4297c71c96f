SPECIFICATION Spec
CONSTANTS
  VolumeNames = {"m-data", "m-logs"}
  DataDisks <- NoDisk
  Mishaps = {}
  MaxMishaps = 0
  MaxDroplets = 1
  MaxEdits = 0
INVARIANT FailureIsTerminal
