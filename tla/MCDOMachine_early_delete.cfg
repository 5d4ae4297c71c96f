SPECIFICATION Spec
CONSTANTS
  VolumeNames = {"m-data", "m-logs"}
  DataDisks <- NoDisk
  Mishaps = {"unprotectedDelete"}
  MaxMishaps = 1
  MaxDroplets = 1
  MaxEdits = 0
INVARIANT FinalizerGuardsDroplets
