SPECIFICATION FairSpec
CONSTANTS
  VolumeNames = {"m-data", "m-logs"}
  DataDisks <- TwoDisks
  Mishaps <- AllMishaps
  MaxMishaps = 1
  MaxDroplets = 2
  MaxEdits = 1
INVARIANTS TypeOK VolumesReclaimed VolumeNamesUnique RecordedDropletProtected
  LeaksBoundedByMishaps OneDropletPerMachine NothingLeftBehind
PROPERTIES KeepsContract DestroyOnlyWhenDeleting
  FailureFreezesMachine ProvisioningCompletes DeletionCompletes
