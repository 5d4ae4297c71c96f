SPECIFICATION FairSpec
CONSTANTS
  Droplets = {d1, d2}
  LBs = {}
  Volumes = {v1, v2}
  PageSize = 1
  MaxDeletes = 1
INVARIANTS CompletedMeansClean
PROPERTY DueIsReclaimed
