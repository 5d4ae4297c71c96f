SPECIFICATION FairSpec
CONSTANTS
  Droplets = {}
  LBs = {}
  Volumes = {v1, v2}
  PageSize = 1
  MaxDeletes = 0
PROPERTY OldResourcesCleaned
