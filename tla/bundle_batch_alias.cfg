SPECIFICATION Spec
CONSTANTS
  i1 = i1
  i2 = i2
  i3 = i3
  up = up
  None = None
  Path = {1, 2, 3, 4}
  Loose = {}
  LooseLead <- NoTargets
  Covered = {}
  Id = {i1, i2}
  MaxVersion = 2
  Above <- Flat
  Seed <- LoneSeed
  LinkSets = {{}}
  AliasSets = {}
  MaxBatch = 2
  DiskFaults = FALSE
PROPERTIES FormerPathsResolve
CHECK_DEADLOCK FALSE
