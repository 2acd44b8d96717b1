SPECIFICATION ServerSpec
CONSTANTS
  i1 = i1
  i2 = i2
  None = None
  Handler = {h1}
  Capacity = 2
  StoreFails = TRUE
  PullFails = FALSE
  Crashes = FALSE
  Stops = FALSE
  MayMove = TRUE
  Path = {1, 2}
  Loose = {}
  LooseLead <- NoTargets
  Covered = {}
  Id = {i1}
  MaxVersion = 2
  Above <- Flat
  Seed <- OneSeed
  LinkSets = {{}, {1}}
  AliasSets = {}
  MaxBatch = 1
  DiskFaults = FALSE
PROPERTIES StoredConceptsStay
CHECK_DEADLOCK FALSE
