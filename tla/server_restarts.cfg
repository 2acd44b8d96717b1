SPECIFICATION ServerSpec
CONSTANTS
  i1 = i1
  i2 = i2
  None = None
  Handler = {h1}
  Capacity = 2
  StoreFails = FALSE
  PullFails = FALSE
  Crashes = TRUE
  Stops = TRUE
  MayMove = TRUE
  Path = {1, 2}
  Loose = {}
  LooseLead <- NoTargets
  Covered = {}
  Id = {i1, i2}
  MaxVersion = 2
  Above <- Flat
  Seed <- OneSeed
  LinkSets = {{}, {1}}
  AliasSets = {}
  MaxBatch = 1
  DiskFaults = FALSE
INVARIANTS ServerTypeOK Mirrored StoreIsAnEarlierVersion
PROPERTIES StoredConceptsStay SnapshotsNotOverwritten
CHECK_DEADLOCK FALSE
