SPECIFICATION Spec
CONSTANTS
  i1 = i1
  i2 = i2
  i3 = i3
  up = up
  None = None
  Path = {1, 2, 3, 4}
  Loose = {up}
  LooseLead <- Upwards
  Covered = {}
  Id = {i1, i2, i3}
  MaxVersion = 2
  Above <- Nested
  Seed <- LinkedSeed
  LinkSets = {{}, {1, 3}, {3, up}}
  AliasSets = {}
  MaxBatch = 2
  DiskFaults = FALSE
INVARIANTS TypeOK HistoryBelongsToResident NoStrayDirs BrokenLinksLeadNowhere
PROPERTIES NoNewBrokenLinks LinksFollowConcepts InboundForetellsMove CatalogKept
CHECK_DEADLOCK FALSE
