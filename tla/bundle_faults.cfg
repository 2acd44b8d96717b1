SPECIFICATION Spec
CONSTANTS
  i1 = i1
  i2 = i2
  i3 = i3
  up = up
  None = None
  Path = {1, 2, 3}
  Loose = {up}
  LooseLead <- Outwards
  Covered = {up}
  Id = {i1, i2}
  MaxVersion = 2
  Above <- Flat
  Seed <- BrokenSeed
  LinkSets = {{1, up}, {1}}
  AliasSets = {}
  MaxBatch = 1
  DiskFaults = TRUE
INVARIANTS HistoryContiguous AliasesUnambiguous BrokenLinksLeadNowhere
PROPERTIES NoNewBrokenLinks NoVersionLost FormerPathsResolve FormerPathsKeepHistory
CHECK_DEADLOCK FALSE
