SPECIFICATION MoveSpec
CONSTANTS
  i1 = i1
  i2 = i2
  None = None
  Path = {1, 2, 3, 4}
  Loose = {}
  LooseLead <- NoTargets
  Covered = {}
  Id = {i1, i2}
  MaxVersion = 2
  Above <- Nested
  Seed <- PairSeed
  LinkSets = {{}}
  AliasSets = {}
  MaxBatch = 2
  DiskFaults = TRUE
INVARIANTS NothingLostMidMove
PROPERTIES MoveIsAtomic
CHECK_DEADLOCK FALSE
