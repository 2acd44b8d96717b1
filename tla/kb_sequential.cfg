SPECIFICATION ToolSpec
CONSTANTS
  i1 = i1
  i2 = i2
  i3 = i3
  apple = apple
  pear = pear
  red = red
  note = note
  tool = tool
  notes = notes
  tools = tools
  drafts = drafts
  None = None
  Session = {s1}
  MayMove = TRUE
  Versioned = FALSE
  Requests <- AnyRequest
  SeedTypes <- OldTypes
  Word = {note, tool}
  Folder = {notes, tools, drafts}
  Registered <- TwoTypes
  Term = {apple, pear}
  Tag = {red}
  TextOf <- Texts
  Queries <- Asked
  FolderOf <- Folders
  Path = {1, 2, 3}
  Loose = {}
  LooseLead <- NoTargets
  Covered = {}
  Id = {i1, i2, i3}
  MaxVersion = 2
  Above <- Flat
  Seed <- TwoSeed
  LinkSets = {{}, {1}}
  AliasSets = {}
  MaxBatch = 1
  DiskFaults = FALSE
INVARIANTS ToolTypeOK IndexCurrent SearchRanksTheBundle
PROPERTIES TypesAreOnlyRepaired
CHECK_DEADLOCK FALSE
