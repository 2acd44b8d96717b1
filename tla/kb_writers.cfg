SPECIFICATION ToolSpec
CONSTANTS
  i1 = i1
  i2 = i2
  i3 = i3
  apple = apple
  pear = pear
  red = red
  note = note
  tool = tool
  notes = notes
  tools = tools
  drafts = drafts
  None = None
  Session = {s1, s2}
  MayMove = FALSE
  Versioned = TRUE
  Requests <- NoteOrNone
  SeedTypes <- OldTypes
  Word = {note, tool}
  Folder = {notes, tools, drafts}
  Registered <- TwoTypes
  Term = {apple, pear}
  Tag = {red}
  TextOf <- Texts
  Queries <- NoQueries
  FolderOf <- OneFolder
  Path = {1, 2}
  Loose = {}
  LooseLead <- NoTargets
  Covered = {}
  Id = {i1, i2}
  MaxVersion = 2
  Above <- Flat
  Seed <- OneSeed
  LinkSets = {{}}
  AliasSets = {}
  MaxBatch = 1
  DiskFaults = FALSE
INVARIANTS SearchFindsEveryConcept
PROPERTIES UpdatesReplaceWhatWasRead TypesAreOnlyRepaired
CHECK_DEADLOCK FALSE
