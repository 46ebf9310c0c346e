CONSTANTS
  Inferred <- NoTypes
  Candidates <- NoTypes
  Matches <- NoTypes
  Dir <- DirOf
  Words <- WordsOf
  HubDegree = 2
  MinShared = 2
  StartGraphs <- Starts
  Extracted <- Code4
  Options <- OptionsOf
  Again <- AgainOf
  Imports <- ImportsOf
  BatchSize = 3
  TokenBudget = 30
  MaxFeatures = 2
  Slug <- SlugOf
  MaxRuns = 2
  MaxEdits = 1
SPECIFICATION Spec
INVARIANTS
  HierarchyKept
CHECK_DEADLOCK FALSE
