CONSTANTS
  t1 = t1
  t2 = t2
  t3 = t3
  other = other
  Ids <- Ids4
  TaskIds <- Tasks3
  Graphs <- Graphs3
  Inferred <- TypeOf
  Candidates <- CandidatesOf
  Matches <- MatchesOf
  Lines <- LinesOf
  LineBytes = 40
  MinUseful = 32
  Design <- DesignOf
  Goals <- GoalsOf
  Texts <- TextsOf
  Relations <- RelationsOf
  TargetSets <- TargetsOf
  Budgets <- BudgetsOf
  MaxDepth = 3
  Documents <- DocumentsOf
  Wild <- WildOf
  Starting <- StartingOf
  ProjectFiles <- ProjectFilesOf
  Paths <- PathsOf
  Templates <- TemplatesOf
SPECIFICATION PlanSpec
INVARIANTS
  LayersFit
  FailsOnlyIfStuck
  TraversalsFit
  QueriesAgree
  ContextsFit
  PhasesFit
CHECK_DEADLOCK FALSE
