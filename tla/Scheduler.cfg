CONSTANTS
  a = a
  b = b
  c = c
  x = x
  NoTask = NoTask
  NoStop = NoStop
  Ids <- Ids4
  TaskIds <- Ids4
  Graphs <- Boards
  Offers <- Proposals
  MaxConcurrent = 2
  MaxReplans = 1
  MaxRetries = 1
  HasPool = {TRUE, FALSE}
  HasGuards = TRUE
  MaxExecutions = 2
  MaxStops = 1
  MaxCrashes = 1
SPECIFICATION FairSpec
INVARIANTS
  WorkStartsReady
  DoneMeansMerged
  NoOrphanInProgress
  NoUnrequestedCancel
PROPERTIES
  ImplementsLifecycle
  ExecutionEnds
CHECK_DEADLOCK FALSE
