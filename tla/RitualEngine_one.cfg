SPECIFICATION FairSpec
CHECK_DEADLOCK FALSE
CONSTANTS
  NumPhases = 3
  NeedsLLM = {1, 3}
  Approval <- ApprovalA
  DefaultApproval = "required"
  OnFailure <- OnFailureA
  MaxAttempts <- AttemptsA
  SkipIf <- SkipIfA
  SkipOn <- SkipOnA
  Produces = {1, 2}
  Hooked = {2}
  Procs = {p1}
  Commands = {"run", "run_auto", "run_json", "approve", "skip", "cancel"}
  MaxCommands = 4
  MaxCrashes = 2
  NoState = NoState
  Torn = Torn
INVARIANTS
  EveryCopyCoherent
  NoWorkPastAnUnapprovedGate
  LocalPhasesReallyRan
PROPERTIES
  SettledStaysSettled
  CommandsEnd
