CONSTANTS
  NoProject = NoProject
  HasLLM = TRUE
  Prompts <- AllPrompts
  StartDocs <- AnyDocs
  TriageSizes = {"small", "medium", "large"}
  Limits = {12, 50}
SPECIFICATION Spec
INVARIANTS
  ActionFitsPhase
  DoneMeansVerified
  EndsByItself
CHECK_DEADLOCK FALSE
