CONSTANTS
  NoProject = NoProject
  HasLLM = TRUE
  Prompts <- AllPrompts
  StartDocs <- NewOrComplete
  TriageSizes = {"small", "large"}
  MaxUserEvents = 3
  MaxFailures = 2
  MaxLate = 2
SPECIFICATION SessionSpec
INVARIANTS
  NoSilentStall
  ReviewsAreAimed
  ProjectKnownPastDetection
  TwoRoundsAtMost
CHECK_DEADLOCK FALSE
