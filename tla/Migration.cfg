SPECIFICATION Spec
CONSTANTS
    Procs = {p1}
    Seeds <- MCSeeds
    Commands <- MCCommands
    Explicit = {"yaml", "sqlite"}
    Restores = TRUE
    MaxHistory = 2
    MaxCommands = 3
    MaxCrashes = 1
    Inferred <- MCInferred
    Candidates <- MCCandidates
    Matches <- MCMatches
INVARIANT MigratedIsWhole
PROPERTIES
    RestoreKeepsWhatItReplaces
    OnlyWholeEdits
CHECK_DEADLOCK FALSE
