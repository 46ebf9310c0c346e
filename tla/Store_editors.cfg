SPECIFICATION StoreSpec
CONSTANTS
    Procs = {p1, p2}
    Seeds <- EditorSeeds
    Commands <- EditorCommands
    Explicit = {}
    Restores = TRUE
    MaxHistory = 1
    MaxCommands = 3
    MaxCrashes = 1
    Inferred <- MCInferred
    Candidates <- MCCandidates
    Matches <- MCMatches
INVARIANT EdgesHaveEnds
PROPERTY OnlyWholeEdits
CHECK_DEADLOCK FALSE
