SPECIFICATION Spec
CONSTANTS
    Extractions = 1
    Languages <- TwoLanguages
    FirstGraph <- BothGraph
    Nodes <- BothNodes
    Functions <- BothFunctions
    Traits <- MCTraits
    FileOf <- MCFileOf
    LineOf <- MCLineOf
    Located <- MCLocated
    None = None
    NoVersion = NoVersion
    MaxVersion = 0
    MaxLate = 0
INVARIANT OnlyCallsRefined
CHECK_DEADLOCK FALSE
