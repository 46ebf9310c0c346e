SPECIFICATION Spec
CONSTANTS
    Extractions = 2
    Languages <- RustOnly
    FirstGraph <- RustGraph
    Nodes <- RustNodes
    Functions <- MCFunctions
    Traits <- MCTraits
    FileOf <- MCFileOf
    LineOf <- MCLineOf
    Located <- MCLocated
    None = None
    NoVersion = NoVersion
    MaxVersion = 1
    MaxLate = 1
INVARIANTS
    OwnAnswers
PROPERTIES
    ExtractsEnd
CHECK_DEADLOCK FALSE
