SPECIFICATION Spec
CONSTANTS
    Files <- MCFiles
    Language <- MCLanguage
    ModuleName <- MCModuleName
    PartialNames <- MCPartialNames
    MethodLimit <- MCLimit
    SelfLimit <- MCLimit
    Package <- MCPackage
    Above <- MCAbove
    NamedTests <- MCNamedTests
    TestFiles <- MCTestFiles
    Builtins <- MCBuiltins
    Tasks <- MCTasks
    Named <- MCNamed
    Contents <- MCContents
    Backends <- MCBackends
    FirstTasks <- MCFirstTasks
    FirstDisks <- MCFirstDisks
    NoSemantify = FALSE
    GlobalLimit = 1
    MaxEvents = 2
    MaxCrashes = 0
INVARIANTS
    ExtractKeepsTasks
CHECK_DEADLOCK FALSE
