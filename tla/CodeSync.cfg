SPECIFICATION Spec
CONSTANTS
    Files <- MCFiles
    Language <- MCLanguage
    ModuleName <- MCModuleName
    PartialNames <- MCPartialNames
    MethodLimit <- MCLimit
    SelfLimit <- MCLimit
    Package <- MCPackage
    Above <- MCAbove
    NamedTests <- MCNamedTests
    TestFiles <- MCTestFiles
    Builtins <- MCBuiltins
    Tasks <- MCTasks
    Named <- MCNamed
    Contents <- MCContents
    Backends <- MCBackends
    FirstTasks <- MCFirstTasks
    FirstDisks <- MCFirstDisks
    NoSemantify = FALSE
    GlobalLimit = 1
    MaxEvents = 4
    MaxCrashes = 1
INVARIANTS
    TasksStay
    NoDanglingCode
    MetadataTellsTheTruth
PROPERTIES
    WatchCatchesUp
CHECK_DEADLOCK FALSE
