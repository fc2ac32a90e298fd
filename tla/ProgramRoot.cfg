\* Programs of at most two functions.
SPECIFICATION Spec
CONSTANTS
    double = double
    square = square
    smoke = smoke
    edge = edge
    Modules = {"main", "util"}
    Main = "main"
    Here = "here"
    Names <- MCNames
    ParamNames = {"x"}
    ExportNames = {"e"}
    TestNames <- MCTests
    Outcomes = {"ok"}
    ParamLists <- MCParamLists
    Bodies <- Bodies1
    Groups <- MCGroups
    MaxBirths = 2
    MaxMarks = 3
SYMMETRY Symmetric
INVARIANTS NamesResolve StoredRootsCheck BodiesRoundTrip ModulesListed LinkComplete
INVARIANTS PostconditionsAttained RetriesSettle
PROPERTIES CallGraphKept ImpactSound SkippedTestsKeep
CHECK_DEADLOCK FALSE
