\* A generic function, a caller of it, and a new body for the generic function.
SPECIFICATION Spec
CONSTANTS
    double = double
    square = square
    smoke = smoke
    edge = edge
    Modules = {"main", "util"}
    Main = "main"
    Here = "here"
    Names <- MCNames
    ParamNames = {"x"}
    ExportNames = {"e"}
    TestNames <- MCTests
    Outcomes = {"ok"}
    ParamLists <- MCParamLists
    Bodies <- Bodies1
    Groups <- MCGroups
    MaxBirths = 2
    MaxMarks = 2
SYMMETRY Symmetric
INVARIANT InstancesDerive
CHECK_DEADLOCK FALSE
