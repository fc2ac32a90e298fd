\* Two branches, three edits and two merges after the fork.
SPECIFICATION Spec
CONSTANTS
    Modules = {"main", "util"}
    Main = "main"
    Here = "here"
    Names <- MCNames
    ParamNames = {"x"}
    ExportNames = {"e"}
    TestNames = {"t"}
    Outcomes = {"ok"}
    Branches = {"main", "agent"}
    Starts <- MCStarts
    ParamLists <- MCParamLists
    Bodies <- MCBodies
    Groups <- MCGroups
    Submitted <- MCSubmitted
    MaxBirths = 5
    MaxMarks = 5
    MaxEdits <- MCMaxEdits
    MaxMerges = 1
INVARIANTS TipsAreSound MergesAgree MergeIsReplay
CHECK_DEADLOCK FALSE
