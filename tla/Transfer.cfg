\* Two databases that edit, merge, branch, export and import.
SPECIFICATION Spec
CONSTANTS
    None = None
    Databases = {"home", "away"}
    Branches = {"main", "dev"}
    Main = "main"
    Agents <- MCAgents
    Submitted <- MCSubmitted
    Roots <- MCRoots
    EmptyRoot <- Empty
    Ops <- MCOps
    Pre <- MCPre
    Effect <- MCEffect
    Post <- MCPost
    Objects <- MCObjects
    Kind <- BoxKind
    Fields <- MCFields
    Builtins <- MCBuiltins
    Interfaces <- MCInterfaces
    Merged <- MCMerged
    Depth = 5
    MaxEdits <- MCMaxEdits
    MaxSent = 1
INVARIANTS VerifyClean DocumentsImport RoundTrip ImportsAgree
CHECK_DEADLOCK FALSE
