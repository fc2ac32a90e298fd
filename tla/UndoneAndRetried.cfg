\* A write is undone while its duplicate is being delivered.
SPECIFICATION Spec
CONSTANTS
    None = None
    s1 = s1
    s2 = s2
    s3 = s3
    Sessions = {s1, s2}
    Main = "main"
    Branches = {"main"}
    Roots <- MCRoots
    EmptyRoot = "none"
    Ops <- MCOps
    Pre <- MCPre
    Effect <- MCEffect
    Post <- MCPost
    Calls <- MCOps
    Resolve <- MCResolve
    Requests <- UndoneRequests
    Ids = {1, 2}
    MaxSubmissions = 5
SYMMETRY Symmetry
PROPERTY CommitsOnce
CHECK_DEADLOCK FALSE
