\* Every request is answered, its work committed at most once.
SPECIFICATION FairSpec
CONSTANTS
    None = None
    s1 = s1
    s2 = s2
    s3 = s3
    Sessions = {s1, s2}
    Main = "main"
    Branches = {"main", "dev"}
    Roots <- MCRoots
    EmptyRoot = "none"
    Ops <- MCOps
    Pre <- MCPre
    Effect <- MCEffect
    Post <- MCPost
    Calls <- MCOps
    Resolve <- MCResolve
    Requests <- ForwardRequests
    Ids = {1, 2, 3}
    MaxSubmissions = 4
PROPERTIES Answered CommitsOnce
CHECK_DEADLOCK FALSE
