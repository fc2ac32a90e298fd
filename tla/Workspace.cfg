\* Duplicated guarded writes, a writer that undoes them (ABA), and branches
\* made, moved and deleted under the writers.
SPECIFICATION Spec
CONSTANTS
    None = None
    s1 = s1
    s2 = s2
    s3 = s3
    Sessions = {s1, s2}
    Main = "main"
    Branches = {"main", "dev"}
    Roots <- MCRoots
    EmptyRoot = "none"
    Ops <- MCOps
    Pre <- MCPre
    Effect <- MCEffect
    Post <- MCPost
    Calls <- MCOps
    Resolve <- MCResolve
    Requests <- SharedRequests
    Ids = {1, 2}
    MaxSubmissions = 4
SYMMETRY Symmetry
INVARIANTS BranchesRecorded HistoriesReplay WriterSeesLatest
    AnswersAreSerial RecordedIffCommitted
PROPERTIES ImplementsBranchStore
CHECK_DEADLOCK FALSE
