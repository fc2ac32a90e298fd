\* Every function of the families, on arguments that share nothing.
SPECIFICATION Spec
CONSTANTS
    Params <- MCParams
    ParamType <- MCParamType
    Programs <- MCPrograms
    Compiled <- MCCompiled
    MaxTurns = 2
INVARIANTS AcceptedIsSafe NothingLeaks CallerFindsAll AcceptedIsVerified
