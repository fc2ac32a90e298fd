\* A return inside the value of a let returns a reference to a parameter.
SPECIFICATION Spec
CONSTANTS
    Params <- MCParams
    ParamType <- MCParamType
    Programs <- Referring
    Compiled <- MCCompiled
    MaxTurns = 2
INVARIANT CallerFindsAll
