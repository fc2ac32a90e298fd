---------------------------- MODULE ProgramRoot ----------------------------
(***************************************************************************)
(* One branch under semantic operations (Operations).                      *)
(***************************************************************************)
EXTENDS Operations

CONSTANTS
    MaxBirths,      \* bound: how many symbols are born in all
    MaxMarks        \* bound: how many names, exports and tests a root has

ASSUME BoundsAssumption == MaxBirths \in Nat /\ MaxMarks \in Nat

VARIABLES
    root,       \* the branch's program root
    births      \* how many symbols were born in its history

vars == <<root, births>>

TypeOK ==
    /\ IsRoot(root)
    /\ births \in 0 .. MaxBirths

Init ==
    /\ root = EmptyRoot
    /\ births = 0

Apply(op) ==
    /\ births + Newborn(op) <= MaxBirths
    /\ root' \in {q \in Accepted(root, births, op) : Marks(q) <= MaxMarks}
    /\ births' = births + Newborn(op)

CreateFunction == \E op \in CreateFunctionOps : Apply(op)
CreateExternalFunction == \E op \in CreateExternalOps : Apply(op)
CreateRecursionGroup == \E op \in CreateGroupOps : Apply(op)
RenameSymbol == \E op \in RenameOps(root) : Apply(op)
MoveSymbol == \E op \in MoveOps(root) : Apply(op)
ReplaceFunctionBody == \E op \in ReplaceBodyOps(root) : Apply(op)
ChangeFunctionSignature == \E op \in ChangeSignatureOps(root) : Apply(op)
AddParameter == \E op \in AddParameterOps(root) : Apply(op)
DeleteSymbol == \E op \in DeleteOps(root) : Apply(op)
CreateAlias == \E op \in CreateAliasOps(root) : Apply(op)
RemoveAlias == \E op \in RemoveAliasOps(root) : Apply(op)
SetExport == \E op \in SetExportOps(root) : Apply(op)
RemoveExport == \E op \in RemoveExportOps(root) : Apply(op)
CreateTest == \E op \in CreateTestOps(root) : Apply(op)
DeleteTest == \E op \in DeleteTestOps(root) : Apply(op)

Next ==
    \/ CreateFunction \/ CreateExternalFunction \/ CreateRecursionGroup
    \/ RenameSymbol \/ MoveSymbol \/ CreateAlias \/ RemoveAlias
    \/ ReplaceFunctionBody \/ ChangeFunctionSignature \/ AddParameter
    \/ DeleteSymbol
    \/ SetExport \/ RemoveExport \/ CreateTest \/ DeleteTest

Spec == Init /\ [][Next]_vars
=============================================================================
