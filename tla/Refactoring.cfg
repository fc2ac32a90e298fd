SPECIFICATION Spec
CONSTANTS
  I64Max = 7
  U8Max = 3
  MaxIterations = 3
  MaxDepth = 5
  MaxEdits = 2
  NameOrder <- MCNameOrder
  ArgInts <- MCArgInts
  Programs <- MCPrograms
  Renames <- MCRenames
  Additions <- MCAdditions
  Removals <- MCRemovals
  Literals <- MCLiterals
  Extractions <- MCExtractions
  Retargets <- MCRetargets
  Parameters <- MCParameters
INVARIANTS EvaluationSound BodiesReread TraceMirrors ImportRestores
PROPERTIES RefactoringKeepsMeaning RenamesUndo
CHECK_DEADLOCK FALSE
