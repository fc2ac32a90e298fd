SPECIFICATION Spec
CONSTANTS
  I64Max = 3
  U8Max = 3
  MaxIterations = 3
  MaxDepth = 5
  MaxEdits = 2
  NameOrder <- MCNameOrder
  ArgInts <- MCArgInts
  Programs <- MCBoundaries
  Renames <- MCRenames
  Additions <- MCAdditions
  Removals <- MCRemovals
  Literals <- MCLiterals
  Extractions <- MCExtractions
  Retargets <- MCRetargets
  Parameters <- MCParameters
PROPERTY InlineKeepsMeaning
CHECK_DEADLOCK FALSE
