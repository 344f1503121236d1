\* Two strings, two calls after they are made, in any order.
CONSTANTS
  Folding <- MCFolding
  Inputs <- MCInputs
  Counts <- MCCounts
  Slots = {"x", "y"}
  Null = Null
  Replacement = 63
  Locale = "ISO_8859_15"
  MaxCalls = 2
SPECIFICATION Spec
INVARIANTS
  Fits
  CountRight
PROPERTIES
  ConvertsText
  CutsToPrefix
  ComparesText
  MovesText
  CasesText
  CaseEnds
CHECK_DEADLOCK FALSE
