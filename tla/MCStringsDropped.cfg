\* A replacement of 0 as the comment of pwdgen_convert_to() has it.
CONSTANTS
  Folding <- MCFolding
  Inputs <- MCInputs
  Counts <- MCCounts
  Slots = {"x", "y"}
  Null = Null
  Replacement = 63
  Locale = "ISO_8859_15"
  MaxCalls = 2
SPECIFICATION Spec
PROPERTIES
  ZeroDrops
CHECK_DEADLOCK FALSE
