\* pwdgen_streq() as its comment has it.
CONSTANTS
  Folding <- MCFolding
  Inputs <- MCInputs
  Counts <- MCCounts
  Slots = {"x", "y"}
  Null = Null
  Replacement = 63
  Locale = "ISO_8859_15"
  MaxCalls = 2
SPECIFICATION Spec
PROPERTIES
  EqualIsOne
CHECK_DEADLOCK FALSE
