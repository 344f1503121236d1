CONSTANTS
  SetType = "SIMPLE"
  Default <- MCDefault
  Pairs <- MCPairs
  Chars <- MCChars
  Chunks <- MCChunks
  Targets <- MCTargets
  MAXCHARS = 2
  PWD_LEN = 3
  Generator = "ISO_8859_1"
  Tables <- MCTables
  Above <- MCAbove
  Requests <- MCRequests
  MaxEnc = 4
  HighChars <- MCHigh
  PrefixKinds <- MCPrefixKinds
  MayFail = FALSE
  Timeout = 1
  FirstMaxPwds = 1
  FirstReport = 2
  LastReport = 2
  ULongMod = 8
  MaxClock = 2
  Warps <- MCWarps
  MaxWarps = 0
  MaxPwds = 16
SPECIFICATION EncFairSpec
INVARIANTS EncCoverage GoodListShown EncCounted
PROPERTIES EncEnds
CHECK_DEADLOCK FALSE
