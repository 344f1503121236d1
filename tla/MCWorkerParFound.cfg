CONSTANTS
  SetType = "SIMPLE"
  Default <- MCDefault
  Pairs <- MCPairs
  Chars <- MCChars
  Chunks <- MCChunks
  Targets <- MCTargets
  MAXCHARS = 2
  PWD_LEN = 4
  MaxCount = 2
  NoMemory = FALSE
  MayFail = FALSE
  Timeout = 1
  FirstMaxPwds = 1
  FirstReport = 2
  LastReport = 2
  ULongMod = 8
  MaxClock = 3
  Warps <- MCWarps
  MaxWarps = 1
  MaxPwds = 14
SPECIFICATION ParSpec
INVARIANT FoundReported

CHECK_DEADLOCK FALSE
