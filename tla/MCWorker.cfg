CONSTANTS
  SetType = "GROUPED"
  Default <- MCDefault
  Pairs <- MCPairs
  Chars <- MCChars
  Chunks <- MCChunks
  Targets <- MCTargets
  MAXCHARS = 3
  PWD_LEN = 4
  BATCH = 2
  MayFail = TRUE
  Timeout = 1
  FirstMaxPwds = 1
  FirstReport = 2
  LastReport = 2
  ULongMod = 8
  MaxClock = 3
  Warps <- MCWarps
  MaxWarps = 1
  MaxPwds = 12
SPECIFICATION WorkerFairSpec
INVARIANTS Coverage InsideChunk StopCode Counted
PROPERTIES OverflowTells Ends WalksTheRoom
CHECK_DEADLOCK FALSE
