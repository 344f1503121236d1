CONSTANTS
  Jobs <- MCLargeImages
  BUFSIZE = 6
  LongLengths <- MCLongLengths
  ManyStrings = 18
  MARGIN = 1
  MayLack = TRUE
  PWD_LEN = 3
  Upper <- MCUpper
  Lower <- MCLower
  Vowels <- MCVowels
  Targets <- MCTargets
  MayFail = TRUE
  Timeout = 1
  FirstMaxPwds = 1
  FirstReport = 2
  LastReport = 2
  ULongMod = 8
  MaxClock = 2
  Warps <- MCWarps
  MaxWarps = 0
  MaxPwds = 60
SPECIFICATION WorkerImgSpec
INVARIANTS EveryPosition
CHECK_DEADLOCK FALSE
