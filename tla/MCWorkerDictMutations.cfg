CONSTANTS
  Jobs <- MCTwoBitJobs
  Upper <- MCUpper
  Lower <- MCLower
  Vowels <- MCVowels
  Garbage <- MCGarbage
  MAXCHARS = 3
  PWD_LEN = 4
  Targets <- MCTargets
  MayFail = TRUE
  Timeout = 1
  FirstMaxPwds = 1
  FirstReport = 2
  LastReport = 2
  ULongMod = 8
  MaxClock = 3
  Warps <- MCWarps
  MaxWarps = 0
  MaxPwds = 60
SPECIFICATION WorkerDictSpec
INVARIANTS EveryMutation
CHECK_DEADLOCK FALSE
