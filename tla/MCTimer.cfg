CONSTANTS
  Timeout = 1
  FirstMaxPwds = 1
  FirstReport = 2
  LastReport = 2
  ULongMod = 8
  MaxClock = 6
  Warps <- MCWarps
  MaxWarps = 2
  MaxPwds = 12
SPECIFICATION TimerFairSpec
INVARIANTS NeverTooEarly CheckInterval CheckedInTime
PROPERTY Stops
CHECK_DEADLOCK FALSE
