\* Blocking calls and timers begun at every tick of a small word.
SPECIFICATION BoardFairSpec
CONSTANTS
  M = 14
  Timeout = 3
  CallBound = 4
  Timeouts = {0, 5}
  MaxAge = 7
INVARIANTS EndsInTime TimerTypeOK TimerAccurate
PROPERTIES NeverEarly TimerNeverGrows CallTerminates
