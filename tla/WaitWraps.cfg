\* A blocking call in which the tick wraps.
SPECIFICATION Spec
CONSTANTS
  M = 32
  Timeout = 7
  CallBound = 8
INVARIANT EndsInTimeOverWrap
