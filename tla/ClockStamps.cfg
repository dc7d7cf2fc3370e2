\* The time stamps of a year.
CONSTANTS
  FirstYear = 2027
  LastYear = 2027
  Hours = {0, 23}
SPECIFICATION Spec
INVARIANT StampsTrue
CHECK_DEADLOCK FALSE
