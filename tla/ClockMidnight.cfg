\* A year of setting the clock.
CONSTANTS
  FirstYear = 2027
  LastYear = 2027
  Hours = {0, 23}
SPECIFICATION Spec
PROPERTY SystemTimeSet
CHECK_DEADLOCK FALSE
