\* Seven years with two leap days, the end of the epochs that are accepted and
\* every end of a month, at the first and at the last hour of each day.
CONSTANTS
  FirstYear = 2027
  LastYear = 2033
  Hours = {0, 23}
SPECIFICATION Spec
INVARIANTS
  ClockRight
  WeekDayRight
CHECK_DEADLOCK FALSE
