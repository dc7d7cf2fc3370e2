\* One session, one message each, and a call that passes another message after a send that failed.
SPECIFICATION Spec
CONSTANTS
  Setups <- Taken
  MaxData = 1
  None = None
INVARIANT ReportedArrives
CHECK_DEADLOCK TRUE
