\* A server whose start the module refuses, or answers too late.
CONSTANTS
  Handles = {h1}
  Servers = {s1}
  NumSockets = 2
  None = none
  AnswersLost = TRUE
SPECIFICATION Spec
INVARIANT ServedThroughItsSocket
