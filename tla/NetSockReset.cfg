\* Client sockets reset as mqtt_hard_reset does.
CONSTANTS
  Handles = {h1, h2, h3}
  Servers = {}
  NumSockets = 2
  None = none
  AnswersLost = FALSE
SPECIFICATION ResetSpec
PROPERTY ResetClosesConnection
