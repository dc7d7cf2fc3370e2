\* Three open sockets, used with care.
CONSTANTS
  Handles = {h1, h2, h3}
  Servers = {}
  NumSockets = 4
  None = none
  AnswersLost = FALSE
SPECIFICATION CarefulSpec
PROPERTY CloseClosesItsConnection
