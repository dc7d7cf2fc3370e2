\* Any calls of three structures on a module of two sockets: an open that found none.
CONSTANTS
  Handles = {h1, h2, h3}
  Servers = {}
  NumSockets = 2
  None = none
  AnswersLost = FALSE
SPECIFICATION Spec
INVARIANT FreeSocketFound
