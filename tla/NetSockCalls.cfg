\* Any calls, careful or not: three structures, a server, a module of two sockets.
CONSTANTS
  Handles = {h1, h2, h3}
  Servers = {s1}
  NumSockets = 2
  None = none
  AnswersLost = TRUE
SPECIFICATION MCSpec
SYMMETRY MC_Symmetry
INVARIANT TypeOK
INVARIANT Consistent
INVARIANT DistinctNumbers
PROPERTY IndependentWhileCareful
