\* Any calls on two sockets of a module that is late, refuses and stuffs.
SPECIFICATION FairSpec
CONSTANTS
  Sockets = {0, 1}
  None = None
INVARIANTS TypeOK OkMeansExecuted LinkStaysInStep
PROPERTIES OwnSocketOnly CallsReturn
