\* Sessions over a connection without a fault.
SPECIFICATION Spec
CONSTANTS
  MaxMessages = 2
  MaxToServer = 1
  MaxToClient = 1
  MaxFaults = 0
INVARIANT NoProtocolError
