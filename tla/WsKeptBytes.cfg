\* Sessions in which more arrives with the answer of the handshake than is kept.
SPECIFICATION Spec
CONSTANTS
  MaxMessages = 2
  MaxToServer = 1
  MaxToClient = 2
  MaxFaults = 1
PROPERTY KeptBytesEnough
