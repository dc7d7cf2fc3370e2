\* Sessions in which one read is late.
SPECIFICATION Spec
CONSTANTS
  MaxMessages = 2
  MaxToServer = 1
  MaxToClient = 1
  MaxFaults = 1
PROPERTY DrainKeepsAligned
