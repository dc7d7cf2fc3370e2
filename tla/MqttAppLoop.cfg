SPECIFICATION AppFairSpec
CONSTANTS
  Filters = {f}
  Topic = f
  None = None
  MaxHandlers = 2
  MaxPacketId = 1
  MaxQueue = 5
  Refusals = FALSE
  MaxQos = 0
INVARIANTS ListensWhileConnected
PROPERTIES DeadPeerNoticed
