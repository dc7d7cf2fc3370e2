\* The loop after a session that failed.
SPECIFICATION AppSpec
CONSTANTS
  Filters = {f}
  Topic = f
  None = None
  MaxHandlers = 2
  MaxPacketId = 1
  MaxQueue = 5
  Refusals = FALSE
  MaxQos = 0
PROPERTY ConnectsOverSocket
