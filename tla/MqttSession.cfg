SPECIFICATION Spec
CONSTANTS
  Filters = {f, g}
  None = None
  MaxHandlers = 1
  MaxPacketId = 2
  MaxQueue = 2
  Refusals = TRUE
  MaxQos = 2
INVARIANTS TypeOK SubscriptionsAgree PingOnTheWay
PROPERTIES AckMatches MessageHasHandler KeepsPromise
