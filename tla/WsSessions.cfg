\* Sessions over a connection with one fault and two messages, either way each.
SPECIFICATION FairSpec
CONSTANTS
  MaxMessages = 2
  MaxToServer = 1
  MaxToClient = 2
  MaxFaults = 1
INVARIANTS TypeOK HonestPeersAgree
PROPERTIES MessagesToClient MessagesToServer CloseEnds ServerServesAgain
