\* Every way to be asked for a certificate and to take one, and two messages each way.
SPECIFICATION FairSpec
CONSTANTS
  Setups <- MCSetups
  MaxData = 2
  None = None
INVARIANTS TypeOK SessionsAgree SentArrives
PROPERTY OpenReturns
CHECK_DEADLOCK TRUE
