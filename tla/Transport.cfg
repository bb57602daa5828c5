SPECIFICATION FairSpec
CONSTANTS
  Mss = 2
  InitialCwnd = 2
  MaxCwnd = 3
  Configs <- Networks
  NumFlows = 3
  HdrSize = 1
  LimitBytes = 6
  Word = 64
INVARIANTS TypeOK AckedWasReceived OneTimer PFabricSparesAcks
PROPERTIES ImplementsTransport FinishedUnlessAckLost
CHECK_DEADLOCK FALSE
