SPECIFICATION FairSpec
CONSTANTS
  NumFlows = 2
  Hosts = {"a", "b"}
  Src <- TwoSrc
  Dst <- TwoDst
  SizeInPkt <- TwoSizes
  CapabilityInitial = 1
  CapabilityWindow = 1
  MaxFaults = 2
INVARIANTS TypeOK GoalHasTimer HostsAwake
PROPERTIES FinishedUnlessRtsOrAckLost
CHECK_DEADLOCK FALSE
