SPECIFICATION FairSpec
CONSTANTS
  LA <- Pods
  Host = {1, 2, 3, 4}
  Tor = {1, 2, 3, 4}
  Agg = {"a1", "a2"}
  Core = {"c1"}
  PodOf <- PodOf4
  TorOf <- OwnRack
  AggsOf <- OneAggPerPod
  CoreOf <- OneCore
  None = None
  Pair <- CorePairs
  T = 1
  Lag = 1
  SlotBytes = 2
  RtsSizes = {3}
  MaxBytes = 6
  MaxSlot = 3
INVARIANTS TypeOK ArbitersNeverFail OneTokenPerEntry SwitchCarried SchedulesBacked DemandCovered
PROPERTIES EntrySettled
CHECK_DEADLOCK FALSE
