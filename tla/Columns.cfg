SPECIFICATION Spec
CONSTANTS
  LA <- Pods
  Host = {1, 2, 3, 4}
  Tor = {1, 2, 3, 4}
  Agg <- EndAggs
  Core = {0}
  PodOf <- PodOf4
  TorOf <- OwnRack
  AggsOf <- AggOfEnd
  CoreOf <- EndCore
  None = None
  Pair <- CorePairs
  T = 1
  Lag = 1
  SlotBytes = 2
  RtsSizes = {3}
  MaxBytes = 6
  MaxSlot = 3
INVARIANT CoreColumnIsPort
CHECK_DEADLOCK FALSE
