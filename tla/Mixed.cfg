SPECIFICATION Spec
CONSTANTS
  LA <- Pods
  Host = {1, 2, 3, 4}
  Tor = {1, 2, 3}
  Agg <- FourAggs
  Core = {"c0", "c1", "c2", "c3"}
  PodOf <- PodOf4
  TorOf <- MixedRacks
  AggsOf <- TwoAggsPerPod
  CoreOf <- CrossCore
  None = None
  Pair <- MixedPairs
  T = 2
  Lag = 1
  SlotBytes = 2
  RtsSizes = {2}
  MaxBytes = 2
  MaxSlot = 3
INVARIANTS BitsOwned NoDoubleBooking CollisionFree
PROPERTIES ImplementsSlotBooking
CHECK_DEADLOCK FALSE
