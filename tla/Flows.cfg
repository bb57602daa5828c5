SPECIFICATION Spec
CONSTANTS
  Flow <- Flows
  Size <- Sizes
  Dst <- Destinations
  Mss = 2
  SlotPackets = 2
  T = 2
  Garbage = {0, 1}
  MaxSlot = 4
INVARIANTS TypeOK BytesConserved DemandCoversQueue FinishedWhenComplete
CHECK_DEADLOCK FALSE
