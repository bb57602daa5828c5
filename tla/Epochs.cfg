SPECIFICATION CentralSpec
CONSTANTS
  NumFlows = 3
  Hosts = {"a", "b", "c", "d"}
  Src <- ThreeSrc
  Dst <- ThreeDst
  SizeInPkt <- ThreeSizes
  EpochPkts = 2
  MaxFaults = 1
  Size <- ThreeSizesInBytes
  Mss = 2
  Word = 64
  MaxInFlight = 2
  None = None
INVARIANTS AllTypesOK AllottedIsRemaining SendsHaveAPacket ArbiterConsistent NoPairIdle
PROPERTIES AllFinish
CHECK_DEADLOCK FALSE
