SPECIFICATION FairSpec
CONSTANTS
  Packet <- AllPackets
  Queues <- AllQueues
  ZeroBuffer <- DataQueues
  Limit = 2
  Way <- AllWays
  Level <- Levels
  SendTime <- SendTimes
  PushedBefore <- Bursts
  Hdr = 2
  Prop = 1
  Loads <- AllLoads
  None = None
INVARIANTS TypeOK OnTime BusyQueuesAwake PushOrderKept
PROPERTIES AllArrive
CHECK_DEADLOCK FALSE
