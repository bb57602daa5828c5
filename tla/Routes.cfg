SPECIFICATION Spec
CONSTANTS
  Packet <- AllPackets
  Arrived = Arrived
INVARIANTS FollowsSchedule
PROPERTIES DataEndsAtDst
CHECK_DEADLOCK FALSE
