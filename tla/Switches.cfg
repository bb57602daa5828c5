SPECIFICATION Spec
CONSTANTS
  Packet <- ControlPackets
  Arrived = Arrived
PROPERTY SwitchesForward
CHECK_DEADLOCK FALSE
