SPECIFICATION FairSpec
CONSTANTS
  GA = "ga"
  LA = {"la"}
  Hosts <- Pod
  Biases <- SomeBiases
  CtrlTime = 1
  DataTime = 2
  MaxWait = 1
INVARIANTS SyncedExactly
PROPERTIES AllSynced
CHECK_DEADLOCK FALSE
