CONSTANTS
  MaxStarts = 2
  MaxPackets = 2
  QueueLength = 1
  MaxFaults = 1
SPECIFICATION FairSpec
CHECK_DEADLOCK FALSE
INVARIANTS
  HandleHasItsThread
  PacketsForwardedOnce
  PacketsInOrder
  OneMorePacket
PROPERTIES
  ImplementsStopFlagWorker
  StopEndsOrWaits
