CONSTANTS
  Users = {u1}
  NoUser = NoUser
  Torn = Torn
  MaxStarts = 2
  MaxConnections = 2
  MaxFaults = 0
SPECIFICATION FairSpec
CHECK_DEADLOCK FALSE
PROPERTIES
  UnreadIsAnnounced
  StopEndsThreads
