CONSTANTS
  Users = {u1, u2}
  NoUser = NoUser
  Torn = Torn
  MaxStarts = 2
  MaxConnections = 2
  MaxFaults = 1
SPECIFICATION Spec
SYMMETRY Symmetry
CHECK_DEADLOCK FALSE
INVARIANTS
  ConnectionsAccountedFor
  TooltipsForTheUser
PROPERTIES
  ImplementsStopFlagWorker
