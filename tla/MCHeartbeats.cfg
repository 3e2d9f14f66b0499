CONSTANTS
  NWatchers = 2
  Capacity = 2
SPECIFICATION FairSpec
INVARIANTS
  WalksAreSeparate
PROPERTIES
  StopEndsTheThread
