CONSTANTS
  NWatchers = 2
  Names = {a}
  NoName = NoName
  Foreign = {}
  Mangled = Mangled
  Capacity = 1
  MaxChanges = 2
  MaxFaults = 1
SPECIFICATION FairSpec
INVARIANTS
  NoCallbackAfterFree
PROPERTIES
  EveryChangeIsLogged
