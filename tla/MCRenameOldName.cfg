CONSTANTS
  NWatchers = 1
  Names = {a, b}
  NoName = NoName
  Foreign = {}
  Mangled = Mangled
  Capacity = 2
  MaxChanges = 1
  MaxFaults = 0
SPECIFICATION Spec
INVARIANTS
  RenameKeepsOldName
