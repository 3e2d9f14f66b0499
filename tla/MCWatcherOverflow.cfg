CONSTANTS
  NWatchers = 1
  Names = {a, b, c}
  NoName = NoName
  Foreign = {c}
  Mangled = Mangled
  Capacity = 2
  MaxChanges = 3
  MaxFaults = 1
SPECIFICATION Spec
SYMMETRY Symmetry
INVARIANTS
  TypeOK
  RowsTellWhatHappened
  NothingVanishes
  AllYesMeansGone
  OneOwnerOfBuffer
PROPERTIES
  ImplementsAuditTrail
