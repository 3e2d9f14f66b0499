CONSTANTS
  MaxConnections = 2
  MaxRows = 2
  MaxNested = 1
SPECIFICATION Spec
INVARIANTS
  UsesOwnObjects
  ObjectsAccountedFor
  TrueMeansDone
PROPERTIES
  ImplementsDatabaseCalls
