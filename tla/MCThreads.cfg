CONSTANTS
  Users = {u1, u2}
  NoUser = NoUser
  Torn = Torn
  MaxStarts = 2
SPECIFICATION FairSpec
CHECK_DEADLOCK FALSE
INVARIANTS
  LoggedInMeansWatched
  RowsBelongToTheUser
  NoNameFromThePast
PROPERTIES
  ImplementsStopFlagWorker
  LogoutEndsThreads
