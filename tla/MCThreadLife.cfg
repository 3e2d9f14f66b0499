CONSTANTS
  Users = {u1}
  NoUser = NoUser
  Torn = Torn
  MaxStarts = 1
SPECIFICATION Spec
CHECK_DEADLOCK FALSE
INVARIANTS
  LifeIsStateOfThread
