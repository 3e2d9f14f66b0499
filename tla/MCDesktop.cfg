CONSTANTS
  Users = {u1}
  NoUser = NoUser
  Garbage = Garbage
  Everybody = Everybody
  Known = {u1}
  Blocked = {u1}
  Slots = 1
  MaxModal = 2
  MaxFaults = 1
  MaxNotices = 2
SPECIFICATION FairSpec
CHECK_DEADLOCK FALSE
INVARIANTS NoticeTypeOK CanLogIn NoticesOfTheUser FlagIsRight MarksAreOfOwnNotices
PROPERTIES LoginOnlyWhenLoggedOut LogoutShowsWindow ListFollowsTables
