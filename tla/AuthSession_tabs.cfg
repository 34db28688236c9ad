\* Two tabs, one user.
CONSTANTS
  alice = alice
  left = left
  right = right
  Tab <- MCTab
  User <- MCUser
  NoUser = NoUser
  MaxOut = 1
SPECIFICATION FairSpec
INVARIANTS
  TypeOK
  GuardTracksRefresh
  DashboardHasUser
PROPERTIES
  GoodSessionKept
  FollowsSession
