SPECIFICATION FairSpec
CONSTANTS
  None = None
  Sweeper = Sweeper
  u1 = u1
  b1 = b1
  b2 = b2
  c1 = c1
  c2 = c2
  c3 = c3
  c4 = c4
  inbox = inbox
  other = other
  s1 = s1
  s2 = s2
  Interactive <- OneUser
  Background <- TwoInBackground
  Conns <- FourConns
  Folders <- TwoFolders
  Inbox = inbox
  Secrets <- TwoLogins
  PoolSize = 1
  PoolExtra = 1
  MaxAsks = 2
  MaxFaults = 1
  MaxHung = 1
INVARIANTS
  OwnSession
  RightSession
  UsersFindPlace
  UsedIsPooled

  
CHECK_DEADLOCK FALSE
