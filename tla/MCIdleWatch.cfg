SPECIFICATION FairWatch
CONSTANTS
  NoThread = NoThread
  a1 = a1
  a2 = a2
  t1 = t1
  t2 = t2
  t3 = t3
  Accounts <- TwoAccounts
  Threads <- ThreeThreads
  Workers = 1
  MaxEdits = 1
  MaxMail = 1
  MaxFailures = 1
INVARIANTS
  OneListener
PROPERTIES
  WatchersSettle
  MissedIsFetched
  KeepsWake
