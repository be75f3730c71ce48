SPECIFICATION Spec
CONSTANTS
  m1 = m1
  m2 = m2
  a1 = a1
  a2 = a2
  None = None
  Mails <- MCTwoMails
  Accounts <- MCAccounts
  AccountOf <- MCTwoAccountOf
  MaxKey = 2
  Limit = 2
  KeyReuse = TRUE
  DbFaults = FALSE
  MaxCrashes = 0
INVARIANTS
  CancelledNeverSent
CHECK_DEADLOCK FALSE
