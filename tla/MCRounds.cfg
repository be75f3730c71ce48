SPECIFICATION FairRounds
CONSTANTS
  inbox = inbox
  spam = spam
  Inbox = inbox
  Spam = spam
  Folders <- TwoFolders
  Mails = {1}
  Home <- FirstToInbox
  Blocked = {1}
  Suspect = {1}
  MaxFlips = 1
  MaxPuts = 1
  MaxClaims = 1
  MaxChanges = 2
  MaxFaults = 1
INVARIANTS
  Exclusive
  
PROPERTIES
  BaselineSettles
  
CHECK_DEADLOCK FALSE
