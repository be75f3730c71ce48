SPECIFICATION FairSpec
CONSTANTS
  inbox = inbox
  sent = sent
  None = None
  Folders <- TwoFolders
  Start = inbox
  Drafts = sent
  Mails = {1, 2, 3}
  Home <- HomeOf
  Uid <- UidOf
  Talk = {1, 2, 3}
  MaxMoves = 3
  MaxCalls = 3
  MaxFailures = 1
INVARIANTS
  
  LoadingHasRequest
PROPERTIES
  LatestOpenWins
  OpeningEnds
CHECK_DEADLOCK FALSE
