SPECIFICATION FairList
CONSTANTS
  inbox = inbox
  other = other
  a = a
  ab = ab
  none = none
  None = None
  Places <- TwoFolders
  Start = inbox
  Mails = {1, 2, 3}
  Home <- HomeOf
  Unread = {2}
  Labelled = {2}
  Starred = {2}
  PageSize = 1
  Texts <- ThreeTexts
  Empty = none
  MaxMoves = 2
  MaxFailures = 1
  MaxLoads = 2
INVARIANTS
  DeletedStaysHidden
PROPERTIES
  AnswersFit
  RefreshKeepsHits
  LoadingEnds
CHECK_DEADLOCK FALSE
