SPECIFICATION Spec
CONSTANTS
  None = None
  Nobody = Nobody
  inbox = inbox
  archive = archive
  Pages = {"bulk"}
  MaxMoves <- MovesOnPages
  MaxFailures = 1
  MaxCalls = 2
  Folders <- TwoFolders
  Start = inbox
  Mails <- ThreeMails
  Home <- HomeOf
  Number <- NumberOf
  MaxGen = 1
  Separator = "/"
  Accounts = {"a1", "a2"}
  FirstAccount = "a1"
  Lists <- TwoLists
  FirstHidden <- SentInBox
  PanelMails <- PanelPair
  UidOf <- OneUid
  PanelAccounts = {"a1", "a2"}
  Warm = 1
  CleanMails = {1, 2, 3}
  Fits <- CleanFits
  CleanStarred = {3}
  PageLength = 1
  CleanTargets = {"archive", "trash"}
  MaxViews = 1
  Undo = 2
  Aliases = {"alias"}
  Signed = {"alias"}
  Default = "alias"
  Notes = {"n1", "n2"}
  Texts = {"a", "b"}
  Askers <- NoteAskers
  Replies = {TRUE, FALSE}
  No = FALSE
  Hours = 4
  Zone = 1
  Today = 1
  LastDay = 3
  MonthDays = 2
  MaxSpan = 2
  Calendars = {"work", "read"}
  Writable = {"work"}
  FirstEvents <- FourEvents
  Cards = {"x", "y"}
  Queries = {"", "x"}
  Finds <- CardFinds
  BirthdayCals = {"b"}
  MaxContacts = 2
  DavAccounts = {"d1", "d2"}
  FirstDav = "d1"
  Cals = {"c1"}
  RuleAccounts = {"a1", "a2"}
  FirstRuleAccount = "a1"
  RuleTexts = {"x", "y"}
  MaxRules = 2
INVARIANT OnlyTickedTouched
CHECK_DEADLOCK FALSE
