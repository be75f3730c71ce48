SPECIFICATION CacheSpec
CONSTANTS
  NoRow = NoRow
  MaxUid = 1
  MaxGen = 1
  MaxModseq = 6
  MissLimit = 2
  Window = 1
  Condstore = TRUE
  Wants <- Everything
  Faults <- NoFaults
PROPERTIES
  ClickSurvives
