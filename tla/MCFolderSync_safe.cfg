SPECIFICATION CacheSpec
CONSTANTS
  NoRow = NoRow
  MaxUid = 1
  MaxGen = 2
  MaxModseq = 3
  MissLimit = 2
  Window = 1
  Condstore = TRUE
  Wants <- Everything
  Faults <- AllButStatus
INVARIANTS
  NeverCollides
PROPERTIES
  StickyRespected
  
