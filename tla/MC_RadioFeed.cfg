CONSTANTS
  NoRule = NoRule
  Calls <- MCCalls
  Notices <- MCNotices
  Races <- MCRaces
  Delays = {0}
  Window = 1
  HistoryCap = 2
  MaxPublished = 3
SPECIFICATION FairSpec
CHECK_DEADLOCK FALSE
INVARIANTS
  TypeOK
  CriticalNeverSuperseded
  NoContradictionOnAir
  LowerNeverDisplacesHigher
  DecidedOnce
PROPERTY
  EveryCallDecided
