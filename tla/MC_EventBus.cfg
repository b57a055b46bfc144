CONSTANTS
  poller = poller
  api = api
  Producers <- MCProducers
  QueueSize = 2
  HistoryCap = 3
  MaxEvents = 2
SPECIFICATION FairSpec
CHECK_DEADLOCK FALSE
INVARIANTS
  TypeOK
  NoLostWakeup
  OrderKept
PROPERTY
  EventuallyTaken
