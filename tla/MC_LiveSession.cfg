CONSTANTS
  Schemas = {"live_car", "stored_car"}
  SchemaOf <- MCSchemaOf
  StoredSchema = "stored_car"
  Disturbances = {"subsession", "shutdown"}
  MaxSubsessions = 3
  MaxNum = 1
  MaxMoves = 6
SPECIFICATION FairSpec
CHECK_DEADLOCK FALSE
INVARIANTS
  TypeOK
  OneSegmentPerRun
  FeedIsJournaled
  FinalStateIsItsOwn
  EveryClosedRunFires
  SessionsFinalised
  FrozenIsStale

  
