CONSTANTS
  Schemas = {"live_car", "stored_car"}
  SchemaOf <- MCSchemaOf
  StoredSchema = "stored_car"
  Disturbances = {"subsession"}
  MaxSubsessions = 2
  MaxNum = 1
  MaxMoves = 5
SPECIFICATION Spec
CHECK_DEADLOCK FALSE
PROPERTIES
  NewSessionEndsSegment
