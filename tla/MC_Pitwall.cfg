CONSTANTS
  strategist = strategist
  spotter = spotter
  judgement = judgement
  second = second
  lookup = lookup
  Agents = {strategist, spotter}
  Detections = {"lap", "crash"}
  Critical = {"crash"}
  Listens <- MCListens
  Questions = {judgement, lookup}
  Owner <- MCOwner
  Lookups = {lookup}
  SessionTypes = {}
  Unknown = Unknown
  Autonomous = FALSE
  FullSessions = {}
  Rosters <- MCRosters
  MaxCalls = 2
  MaxInflight = 1
  FailureLimit = 1
  Cooldown = 1
  MaxTurns = 1
  Disturbances = {"switch"}
  MaxSessions = 1
  MaxTime = 0
  MaxPending = 2
SPECIFICATION FairSpec
CHECK_DEADLOCK FALSE
INVARIANTS
  TypeOK
  QuestionAccounted
PROPERTIES
  QuestionOutlivesChatter
