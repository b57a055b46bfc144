CONSTANTS
  strategist = strategist
  spotter = spotter
  judgement = judgement
  second = second
  lookup = lookup
  Agents = {strategist}
  Detections = {"lap"}
  Critical = {}
  Listens <- MCListens
  Questions = {}
  Owner <- MCOwner
  Lookups = {}
  SessionTypes = {"practice", "race"}
  Unknown = Unknown
  Autonomous = TRUE
  FullSessions = {"race"}
  Rosters <- MCRosters
  MaxCalls = 1
  MaxInflight = 1
  FailureLimit = 1
  Cooldown = 1
  MaxTurns = 1
  Disturbances = {"switch", "agent_switch", "reset", "disconnect", "vision", "failure"}
  MaxSessions = 2
  MaxTime = 1
  MaxPending = 3
SPECIFICATION Spec
CHECK_DEADLOCK FALSE
INVARIANTS
  StandbyFollowsSession
  BudgetOvershootBounded
  BreakerMeansOff
