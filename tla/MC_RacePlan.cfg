CONSTANTS
  Laps = 6
  Tank = 5
  StartLevels = {5}
  Refuels = {5}
  Regulations <- MCRegulations
  FitLaps = 2
  LongStint = 2
  PaceBand = 1
  Proposals <- MCProposals
  MaxTries = 2
  MaxStops = 1
  Push = Push
  Neutral = Neutral
  Conserve = Conserve
  NoPlan = NoPlan
  NoElement = NoElement
  NoRule = NoRule
  NoSnapshot = NoSnapshot
SPECIFICATION Spec
INVARIANTS TypeOK RevisionsTellThePlan
PROPERTIES SettledAtTheLine
CHECK_DEADLOCK FALSE
