CONSTANTS
  NoAnswer = NoAnswer
  BadAnswer = BadAnswer
  fuel = fuel
  pit = pit
  Tools = {fuel, pit}
  Prefetch = {fuel}
  MaxToolIterations = 2
  RetryAttempts = 1
  RepairAttempts = 1
  Answers <- MCAnswers
  MaxRuns = 1
SPECIFICATION FairSpec
CHECK_DEADLOCK FALSE
INVARIANTS
  TypeOK
PROPERTIES
  ImplementsOneRun
  SpokenIsGrounded
  HeldAnswerIsUsed
