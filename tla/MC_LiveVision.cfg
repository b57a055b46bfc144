CONSTANTS
  Sessions = {s1, s2}
  Nobody = Nobody
  MaxCalls = 2
  Budget = 2
  MinGap = 1
  MaxTime = 2
  MaxRuns = 2
  MaxRecords = 2
SPECIFICATION FairSpec
CHECK_DEADLOCK FALSE
INVARIANTS
  TypeOK
  
  
PROPERTIES
  MomentsSettle
