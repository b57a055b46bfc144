CONSTANTS
  Runs = {race, practice}
  Debriefed = {race}
  Requests = {ask}
  Hook = Hook
  plan = plan
  lost = lost
  Sections = {plan, lost}
  Answers <- MCAnswers
  NoAnswer = NoAnswer
  NoRun = NoRun
  NoDoc = NoDoc
SPECIFICATION FairSpec
CHECK_DEADLOCK FALSE
INVARIANTS
  DocumentIsSound
  LastRecordIsTheDocument
PROPERTIES
  EveryRunIsDebriefed
