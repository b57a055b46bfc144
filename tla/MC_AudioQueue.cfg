CONSTANTS
  spotter = spotter
  strategist = strategist
  left = left
  clear = clear
  box = box
  gap = gap
  pit = pit
  Messages = {left, clear, box, gap}
  Agents = {spotter, strategist}
  AgentOf <- MCAgentOf
  PriorityOf <- MCPriorityOf
  SubjectOf <- MCSubjectOf
  NoSubject = NoSubject
  NoMessage = NoMessage
  StaleAfter = 1
  SeenLimit = 2
SPECIFICATION FairAudioSpec
CHECK_DEADLOCK FALSE
INVARIANTS
  ChannelInOrder
PROPERTIES
  CriticalIsSaid
