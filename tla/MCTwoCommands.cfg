SPECIFICATION Spec
CONSTANTS
  Values = {v1, v2}
  MinBet = MinBet
  NoValue = NoValue
  LongMax = 9
  Agents = {1, 2}
  Levels = {70}
  DecissionTimes = {1}
  CommandRetrys = 1
  AckRetrys = 1
  SafeStepRobots = {}
  EngagedFirst = TRUE
  MaxCommands = 2
  MaxResends = 1
  MaxDups = 0
INVARIANTS
  TypeOK
  ClockDominates
  AgreedMeansHeld
PROPERTIES
  CommandEndsAnswered
  AcknowledgeEndsNoted
  
  
CHECK_DEADLOCK FALSE
