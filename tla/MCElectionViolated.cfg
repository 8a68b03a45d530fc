SPECIFICATION Spec
CONSTANTS
  Values = {1, 2}
  MinBet = 0
  NoValue = NoValue
  LongMax = 9
  Agents = {1, 2, 3}
  Levels = {37}
  DecissionTimes = {1}
  CommandRetrys = 0
  AckRetrys = 0
  SafeStepRobots = {}
  EngagedFirst = TRUE
  MaxCommands = 2
  MaxResends = 0
  MaxDups = 0
PROPERTIES
  VotesAreOwn
CHECK_DEADLOCK FALSE
