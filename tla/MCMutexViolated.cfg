SPECIFICATION MutexSpec
CONSTANTS
  Values = {0, 1, 2}
  MinBet = MinBet
  NoValue = NoValue
  LongMax = 9
  Agents = {1, 2}
  Levels = {70}
  DecissionTimes = {1}
  CommandRetrys = 0
  AckRetrys = 0
  SafeStepRobots = {}
  EngagedFirst = TRUE
  MaxCommands = 3
  MaxResends = 0
  MaxDups = 0
  Strict = FALSE
INVARIANTS
  MutualExclusion
CHECK_DEADLOCK FALSE
