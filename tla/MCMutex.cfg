SPECIFICATION MutexSequentialSpec
CONSTANTS
  Values = {0, 1, 2}
  MinBet = MinBet
  NoValue = NoValue
  LongMax = 9
  Agents = {1, 2}
  Levels = {70}
  DecissionTimes = {1}
  CommandRetrys = 1
  AckRetrys = 1
  SafeStepRobots = {}
  EngagedFirst = TRUE
  MaxCommands = 4
  MaxResends = 1
  MaxDups = 1
  Strict = TRUE
INVARIANTS
  MutexIsUsable
  SequentialUseConverges
PROPERTIES
  OwnerKeepsSection
CHECK_DEADLOCK FALSE
