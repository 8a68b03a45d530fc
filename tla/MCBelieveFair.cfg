SPECIFICATION FairUpdateSpec
CONSTANTS
  Values = {v1}
  MinBet = MinBet
  NoValue = NoValue
  LongMax = 9
  Agents = {1, 2}
  Levels = {70}
  DecissionTimes = {1}
  CommandRetrys = 1
  AckRetrys = 1
  SafeStepRobots = {2}
  EngagedFirst = FALSE
  MaxCommands = 1
  MaxResends = 5
  MaxDups = 0
  MaxUpdates = 1
  MaxRestarts = 1
  MaxJobs = 4
INVARIANTS
  EngagedAreRestored
PROPERTIES
  JobsFinish
CHECK_DEADLOCK FALSE
