SPECIFICATION UpdateSpec
CONSTANTS
  Values = {v1, v2}
  MinBet = MinBet
  NoValue = NoValue
  LongMax = 9
  Agents = {1, 2}
  Levels = {40}
  DecissionTimes = {1}
  CommandRetrys = 1
  AckRetrys = 0
  SafeStepRobots = {}
  EngagedFirst = FALSE
  MaxCommands = 2
  MaxResends = 1
  MaxDups = 0
  MaxUpdates = 1
  MaxRestarts = 1
  MaxJobs = 4
CONSTRAINT OneFault
SYMMETRY ValueSymmetry
INVARIANTS
  ClockDominatesAtFirst
  RecordsDominated
  OneProposalPerRobot
  EngagedAreRestored
PROPERTIES
  
  NotificationEndsAnswered
CHECK_DEADLOCK FALSE
