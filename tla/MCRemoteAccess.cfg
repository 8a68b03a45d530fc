SPECIFICATION LuckySpec
CONSTANTS
  Values = {v1}
  MinBet = MinBet
  NoValue = NoValue
  LongMax = 9
  Agents = {1, 2}
  Levels = {40}
  DecissionTimes = {1}
  CommandRetrys = 1
  AckRetrys = 0
  SafeStepRobots = {2}
  EngagedFirst = TRUE
  MaxCommands = 1
  MaxResends = 1
  MaxDups = 0
  MaxRequests = 2
  MaxWrites = 1
INVARIANTS
  ClockDominates
  AgreedMeansHeld
  ResponsesWereHeld
  ResponsesAnswerLast

  

CHECK_DEADLOCK FALSE
