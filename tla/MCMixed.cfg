SPECIFICATION Spec
CONSTANTS
  Values = {1, 2}
  MinBet = 0
  NoValue = NoValue
  LongMax = 9
  Agents = {1, 2}
  Levels = {0, 37, 39, 68}
  DecissionTimes = {1}
  CommandRetrys = 1
  AckRetrys = 1
  SafeStepRobots = {2}
  EngagedFirst = FALSE
  MaxCommands = 2
  MaxResends = 0
  MaxDups = 0
INVARIANTS
  ClockDominates
  OneProposalPerRobot
  ElectedHasHighestBet
PROPERTIES
  ProposalsOnlyRenewed
  AcknowledgeEndsNoted
CHECK_DEADLOCK FALSE
