SPECIFICATION Spec
CONSTANTS
  Values = {"a"}
  MinBet = MinBet
  NoValue = NoValue
  LongMax = 9
  Robots = {1, 2, 3}
  Proposals <- MCProposals
  OwnBelieves <- MCOwnBelieves
  MaxLength = 3
INVARIANTS
  TypeOK
  LoopFindsWinner
  NoOlderProposalAccepted
  NoEmptyProposalAccepted
CHECK_DEADLOCK FALSE
