SPECIFICATION FairSpec
CONSTANTS
  Robots = {2}
  MaxCalls = 3
INVARIANTS
  
  SafeStepKeepsOneProposal
PROPERTIES
  CallsReturn
CHECK_DEADLOCK FALSE
