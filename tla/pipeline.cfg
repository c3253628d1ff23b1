SPECIFICATION FairSpec
CONSTANTS
  NumStages = 4
  Size = 2
  Input = 4
  Hold = 1
  Fails <- AllButLast
INVARIANTS
  InOrder
  EndIsEnd
  AllDelivered
PROPERTIES
  Returns
