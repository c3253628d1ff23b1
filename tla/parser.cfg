SPECIFICATION FairSpec
CONSTANTS
  Parsers <- AllParsers
  MaxLen = 5
  Word = 16
  NUM_FAST_NODES = 3
  MaxCalls = 8
INVARIANTS
  BytesInPacket
  LimitsHold
  ExitNodeRun
  FastAgrees
PROPERTIES
  Terminates
CHECK_DEADLOCK FALSE
