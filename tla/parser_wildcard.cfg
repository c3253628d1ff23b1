SPECIFICATION Spec
CONSTANTS
  Parsers <- RoutingOnly
  MaxLen = 2
  Word = 16
  NUM_FAST_NODES = 3
  MaxCalls = 8
INVARIANT WildcardTaken
CHECK_DEADLOCK FALSE
