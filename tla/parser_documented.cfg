SPECIFICATION FairSpec
CONSTANTS
  Parsers <- RoutedOnly
  MaxLen = 6
  Word = 16
  NUM_FAST_NODES = 3
  MaxCalls = 8
PROPERTY ParseAsDocumented
CHECK_DEADLOCK FALSE
