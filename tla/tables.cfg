SPECIFICATION Spec
CONSTANTS
  Kinds = {"plain", "tern", "lpm"}
  Matches <- MatchesOf
  Keys <- Bits
  Hash <- Hashes
  Idents = {0, 1, 3, 4}
  BASE_IDENT = 3
  Targets = {1, 2}
  a1 = a1
  a2 = a2
  a3 = a3
  Addresses = {a1, a2, a3}
  MaxTables = 4
  SectionTables = {0, 1}
  Null = Null
SYMMETRY Symmetry
CONSTRAINT OneAtATime
INVARIANTS
  ListsAgree
  BestMatch
  KeyFindsEntry
  AutoIdentsUsable
PROPERTIES
  OlderWinsTies
