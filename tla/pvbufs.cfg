CONSTANTS
  PvIds = {1, 2, 3, 4}
  NumIovecs <- MCNumIovecs
  DefaultSize = 5
  ListSize = 4
  OneLine = TRUE
  Bufs = {1, 2, 3, 4, 5}
  BufSize = 3
  MaxLen = 6
  Handles = {h1, h2}
  Lens = {0, 2, 5}
  Offs = {0, 2}
  Pieces <- MCPieces
  Starts <- MCStarts
  MaxOps = 2
SPECIFICATION Spec
SYMMETRY Sym
INVARIANTS
  WellFormed
  RefsExact
  LengthsTrue
  PopsExact
  PullsTogether
  ReadsAgree
PROPERTIES
  ImplementsPackets
