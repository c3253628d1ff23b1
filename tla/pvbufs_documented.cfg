CONSTANTS
  PvIds = {1, 2, 3, 4, 5}
  NumIovecs <- SmallIovecs
  DefaultSize = 5
  ListSize = 4
  OneLine = TRUE
  Bufs = {1, 2, 3}
  BufSize = 5
  MaxLen = 6
  Handles = {h1, h2, h3}
  Lens = {}
  Offs = {}
  Pieces <- LongPieces
  Starts <- EmptyStarts
  MaxOps = 6
SPECIFICATION Spec
SYMMETRY Sym
INVARIANT CallsAsDocumented
