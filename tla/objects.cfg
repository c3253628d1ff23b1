SPECIFICATION PbufSpec
CONSTANTS
  a = a
  b = b
  s1 = s1
  s2 = s2
  s3 = s3
  Procs = {a, b}
  Slots = {s1, s2, s3}
  NumObjs = 3
  ObjSize = 8
  Start = 8
  Base <- Apart
  Xlat = TRUE
  BaseIndex = 1
  Junk = {0, 16}
SYMMETRY Iovecs
INVARIANTS
  NoSharing
  FreeListSound
  RefsCounted
  WriteExclusive
