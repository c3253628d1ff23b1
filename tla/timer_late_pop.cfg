SPECIFICATION Spec
CONSTANTS
  t1 = t1
  t2 = t2
  Timers = {t1, t2}
  NumSlots = 2
  TimeMod = 16
  BatchSize = 2
  Delays = {0, 3}
  StartTimes = {14}
  TenSeconds = 2
  Apps <- LateApps
  NoTime = NoTime
INVARIANTS
  PopSet
