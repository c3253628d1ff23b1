SPECIFICATION FairSpec
CONSTANTS
  t1 = t1
  t2 = t2
  Timers = {t1, t2}
  NumSlots = 2
  TimeMod = 12
  BatchSize = 1
  Delays = {0, 2}
  StartTimes = {0}
  TenSeconds = 2
  Apps <- AnyApps
  NoTime = NoTime
INVARIANTS
  WheelConsistent
  NothingOverdue
  ThreadWaitsForFirst
  PunctualPopSet
  FreedQuiet
PROPERTIES
  NeverEarly
  TimerFires
