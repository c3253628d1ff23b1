SPECIFICATION FairSpec
CONSTANTS
  f1 = f1
  f2 = f2
  p1 = p1
  p2 = p2
  c1 = c1
  c2 = c2
  r1 = r1
  w1 = w1
  Null = Null
  NoMsg = NoMsg
  NumEnts = 2
  LowWaterMark = 1
  Msgs = {1}
  Fifos = {f1, f2}
  Producers = {p1}
  Consumers = {}
  Pollers = {r1}
  Signallers = {}
  WaitModes = {TRUE}
  MaxFifos = 3
  ReadPos <- ReadByR1
  WritePos <- NoPos
  NonFifoNums = {}
  NoPollGroups = {}
  Reconfigure = FALSE
PROPERTIES
  ReadablePolled
  ProducersServed
