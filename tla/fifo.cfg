SPECIFICATION TeamSpec
CONSTANTS
  f1 = f1
  f2 = f2
  p1 = p1
  p2 = p2
  c1 = c1
  c2 = c2
  r1 = r1
  w1 = w1
  Null = Null
  NoMsg = NoMsg
  NumEnts = 2
  LowWaterMark = 2
  Msgs = {1, 2}
  Fifos = {f1}
  Producers = {p1, p2}
  Consumers = {c1}
  Pollers = {r1, w1}
  Signallers = {w1}
  WaitModes = {TRUE, FALSE}
  MaxFifos = 2
  ReadPos <- ReadByR1
  WritePos <- WrittenByW1
  NonFifoNums = {1}
  NoPollGroups = {}
  Reconfigure = TRUE
ACTION_CONSTRAINT PollersSendOne
INVARIANTS
  ReadReadiness
  WriteReadiness
  PollerAwake
  ConsumerAwake
  ProducerAwake
PROPERTIES
  ImplementsQueues
