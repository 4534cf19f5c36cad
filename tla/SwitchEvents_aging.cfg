CONSTANTS
  Macs = {m1, m2}
  Ports = {p1}
  NoPort = NoPort
  BridgePorts = {p1}
  LearnBatch = 2
  AgingBatch = 2
  MaxQueue = 2
  MaxFlips = 1
  MaxCalls = 0
SPECIFICATION Spec
INVARIANT CopyExact
CHECK_DEADLOCK FALSE
