CONSTANTS
  Macs = {m1, m2}
  Ports = {p1, p2}
  NoPort = NoPort
  BridgePorts = {p1}
  LearnBatch = 2
  AgingBatch = 1
  MaxQueue = 2
  MaxFlips = 3
  MaxCalls = 1
SPECIFICATION Spec
INVARIANTS TypeOK PortStateTold
PROPERTIES FollowsFdb LinkConverges DownPortForgotten
CHECK_DEADLOCK FALSE
