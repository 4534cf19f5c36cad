SPECIFICATION Spec
CONSTANTS
  VlanRifs = {v1}
  PortRifs = {}
  BridgeRifs = {b1}
  Ips = {ip1}
  Macs = {m1}
  Ports = {t1}
  NoMac = NoMac
  NoPort = NoPort
  NoHw = NoHw
  ArpIds = {1}
  NhIds = {1, 2}
  OneVrf = FALSE
  MacAttrs = {TRUE}
  CreateActs = {"FORWARD", "TRAP"}
  SetActs = {"DROP"}
  MissActs = {"DROP"}
  HostAttrs = {"yes", "no"}
  NbAttrs = {"mac", "action", "no_host_route"}
  RemoveAllUsed = FALSE
  BusyRifRemoved = FALSE
  HwLearning = TRUE
  MaxEvents = 1
  MaxNeighbors = 3
  CntWrap = 8
  Faults = {"add_arp"}
  v1 = v1
  b1 = b1
  ip1 = ip1
  m1 = m1
  t1 = t1
INVARIANTS
  PoolsExact
  RefExact
  NextHopKept
  AdjacencyFresh
  HostRouteExact
  CountsExact
PROPERTIES
  NeighborKept
CHECK_DEADLOCK TRUE
