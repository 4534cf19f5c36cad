SPECIFICATION Spec
CONSTANTS
  VlanRifs = {}
  PortRifs = {p1}
  BridgeRifs = {}
  Ips = {ip1, ip2}
  Macs = {m1}
  Ports = {t1}
  NoMac = NoMac
  NoPort = NoPort
  NoHw = NoHw
  ArpIds = {1, 2}
  NhIds = {1, 2}
  OneVrf = FALSE
  MacAttrs = {TRUE, FALSE}
  CreateActs = {"FORWARD"}
  SetActs = {"DROP"}
  MissActs = {}
  HostAttrs = {"no"}
  NbAttrs = {}
  RemoveAllUsed = TRUE
  BusyRifRemoved = TRUE
  HwLearning = FALSE
  MaxEvents = 1
  MaxNeighbors = 1
  CntWrap = 2
  Faults = {"add_arp", "update_arp", "add_nh", "update_nh", "host_route"}
  p1 = p1
  ip1 = ip1
  ip2 = ip2
  m1 = m1
  t1 = t1
INVARIANTS
  TypeOK
  IdsUnique
CHECK_DEADLOCK TRUE
